---------------------------- MODULE CvbdAsyncProofs ----------------------------
(***************************************************************************)
(* The asynchronous stack, for every value of the constants: types, the    *)
(* kinds of steps, pointers to VolumeStates, and the CVBDAIOCBs, which are *)
(* resumed after they have yielded, found by their replies, not forgotten, *)
(* and never the cause of a failed assertion; and the life of VolumeStates *)
(* in the server.  What guests get from it is in CvbdAsyncDataProofs.      *)
(***************************************************************************)
EXTENDS CvbdAsync, SharedMemServerProofs

(***************************************************************************)
(* Type correctness.  ClientShape adds to the types what keeps them: only  *)
(* a client that is open has CVBDAIOCBs, at most one coroutine is running, *)
(* and the reply thread has a reply when it handles one, send_open once it *)
(* has asserted its type.                                                  *)
(***************************************************************************)
Calling == {"idle", "getsize", "sending", "submitted"}
Answered == {"typed", "granted", "returning"}
NotMapped == {"none", "ctor_open", "failed"} \cup Dead

ClientShape(c) ==
  /\ \A a \in Acbs : acbs[c][a] # Null => Acb(acbs[c][a]) /\ pc[c] \in Calling
  /\ \A a, b \in Acbs : Running(c, a) /\ Running(c, b) => a = b
  /\ pc[c] \in {"sending", "submitted"} <=> \E a \in Acbs : Running(c, a)
  /\ pc[c] \notin NotMapped => request_mq_[c] \in Epochs
  /\ thr[c] = "handle" \/ pc[c] \in Answered => reply_msg_[c] \in Reply

ClientTypes ==
  /\ pc \in [Clients -> PC]
  /\ thr \in [Clients -> {"none", "receive", "handle", "receive_null", "done"}]
  /\ request_mq_ \in [Clients -> Epochs \cup {Null}]
  /\ volume_ \in [Clients -> Clients \cup {Null}]
  /\ reply_msg_ \in [Clients -> Reply \cup {Null}]
  /\ freed \in [Clients -> BOOLEAN]
  /\ acbs \in [Clients -> [Acbs -> AcbState \cup {Null}]]
  /\ length \in [Clients -> Nat]
  /\ calls \in [Clients -> 0 .. MaxCalls + 1]

HistoryTypes ==
  /\ view \in [Volumes -> [0 .. FileSize - 1 -> Val]]
  /\ writes \in [Volumes -> [queued : Nat, done : Nat, synced : Nat]]
  /\ DOMAIN due = Clients
  /\ \A c \in Clients : DOMAIN due[c] = Acbs
  /\ \A c \in Clients, a \in Acbs :
       due[c][a] = [bytes |-> due[c][a].bytes, writes |-> due[c][a].writes] /\ due[c][a].writes \in Nat

Shape ==
  /\ QueuesTypeOK /\ ServerTypeOK /\ ClientTypes /\ HistoryTypes
  /\ \A c \in Clients : ClientShape(c)

LEMMA ShapeInit == Init => Shape
<1> SUFFICES ASSUME Init PROVE Shape
  OBVIOUS
<1>1. QueuesTypeOK
  BY DEF Init, QueuesInit, QueuesTypeOK
<1>2. ServerTypeOK
  BY SharedMemAssumption DEF Init, ServerInit, ServerTypeOK
<1>3. ClientTypes
  BY CvbdAssumption DEF Init, ClientInit, ClientTypes, PC, Gone
<1>4. HistoryTypes
  <2>1. view \in [Volumes -> [0 .. FileSize - 1 -> Val]]
    BY <1>2 DEF Init, ServerTypeOK
  <2> QED BY <2>1 DEF Init, HistoryTypes, NothingDue
<1>5. \A c \in Clients : ClientShape(c)
  BY DEF Init, ClientInit, ClientShape, NotMapped, Answered, Running
<1> QED BY <1>1, <1>2, <1>3, <1>4, <1>5 DEF Shape

LEMMA ShapeTypes ==
  ASSUME Shape
  PROVE  /\ QueuesTypeOK /\ ServerTypeOK /\ ClientTypeOK
         /\ length \in [Clients -> Nat]
         /\ calls \in [Clients -> 0 .. MaxCalls + 1]
         /\ view \in [Volumes -> [0 .. FileSize - 1 -> Val]]
         /\ \A c \in Clients : pc[c] \in {"sending", "submitted"} <=> \E a \in Acbs : Running(c, a)
         /\ writes \in [Volumes -> [queued : Nat, done : Nat, synced : Nat]]
  BY DEF Shape, ClientTypes, HistoryTypes, ClientTypeOK, ClientShape

-------------------------------------------------------------------------------
\* The history variables.
LEMMA FreedTypes == ASSUME HistoryTypes, NoteFreed PROVE HistoryTypes'
<1>1. /\ DOMAIN due' = Clients /\ \A c \in Clients : DOMAIN due'[c] = Acbs
      /\ \A c \in Clients, a \in Acbs : due'[c][a] = NothingDue \/ due'[c][a] = due[c][a]
  BY DEF NoteFreed
<1> QED BY <1>1 DEF HistoryTypes, NoteFreed, NothingDue

LEMMA ReadTypes ==
  ASSUME HistoryTypes, NEW c \in Clients, NEW a \in Acbs, NoteRead(c, a) \/ NoteFlush(c, a)
  PROVE  HistoryTypes'
<1>1. VolumeOf[c] \in Volumes
  BY SharedMemAssumption
<1>2. writes[VolumeOf[c]].queued \in Nat
  BY <1>1 DEF HistoryTypes
<1>3. \E x : /\ x = [bytes |-> x.bytes, writes |-> x.writes] /\ x.writes \in Nat
             /\ due' = [due EXCEPT ![c][a] = x]
  <2>1. due[c][a] = [bytes |-> due[c][a].bytes, writes |-> due[c][a].writes] /\ due[c][a].writes \in Nat
    BY DEF HistoryTypes
  <2>2. CASE NoteRead(c, a)
    <3>1. PICK y : due' = [due EXCEPT ![c][a].bytes = y]
      BY <2>2 DEF NoteRead
    <3>2. due' = [due EXCEPT ![c][a] = [due[c][a] EXCEPT !.bytes = y]]
      BY <3>1
    <3>3. [due[c][a] EXCEPT !.bytes = y] = [bytes |-> y, writes |-> due[c][a].writes]
      BY <2>1
    <3> QED BY <2>1, <3>2, <3>3
  <2>3. CASE NoteFlush(c, a)
    <3>1. due' = [due EXCEPT ![c][a].writes = writes[VolumeOf[c]].queued]
      BY <2>3 DEF NoteFlush
    <3>2. due' = [due EXCEPT ![c][a] = [due[c][a] EXCEPT !.writes = writes[VolumeOf[c]].queued]]
      BY <3>1
    <3>3. [due[c][a] EXCEPT !.writes = writes[VolumeOf[c]].queued] =
            [bytes |-> due[c][a].bytes, writes |-> writes[VolumeOf[c]].queued]
      BY <2>1
    <3> QED BY <1>2, <3>2, <3>3
  <2> QED BY <2>2, <2>3
<1>4. PICK x : /\ x = [bytes |-> x.bytes, writes |-> x.writes] /\ x.writes \in Nat
               /\ due' = [due EXCEPT ![c][a] = x]
  BY <1>3
<1>5. /\ DOMAIN due' = Clients /\ \A d \in Clients : DOMAIN due'[d] = Acbs
      /\ \A d \in Clients, b \in Acbs : due'[d][b] = x \/ due'[d][b] = due[d][b]
  BY <1>4 DEF HistoryTypes
<1>6. view' = view /\ writes' = writes
  BY DEF NoteRead, NoteFlush
<1> QED BY <1>4, <1>5, <1>6 DEF HistoryTypes

\* Copying a buffer of exactly the size of the request into a file.
LEMMA PutType ==
  ASSUME NEW n \in Nat, NEW f \in [0 .. n - 1 -> Val],
         NEW offset \in Nat, NEW size \in Nat, NEW data \in [0 .. size - 1 -> Val]
  PROVE  Overwrite(f, offset, data, size) \in [0 .. n - 1 -> Val]
<1> SUFFICES ASSUME NEW p \in 0 .. n - 1, p \in offset .. (offset + size - 1)
             PROVE  data[p - offset] \in Val
  BY DEF Overwrite
<1>1. p - offset \in 0 .. size - 1
  OBVIOUS
<1> QED BY <1>1

LEMMA WriteTypes ==
  ASSUME HistoryTypes, NEW c \in Clients, NEW a \in Acbs, NoteWrite(c, a),
         Acb(acbs[c][a]), acbs[c][a].type = "REQ_WRITE"
  PROVE  HistoryTypes'
<1> DEFINE v == VolumeOf[c]
           acb == acbs[c][a]
<1>1. v \in Volumes /\ view[v] \in [0 .. FileSize - 1 -> Val] /\ writes[v] \in [queued : Nat, done : Nat, synced : Nat]
  BY SharedMemAssumption DEF HistoryTypes
<1>2. acb.offset \in Nat /\ acb.size \in Nat /\ acb.buf \in [0 .. acb.size - 1 -> Val]
  BY SharedMemAssumption DEF Acb, AcbState
<1>3. Overwrite(view[v], acb.offset, acb.buf, acb.size) \in [0 .. FileSize - 1 -> Val]
  <2> HIDE DEF v, acb
  <2> QED BY <1>1, <1>2, PutType, SharedMemAssumption
<1>4. view' \in [Volumes -> [0 .. FileSize - 1 -> Val]]
  <2>1. view' = view \/ view' = [view EXCEPT ![v] = Overwrite(view[v], acb.offset, acb.buf, acb.size)]
    BY DEF NoteWrite
  <2> HIDE DEF v, acb
  <2> QED BY <1>1, <1>3, <2>1 DEF HistoryTypes
<1>5. writes' \in [Volumes -> [queued : Nat, done : Nat, synced : Nat]]
  <2>1. writes' = writes \/ writes' = [writes EXCEPT ![v].queued = @ + 1]
    BY DEF NoteWrite
  <2> HIDE DEF v
  <2>2. PICK w \in [queued : Nat, done : Nat, synced : Nat] : w = [writes[v] EXCEPT !.queued = @ + 1]
    <3>1. [writes[v] EXCEPT !.queued = @ + 1] \in [queued : Nat, done : Nat, synced : Nat]
      BY <1>1
    <3> QED BY <3>1
  <2>3. writes' = writes \/ writes' = [writes EXCEPT ![v] = w]
    BY <2>1, <2>2
  <2>4. writes \in [Volumes -> [queued : Nat, done : Nat, synced : Nat]]
    BY DEF HistoryTypes
  <2> QED BY <2>3, <2>4
<1> QED BY <1>4, <1>5 DEF HistoryTypes, NoteWrite

LEMMA ServerHistoryTypes ==
  ASSUME HistoryTypes, ServerTypeOK, ServerTypeOK', NoteServer
  PROVE  HistoryTypes'
<1>1. view' \in [Volumes -> [0 .. FileSize - 1 -> Val]]
  <2>1. disk' \in [Volumes -> [0 .. FileSize - 1 -> Val]]
    BY DEF ServerTypeOK
  <2> QED BY <2>1 DEF HistoryTypes, NoteServer
<1>2. ASSUME NEW v \in Volumes PROVE writes'[v] \in [queued : Nat, done : Nat, synced : Nat]
  <2>1. writes[v] \in [queued : Nat, done : Nat, synced : Nat]
    BY DEF HistoryTypes
  <2>2. writes'[v] \in {[writes[v] EXCEPT !.queued = writes[v].done],
                        [writes[v] EXCEPT !.done = @ + 1],
                        [writes[v] EXCEPT !.synced = writes[v].done], writes[v]}
    BY DEF NoteServer
  <2> QED BY <2>1, <2>2
<1>3. writes' \in [Volumes -> [queued : Nat, done : Nat, synced : Nat]]
  <2>1. writes' = [v \in Volumes |-> writes'[v]]
    BY DEF NoteServer
  <2> QED BY <1>2, <2>1
<1> QED BY <1>1, <1>3 DEF HistoryTypes, NoteServer

-------------------------------------------------------------------------------
\* A step of client c leaves the others alone.
Others(c) ==
  \A d \in Clients : d # c =>
    /\ pc'[d] = pc[d] /\ thr'[d] = thr[d] /\ request_mq_'[d] = request_mq_[d]
    /\ volume_'[d] = volume_[d] /\ reply_msg_'[d] = reply_msg_[d]
    /\ freed'[d] = freed[d] /\ acbs'[d] = acbs[d] /\ length'[d] = length[d]

LEMMA ShapeFromParts ==
  ASSUME Shape, NEW c \in Clients, UNCHANGED serverVars, Others(c),
         QueuesTypeOK', ClientTypes', HistoryTypes', ClientShape(c)'
  PROVE  Shape'
<1>1. ServerTypeOK'
  BY DEF Shape, ServerTypeOK, serverVars
<1>2. ASSUME NEW d \in Clients PROVE ClientShape(d)'
  <2>1. CASE d = c
    BY <2>1
  <2>2. CASE d # c
    BY <2>2 DEF Others, Shape, ClientShape, Running
  <2> QED BY <2>1, <2>2
<1> QED BY <1>1, <1>2 DEF Shape

\* Steps that do not touch the CVBDAIOCBs.
LEMMA ShapeKeeps ==
  ASSUME Shape, NEW c \in Clients, UNCHANGED serverVars, Others(c), acbs' = acbs,
         QueuesTypeOK', ClientTypes', HistoryTypes',
         (\A a \in Acbs : acbs[c][a] = Null) \/ pc'[c] \in Calling,
         pc'[c] \in {"sending", "submitted"} <=> pc[c] \in {"sending", "submitted"},
         pc'[c] \notin NotMapped => request_mq_'[c] \in Epochs,
         thr'[c] = "handle" \/ pc'[c] \in Answered => reply_msg_'[c] \in Reply
  PROVE  Shape'
<1>1. ClientShape(c)
  BY DEF Shape
<1>2. ClientShape(c)'
  BY <1>1 DEF ClientShape, Running
<1> QED BY <1>2, ShapeFromParts

\* Steps that set one CVBDAIOCB.
LEMMA ShapeSets ==
  ASSUME Shape, NEW c \in Clients, UNCHANGED serverVars, Others(c),
         NEW a \in Acbs, NEW x, SetAcb(c, a, x), x = Null \/ Acb(x),
         QueuesTypeOK', ClientTypes', HistoryTypes',
         x # Null => pc'[c] \in Calling,
         pc[c] \in Calling => pc'[c] \in Calling,
         IF x # Null /\ ~x.yielded
         THEN /\ pc'[c] \in {"sending", "submitted"}
              /\ \A b \in Acbs : Running(c, b) => b = a
         ELSE pc'[c] \in {"sending", "submitted"} <=> \E b \in Acbs : b # a /\ Running(c, b),
         pc'[c] \notin NotMapped => request_mq_'[c] \in Epochs,
         thr'[c] = "handle" \/ pc'[c] \in Answered => reply_msg_'[c] \in Reply
  PROVE  Shape'
<1>1. ClientShape(c)
  BY DEF Shape
<1>2. acbs'[c][a] = x /\ \A b \in Acbs : b # a => acbs'[c][b] = acbs[c][b]
  BY DEF Shape, ClientTypes, SetAcb
<1>3. \A b \in Acbs : acbs'[c][b] # Null => Acb(acbs'[c][b]) /\ pc'[c] \in Calling
  BY <1>1, <1>2 DEF ClientShape
<1>4. \A b \in Acbs : Running(c, b)' <=> IF b = a THEN x # Null /\ ~x.yielded ELSE Running(c, b)
  BY <1>2 DEF Running
<1>5. \A b, e \in Acbs : Running(c, b)' /\ Running(c, e)' => b = e
  BY <1>1, <1>4 DEF ClientShape
<1>6. pc'[c] \in {"sending", "submitted"} <=> \E b \in Acbs : Running(c, b)'
  BY <1>4
<1>7. ClientShape(c)'
  BY <1>3, <1>5, <1>6 DEF ClientShape
<1> QED BY <1>7, ShapeFromParts

\* The process is gone.
LEMMA ShapePerish ==
  ASSUME Shape, NEW c \in Clients, UNCHANGED <<serverVars, length>>, HistoryTypes',
         calls' \in [Clients -> 0 .. MaxCalls + 1], NEW how \in Dead, Perish(c, how)
  PROVE  Shape' /\ Others(c)
<1>1. QueuesTypeOK'
  BY DEF Shape, QueuesTypeOK, Perish, queueVars
<1>2. ClientTypes'
  BY DEF Shape, ClientTypes, Perish, Goto, ThreadGoto, PC, Gone, Dead
<1>3. Others(c)
  BY DEF Shape, ClientTypes, Perish, Goto, ThreadGoto, Others
<1>4. \A a \in Acbs : acbs'[c][a] = Null
  BY DEF Shape, ClientTypes, Perish
<1>5. pc'[c] \in Dead /\ thr'[c] = "none"
  BY DEF Shape, ClientTypes, Perish, Goto, ThreadGoto
<1>6. ClientShape(c)'
  BY <1>4, <1>5 DEF ClientShape, Running, Dead, NotMapped, Answered
<1> QED BY <1>1, <1>2, <1>3, <1>6, ShapeFromParts

\* A message of the main thread.
LEMMA SendTypes ==
  ASSUME Shape, NEW c \in Clients, NEW m \in Request, pc[c] \notin NotMapped,
         NEW p \in PC, Send(c, m, p)
  PROVE  /\ QueuesTypeOK' /\ request_mq_[c] \in Epochs /\ request_mq_' = request_mq_
         /\ pc' \in [Clients -> PC] /\ pc'[c] = p /\ \A d \in Clients : d # c => pc'[d] = pc[d]
<1>1. request_mq_[c] \in Epochs
  BY DEF Shape, ClientShape
<1>2. Append(request_mq[request_mq_[c]], m) \in Seq(Request)
  BY <1>1 DEF Shape, QueuesTypeOK
<1>3. QueuesTypeOK'
  BY <1>1, <1>2 DEF Send, send_request, Shape, QueuesTypeOK
<1> QED BY <1>1, <1>3 DEF Send, Goto, Shape, ClientTypes

-------------------------------------------------------------------------------
LEMMA StopType == StopMessage \in Reply
  BY NoDataType, SharedMemAssumption DEF StopMessage, Reply

LEMMA ShapeConstructor ==
  ASSUME Shape, HistoryTypes', NEW c \in Clients, UNCHANGED <<serverVars, driverVars>>,
         CtorRemove(c) \/ CtorOpen(c) \/ CtorCreate(c)
  PROVE  Shape' /\ Others(c)
<1>1. QueuesTypeOK'
  BY SharedMemAssumption DEF CtorRemove, CtorOpen, CtorCreate, queueVars, Shape, QueuesTypeOK
<1>2. ClientTypes' /\ Others(c) /\ acbs' = acbs
  <2>1. CASE CtorRemove(c)
    BY <2>1 DEF CtorRemove, Goto, driverVars, Shape, ClientTypes, PC, Others
  <2>2. CASE CtorOpen(c)
    BY <2>2 DEF CtorOpen, Goto, driverVars, Shape, QueuesTypeOK, ClientTypes, PC, Gone, Others
  <2>3. CASE CtorCreate(c)
    BY <2>3 DEF CtorCreate, Goto, ThreadGoto, driverVars, Shape, ClientTypes, PC, Gone, Others
  <2> QED BY <2>1, <2>2, <2>3
<1>3. ClientShape(c) /\ pc[c] \in {"none", "ctor_open", "ctor_create"}
  BY DEF Shape, CtorRemove, CtorOpen, CtorCreate
<1>4. \A a \in Acbs : acbs[c][a] = Null
  BY <1>3 DEF ClientShape, Calling
<1>5. pc'[c] \notin {"sending", "submitted"} /\ (pc'[c] \notin NotMapped => request_mq_'[c] \in Epochs)
  <2>1. CASE CtorRemove(c)
    BY <2>1 DEF CtorRemove, Goto, Shape, ClientTypes, NotMapped
  <2>2. CASE CtorOpen(c)
    BY <2>2 DEF CtorOpen, Goto, Shape, QueuesTypeOK, ClientTypes, NotMapped
  <2>3. CASE CtorCreate(c)
    BY <1>3, <2>3 DEF CtorCreate, Goto, Shape, ClientTypes, ClientShape, NotMapped, Dead
  <2> QED BY <2>1, <2>2, <2>3
<1>6. thr'[c] = "handle" \/ pc'[c] \in Answered => reply_msg_'[c] \in Reply
  BY <1>3 DEF ClientShape, CtorRemove, CtorOpen, CtorCreate, Goto, ThreadGoto, Shape, ClientTypes, Answered
<1> QED BY <1>1, <1>2, <1>3, <1>4, <1>5, <1>6, ShapeKeeps

LEMMA ShapeWaits ==
  ASSUME Shape, HistoryTypes', NEW c \in Clients, UNCHANGED <<serverVars, driverVars>>,
         BeginWait(c) \/ SpuriousWakeup(c) \/ OpenReturns(c) \/ DtorFree(c) \/ DtorStop(c) \/ DtorDelete(c)
  PROVE  Shape' /\ Others(c)
<1>1. QueuesTypeOK'
  <2>1. CASE DtorStop(c)
    <3>1. Append(reply_mq[c], StopMessage) \in Seq(Reply)
      BY StopType DEF Shape, QueuesTypeOK
    <3> QED BY <2>1, <3>1 DEF DtorStop, Shape, QueuesTypeOK
  <2> QED
    BY <2>1, SharedMemAssumption
    DEF BeginWait, SpuriousWakeup, OpenReturns, DtorFree, DtorDelete, queueVars, Shape, QueuesTypeOK
<1>2. ClientTypes' /\ Others(c) /\ acbs' = acbs
  <2>1. CASE BeginWait(c) \/ SpuriousWakeup(c)
    BY <2>1 DEF BeginWait, SpuriousWakeup, Goto, driverVars, Shape, ClientTypes, PC, Opening, Reading, Others
  <2>2. CASE OpenReturns(c)
    <3>1. reply_msg_[c] \in Reply /\ reply_msg_[c].volume \in Clients \cup {Null}
      <4>1. reply_msg_[c] \in Reply
        BY <2>2 DEF OpenReturns, OpenAnswered, Shape, ClientTypes, ClientShape, Answered
      <4> QED BY <4>1 DEF Reply
    <3> QED BY <2>2, <3>1 DEF OpenReturns, Goto, driverVars, Shape, ClientTypes, PC, Opening, Reading, Gone, Others
  <2>3. CASE DtorFree(c) \/ DtorStop(c) \/ DtorDelete(c)
    BY <2>3 DEF DtorFree, DtorStop, DtorDelete, Goto, driverVars, Shape, ClientTypes, PC, Gone, Others
  <2> QED BY <2>1, <2>2, <2>3
<1>3. ClientShape(c) /\ pc[c] \in Opening \cup {"dtor_free", "dtor_stop", "dtor_delete"}
  BY DEF Opening, Reading, Shape, BeginWait, SpuriousWakeup, OpenReturns, DtorFree, DtorStop, DtorDelete
<1>4. (\A a \in Acbs : acbs[c][a] = Null) /\ request_mq_[c] \in Epochs
  BY <1>3 DEF ClientShape, Calling, NotMapped, Dead, Opening, Reading
<1>5. pc'[c] \notin {"sending", "submitted"} /\ request_mq_' = request_mq_ /\ thr' = thr /\ reply_msg_' = reply_msg_
  BY DEF BeginWait, SpuriousWakeup, OpenReturns, DtorFree, DtorStop, DtorDelete, Goto, Shape, ClientTypes
<1>6. thr'[c] = "handle" \/ pc'[c] \in Answered => reply_msg_'[c] \in Reply
  <2>1. pc'[c] \in Answered => pc[c] \in Answered \/ (OpenAnswered(c) /\ reply_msg_[c] \in Reply)
    BY DEF Answered, BeginWait, SpuriousWakeup, OpenReturns, OpenAnswered, DtorFree, DtorStop, DtorDelete,
       Goto, Shape, ClientTypes
  <2> QED BY <1>3, <1>5, <2>1 DEF ClientShape
<1> QED BY <1>1, <1>2, <1>3, <1>4, <1>5, <1>6, ShapeKeeps DEF Opening, Reading

LEMMA CountType ==
  ASSUME Shape, NEW c \in Clients, CountCall(c), calls[c] \in 0 .. MaxCalls
  PROVE  calls' \in [Clients -> 0 .. MaxCalls + 1]
  BY CvbdAssumption DEF CountCall, Shape, ClientTypes

LEMMA ShapeLength ==
  ASSUME Shape, HistoryTypes', NEW c \in Clients, UNCHANGED serverVars,
         GetLengthReturns(c) \/ GetLengthThrows(c) \/ (\E r : Misaligned(c, r))
  PROVE  Shape' /\ Others(c)
<1>1. QueuesTypeOK'
  BY DEF GetLengthReturns, GetLengthThrows, Misaligned, queueVars, Shape, QueuesTypeOK
<1>2. ClientTypes' /\ Others(c) /\ acbs' = acbs
  <2>1. CASE GetLengthReturns(c)
    <3>1. SizeWord(reply_msg_[c]) \in Nat
      <4>1. reply_msg_[c] = Null \/ reply_msg_[c] \in Reply
        BY DEF Shape, ClientTypes
      <4> QED BY <4>1, ClientASyncAssumption, SharedMemAssumption DEF SizeWord, Reply
    <3> QED BY <2>1, <3>1 DEF GetLengthReturns, Goto, Shape, ClientTypes, PC, Others
  <2>2. CASE GetLengthThrows(c) \/ \E r : Misaligned(c, r)
    <3>1. calls' \in [Clients -> 0 .. MaxCalls + 1]
      <4>1. CountCall(c) /\ calls[c] \in 0 .. MaxCalls
        BY <2>2, CvbdAssumption DEF GetLengthThrows, Misaligned, Call, Open
      <4> QED BY <4>1, CountType
    <3> QED BY <2>2, <3>1 DEF GetLengthThrows, Misaligned, clientVars, Shape, ClientTypes, Others
  <2> QED BY <2>1, <2>2
<1>3. /\ ClientShape(c) /\ pc[c] \in {"getsize", "idle"} /\ pc'[c] = "idle"
      /\ request_mq_' = request_mq_ /\ thr' = thr /\ reply_msg_' = reply_msg_
  BY DEF Shape, ClientTypes, GetLengthReturns, GetLengthThrows, Misaligned, Open, Call, Goto, clientVars
<1>4. request_mq_[c] \in Epochs /\ (thr'[c] = "handle" \/ pc'[c] \in Answered => reply_msg_'[c] \in Reply)
  BY <1>3 DEF ClientShape, NotMapped, Dead, Answered
<1> QED BY <1>1, <1>2, <1>3, <1>4, ShapeKeeps DEF Calling

LEMMA ShapeThread ==
  ASSUME Shape, HistoryTypes', NEW c \in Clients, UNCHANGED <<serverVars, driverVars>>,
         ThreadReceives(c) \/ HandleStop(c) \/ HandleSignal(c)
  PROVE  Shape' /\ Others(c)
<1>1. CASE ThreadReceives(c)
  <2>1. reply_mq[c] \in Seq(Reply) /\ reply_mq[c] # << >>
    BY <1>1 DEF ThreadReceives, Shape, QueuesTypeOK
  <2>2. Head(reply_mq[c]) \in Reply /\ Tail(reply_mq[c]) \in Seq(Reply)
    BY <2>1
  <2>3. QueuesTypeOK'
    BY <1>1, <2>2 DEF ThreadReceives, Shape, QueuesTypeOK
  <2>4. ClientTypes' /\ Others(c)
    BY <1>1, <2>2 DEF ThreadReceives, ThreadGoto, driverVars, Shape, ClientTypes, Others
  <2>5. /\ acbs' = acbs /\ pc' = pc /\ request_mq_' = request_mq_ /\ reply_msg_'[c] \in Reply /\ ClientShape(c)
    BY <1>1, <2>2 DEF ThreadReceives, Shape, ClientTypes
  <2> QED BY <2>3, <2>4, <2>5, ShapeKeeps DEF ClientShape
<1>2. CASE HandleStop(c) \/ HandleSignal(c)
  <2>1. QueuesTypeOK'
    BY <1>2 DEF HandleStop, HandleSignal, Handles, queueVars, Shape, QueuesTypeOK
  <2>2. ClientTypes' /\ Others(c)
    BY <1>2 DEF HandleStop, HandleSignal, Handles, Goto, ThreadGoto, ThreadLoops, driverVars, Shape,
       ClientTypes, PC, Opening, Reading, Others
  <2>3. /\ acbs' = acbs /\ request_mq_' = request_mq_ /\ ClientShape(c)
        /\ thr'[c] # "handle" /\ (pc'[c] = pc[c] \/ (pc[c] = "waiting" /\ pc'[c] = "woken"))
    BY <1>2 DEF HandleStop, HandleSignal, Handles, Goto, ThreadGoto, ThreadLoops, Shape, ClientTypes
  <2>4. thr'[c] = "handle" \/ pc'[c] \in Answered => reply_msg_'[c] \in Reply
    BY <1>2, <2>3 DEF HandleStop, HandleSignal, Handles, ClientShape, Answered
  <2> QED BY <2>1, <2>2, <2>3, <2>4, ShapeKeeps DEF ClientShape, Calling, NotMapped, Dead
<1> QED BY <1>1, <1>2

-------------------------------------------------------------------------------
LEMMA ForType == ASSUME NEW m \in Request, NEW a \in Acbs PROVE For(a, m) \in Request
  BY DEF For, Request

LEMMA FsyncRequestType ==
  ASSUME NEW c \in Clients, NEW volume \in Clients \cup {Null} PROVE FsyncRequest(c, volume) \in Request
<1>1. VolumeOf[c] \in Volumes /\ 0 \in 0 .. max_data_size
  BY SharedMemAssumption
<1> QED BY <1>1, NoDataType DEF FsyncRequest, Header, Request, RequestType

LEMMA AcbFields ==
  ASSUME NEW x, Acb(x)
  PROVE  /\ x.type \in AcbType /\ x.offset \in Nat /\ x.size \in 0 .. max_data_size /\ x.size \in Nat
         /\ x.ret \in Int /\ x.bh \in BOOLEAN /\ x.yielded \in BOOLEAN /\ x # Null
         /\ x = [type |-> x.type, offset |-> x.offset, size |-> x.size, buf |-> x.buf,
                 ret |-> x.ret, bh |-> x.bh, yielded |-> x.yielded]
  BY ClientASyncAssumption, SharedMemAssumption DEF Acb, AcbState

\* A CVBDAIOCB is put together from its fields.
LEMMA AcbMake ==
  ASSUME NEW type \in AcbType, NEW offset \in Nat, NEW size \in 0 .. max_data_size,
         NEW buf \in AcbBuffer(size), NEW ret \in Int, NEW bh \in BOOLEAN, NEW yielded \in BOOLEAN,
         type = "REQ_WRITE" => buf \in [0 .. size - 1 -> Val],
         type = "REQ_FSYNC" => size = 0,
         NEW x, x = [type |-> type, offset |-> offset, size |-> size, buf |-> buf,
                     ret |-> ret, bh |-> bh, yielded |-> yielded]
  PROVE  Acb(x) /\ x # Null /\ x \in AcbState
<1>1. buf \in UNION {AcbBuffer(n) : n \in 0 .. max_data_size}
  OBVIOUS
<1>2. x \in AcbState
  BY <1>1 DEF AcbState
<1> QED BY <1>2, ClientASyncAssumption DEF Acb

\* A result is set, and what cvbd_finish_aio does then.
LEMMA RetType ==
  ASSUME NEW x, Acb(x), NEW n \in Int, NEW y, y = [x EXCEPT !.ret = n]
  PROVE  /\ Acb(y) /\ y.ret = n
         /\ y.type = x.type /\ y.offset = x.offset /\ y.size = x.size /\ y.buf = x.buf
         /\ y.bh = x.bh /\ y.yielded = x.yielded
<1>1. /\ y \in AcbState /\ y.ret = n
      /\ y.type = x.type /\ y.offset = x.offset /\ y.size = x.size /\ y.buf = x.buf
      /\ y.bh = x.bh /\ y.yielded = x.yielded
  BY DEF Acb, AcbState
<1> QED BY <1>1 DEF Acb

LEMMA FinishType ==
  ASSUME NEW x, Acb(x), NEW err, NEW y, y = cvbd_finish_aio(x, err)
  PROVE  /\ Acb(y) /\ y # Null /\ y \in AcbState /\ y.bh
         /\ y.type = x.type /\ y.offset = x.offset /\ y.size = x.size /\ y.buf = x.buf
         /\ y.yielded = x.yielded /\ y.ret = IF err = 0 \/ x.ret = x.size THEN 0 ELSE -1
<1>1. PICK n \in Int : n = IF err = 0 \/ x.ret = x.size THEN 0 ELSE -1
  OBVIOUS
<1>2. y = [x EXCEPT !.ret = n, !.bh = TRUE]
  BY <1>1 DEF cvbd_finish_aio
<1>3. /\ y \in AcbState /\ y.ret = n /\ y.bh
      /\ y.type = x.type /\ y.offset = x.offset /\ y.size = x.size /\ y.buf = x.buf
      /\ y.yielded = x.yielded
  BY <1>2 DEF Acb, AcbState
<1> QED BY <1>1, <1>3, ClientASyncAssumption DEF Acb

\* A step of the main thread that sends a message and touches no CVBDAIOCB.
Sends(c, m, p) ==
  /\ Send(c, m, p) /\ pc[c] \in {"open", "idle", "sending"}
  /\ p \in {"before_wait", "getsize", "submitted", "dtor_free"}
  /\ (pc[c] = "sending") = (p = "submitted")
  /\ p \in Calling \/ \A a \in Acbs : acbs[c][a] = Null

LEMMA ShapeSends ==
  ASSUME Shape, HistoryTypes', NEW c \in Clients, UNCHANGED serverVars,
         \/ UNCHANGED driverVars /\ (send_open(c) \/ \E a \in Acbs : send_readv(c, a) \/ send_fsync(c, a))
         \/ cvbd_getlength(c) \/ cvbd_close(c)
  PROVE  /\ Shape' /\ Others(c) /\ pc[c] \notin NotMapped
         /\ \E m \in Request, p \in PC : Send(c, m, p)
<1>1. volume_[c] \in Clients \cup {Null} /\ ClientShape(c) /\ 0 \in Nat /\ 0 \in 0 .. max_data_size
  BY SharedMemAssumption DEF Shape, ClientTypes
<1>2. PICK m \in Request, p \in PC : Sends(c, m, p)
  <2>1. CASE send_open(c)
    <3>1. OpenRequest(c) \in Request
      BY <1>1, RequestTypes, NoDataType
    <3>2. \A a \in Acbs : acbs[c][a] = Null
      BY <1>1, <2>1 DEF send_open, ClientShape, Calling
    <3> QED BY <2>1, <3>1, <3>2 DEF send_open, PC, Opening, Reading, Sends
  <2>2. ASSUME NEW a \in Acbs, send_readv(c, a) PROVE \E m \in Request, p \in PC : Sends(c, m, p)
    <3>1. Acb(acbs[c][a])
      BY <1>1, <2>2 DEF send_readv, Running, ClientShape
    <3>2. PICK m \in Request : m = For(a, ReadRequest(c, volume_[c], acbs[c][a].offset, acbs[c][a].size))
      BY <1>1, <3>1, RequestTypes, NoDataType, AcbFields, ForType
    <3> QED BY <2>2, <3>2 DEF send_readv, PC, Calling, Sends
  <2>3. ASSUME NEW a \in Acbs, send_fsync(c, a) PROVE \E m \in Request, p \in PC : Sends(c, m, p)
    <3>1. PICK m \in Request : m = For(a, FsyncRequest(c, volume_[c]))
      BY <1>1, FsyncRequestType, ForType
    <3> QED BY <2>3, <3>1 DEF send_fsync, PC, Calling, Sends
  <2>4. CASE cvbd_getlength(c)
    <3>1. GetSizeRequest(c, volume_[c]) \in Request
      BY <1>1, RequestTypes, NoDataType
    <3> QED BY <2>4, <3>1 DEF cvbd_getlength, send_getsize, PC, Calling, Sends
  <2>5. CASE cvbd_close(c)
    <3>1. CloseRequest(c, volume_[c]) \in Request
      BY <1>1, RequestTypes, NoDataType
    <3> QED BY <2>5, <3>1 DEF cvbd_close, send_close, PC, Sends
  <2> QED BY <2>1, <2>2, <2>3, <2>4, <2>5
<1>3. pc[c] \notin NotMapped /\ acbs' = acbs /\ length' = length
  BY <1>2 DEF Sends, NotMapped, Dead, send_open, send_readv, send_fsync, cvbd_getlength, send_getsize,
     cvbd_close, send_close, driverVars
<1>4. /\ QueuesTypeOK' /\ request_mq_[c] \in Epochs /\ request_mq_' = request_mq_
      /\ pc' \in [Clients -> PC] /\ pc'[c] = p /\ \A d \in Clients : d # c => pc'[d] = pc[d]
  BY <1>2, <1>3, SendTypes DEF Sends
<1>5. calls' \in [Clients -> 0 .. MaxCalls + 1]
  <2>1. CASE calls' = calls
    BY <2>1 DEF Shape, ClientTypes
  <2>2. CASE CountCall(c) /\ calls[c] = 0
    BY <2>2, CountType, CvbdAssumption
  <2> QED BY <2>1, <2>2 DEF cvbd_getlength, Open, cvbd_close, driverVars
<1>6. thr' = thr /\ volume_' = volume_ /\ reply_msg_' = reply_msg_ /\ freed' = freed
  BY <1>2 DEF Send, Sends
<1>7. ClientTypes' /\ Others(c)
  BY <1>3, <1>4, <1>5, <1>6 DEF Shape, ClientTypes, Others
<1>8. Shape'
  <2>1. /\ (\A a \in Acbs : acbs[c][a] = Null) \/ pc'[c] \in Calling
        /\ pc'[c] \in {"sending", "submitted"} <=> pc[c] \in {"sending", "submitted"}
    BY <1>2, <1>4 DEF Sends
  <2>2. pc'[c] \notin Answered
    BY <1>2, <1>4 DEF Sends, Answered, Calling
  <2> QED BY <1>1, <1>3, <1>4, <1>6, <1>7, <2>1, <2>2, ShapeKeeps DEF ClientShape
<1> QED BY <1>2, <1>3, <1>7, <1>8 DEF Sends

\* The request of a write has the guest's bytes.
LEMMA WriteMessage ==
  ASSUME Shape, NEW c \in Clients, NEW a \in Acbs, send_writev(c, a), NEW x, x = acbs[c][a]
  PROVE  /\ Acb(x) /\ x.type = "REQ_WRITE" /\ ~x.yielded
         /\ For(a, WriteRequest(c, volume_[c], x.offset, x.size, Slice(x.buf, 0, x.size))) \in Request
<1>1. Acb(x) /\ x.type = "REQ_WRITE" /\ ~x.yielded
  BY DEF send_writev, Running, Shape, ClientShape
<1>2. /\ x.offset \in Nat /\ x.size \in 0 .. max_data_size /\ x.size \in Nat
      /\ x.buf \in [0 .. x.size - 1 -> Val]
  BY <1>1, AcbFields DEF Acb
<1>3. Slice(x.buf, 0, x.size) \in Data
  <2>1. 0 \in Nat /\ 0 + x.size <= x.size
    BY <1>2
  <2> QED BY <1>2, <2>1, SliceType
<1>4. volume_[c] \in Clients \cup {Null}
  BY DEF Shape, ClientTypes
<1> QED BY <1>1, <1>2, <1>3, <1>4, RequestTypes, ForType

LEMMA ShapeWrite ==
  ASSUME Shape, HistoryTypes', NEW c \in Clients, UNCHANGED <<serverVars, driverVars>>,
         NEW a \in Acbs, send_writev(c, a)
  PROVE  /\ Shape' /\ Others(c) /\ pc[c] \notin NotMapped
         /\ \E m \in Request, p \in PC : Send(c, m, p)
<1>1. PICK x : x = acbs[c][a]
  OBVIOUS
<1>2. PICK m \in Request : m = For(a, WriteRequest(c, volume_[c], x.offset, x.size, Slice(x.buf, 0, x.size)))
  BY <1>1, WriteMessage
<1>3. PICK y : y = cvbd_finish_aio([x EXCEPT !.ret = x.size], 0)
  OBVIOUS
<1>4. /\ Acb(x) /\ x.type = "REQ_WRITE" /\ ~x.yielded /\ x.size \in Int
  BY <1>1, WriteMessage, AcbFields
<1>5. /\ Acb(y) /\ y # Null /\ y \in AcbState /\ ~y.yielded
  <2>1. PICK z : z = [x EXCEPT !.ret = x.size]
    OBVIOUS
  <2>2. Acb(z) /\ z.yielded = x.yielded
    BY <1>4, <2>1, RetType
  <2>3. PICK err : err = 0 /\ y = cvbd_finish_aio(z, err)
    BY <1>3, <2>1
  <2>4. Acb(y) /\ y # Null /\ y \in AcbState /\ y.yielded = z.yielded
    BY <2>2, <2>3, FinishType
  <2> QED BY <1>4, <2>2, <2>4
<1>6. /\ Send(c, m, "submitted") /\ SetAcb(c, a, y) /\ pc[c] = "sending" /\ Running(c, a)
  BY <1>1, <1>2, <1>3 DEF send_writev
<1>7. "submitted" \in PC /\ pc[c] \notin NotMapped
  BY <1>6 DEF PC, NotMapped, Dead
<1>8. /\ QueuesTypeOK' /\ request_mq_[c] \in Epochs /\ request_mq_' = request_mq_
      /\ pc' \in [Clients -> PC] /\ pc'[c] = "submitted" /\ \A d \in Clients : d # c => pc'[d] = pc[d]
  BY <1>6, <1>7, SendTypes
<1>9. ClientTypes' /\ Others(c) /\ thr' = thr /\ reply_msg_' = reply_msg_
  BY <1>5, <1>6, <1>8 DEF Send, SetAcb, Shape, ClientTypes, Others, driverVars
<1>10. ClientShape(c)
  BY DEF Shape
<1>11. Shape'
  BY <1>5, <1>6, <1>8, <1>9, <1>10, ShapeSets DEF ClientShape, Calling, Answered
<1> QED BY <1>6, <1>7, <1>9, <1>11

LEMMA ShapeSubmit ==
  ASSUME Shape, HistoryTypes', NEW c \in Clients, UNCHANGED serverVars,
         NEW a \in Acbs, NEW x, Acb(x), ~x.yielded, Submit(c, a, x)
  PROVE  Shape' /\ Others(c)
<1>1. x # Null /\ x \in AcbState
  BY AcbFields DEF Acb
<1>2. calls' \in [Clients -> 0 .. MaxCalls + 1]
  <2>1. CountCall(c) /\ calls[c] \in 0 .. MaxCalls
    BY CvbdAssumption DEF Submit, Call
  <2> QED BY <2>1, CountType
<1>3. ClientShape(c) /\ pc[c] = "idle" /\ pc'[c] = "sending" /\ SetAcb(c, a, x)
  BY DEF Submit, Call, Goto, Shape, ClientTypes
<1>4. QueuesTypeOK'
  BY DEF Submit, queueVars, Shape, QueuesTypeOK
<1>5. ClientTypes' /\ Others(c) /\ thr' = thr /\ reply_msg_' = reply_msg_ /\ request_mq_' = request_mq_
  BY <1>1, <1>2 DEF Submit, SetAcb, Goto, Shape, ClientTypes, PC, Others
<1>6. \A b \in Acbs : ~Running(c, b)
  BY <1>3 DEF ClientShape
<1>7. request_mq_[c] \in Epochs
  BY <1>3 DEF ClientShape, NotMapped, Dead
<1> QED BY <1>1, <1>3, <1>4, <1>5, <1>6, <1>7, ShapeSets DEF ClientShape, Calling, Answered

\* The three calls that submit a request, and what it is like.
GuestRead(c, x) == \E r \in GuestReads[c] : x.offset = OffsetOf(r) /\ x.size = SizeOf(r)

NewRequest(c, a, x) ==
  /\ Acb(x) /\ ~x.yielded /\ ~x.bh /\ Submit(c, a, x)
  /\ x.type # "REQ_FSYNC" => x.offset + x.size <= length[c]
  /\ x.type = "REQ_WRITE" => x.offset + x.size <= FileSize
  /\ x.type = "REQ_READ" => GuestRead(c, x)

LEMMA NewAcbType ==
  ASSUME NEW c \in Clients, NEW a \in Acbs,
         \/ \E r \in GuestReads[c] : cvbd_co_readv(c, a, r)
         \/ \E w \in GuestWrites[c] : cvbd_co_writev(c, a, w)
         \/ cvbd_co_flush_to_disk(c, a)
  PROVE  \E x : NewRequest(c, a, x)
<1>0. 0 \in Nat /\ 0 \in 0 .. max_data_size /\ 0 \in Int /\ FALSE \in BOOLEAN
  BY SharedMemAssumption
<1>1. \A n \in Nat : InitialBuffer(n) \in AcbBuffer(n)
  BY DEF InitialBuffer, AcbBuffer
<1>2. ASSUME NEW r \in GuestReads[c] \cup GuestWrites[c] PROVE OffsetOf(r) \in Nat /\ SizeOf(r) \in Nat
  BY CvbdAssumption DEF OffsetOf, SizeOf
<1>3. ASSUME NEW r \in GuestReads[c], cvbd_co_readv(c, a, r)
      PROVE  \E x : NewRequest(c, a, x)
  <2>1. PICK x : x = NewAcb("REQ_READ", OffsetOf(r), SizeOf(r), InitialBuffer(SizeOf(r)))
    OBVIOUS
  <2>2. /\ Submit(c, a, x) /\ SizeOf(r) <= max_data_size /\ OffsetOf(r) + SizeOf(r) <= length[c]
    BY <1>3, <2>1 DEF cvbd_co_readv, cvbd_co_rw, Admitted
  <2>3. PICK o \in Nat, s \in 0 .. max_data_size : o = OffsetOf(r) /\ s = SizeOf(r)
    BY <1>2, <2>2, SharedMemAssumption
  <2>b. PICK b \in AcbBuffer(s) : b = InitialBuffer(SizeOf(r))
    BY <1>1, <1>2, <2>3
  <2>4. PICK t \in AcbType : t = "REQ_READ"
    BY DEF AcbType
  <2>5. x = [type |-> t, offset |-> o, size |-> s, buf |-> b, ret |-> 0, bh |-> FALSE, yielded |-> FALSE]
    BY <2>1, <2>3, <2>b, <2>4 DEF NewAcb
  <2>6. Acb(x)
    BY <1>0, <2>4, <2>5, AcbMake
  <2>7. GuestRead(c, x)
    BY <2>3, <2>5 DEF GuestRead
  <2> QED BY <2>2, <2>3, <2>4, <2>5, <2>6, <2>7 DEF NewRequest
<1>4. ASSUME NEW w \in GuestWrites[c], cvbd_co_writev(c, a, w)
      PROVE  \E x : NewRequest(c, a, x)
  <2>1. PICK x : x = NewAcb("REQ_WRITE", OffsetOf(w), SizeOf(w), w.buffer)
    OBVIOUS
  <2>2. /\ Submit(c, a, x) /\ SizeOf(w) <= max_data_size /\ OffsetOf(w) + SizeOf(w) <= length[c]
        /\ OffsetOf(w) + SizeOf(w) <= FileSize /\ w.buffer \in [0 .. SizeOf(w) - 1 -> Val]
    BY <1>4, <2>1, CvbdAssumption DEF cvbd_co_writev, cvbd_co_rw, Admitted
  <2>3. PICK o \in Nat, s \in 0 .. max_data_size :
          o = OffsetOf(w) /\ s = SizeOf(w)
    BY <1>2, <2>2, SharedMemAssumption
  <2>b. PICK b \in AcbBuffer(s) : b = w.buffer /\ b \in [0 .. s - 1 -> Val]
    BY <2>2, <2>3 DEF AcbBuffer
  <2>4. PICK t \in AcbType : t = "REQ_WRITE"
    BY DEF AcbType
  <2>5. x = [type |-> t, offset |-> o, size |-> s, buf |-> b, ret |-> 0, bh |-> FALSE, yielded |-> FALSE]
    BY <2>1, <2>3, <2>b, <2>4 DEF NewAcb
  <2>6. Acb(x)
    BY <1>0, <2>4, <2>b, <2>5, AcbMake
  <2> QED BY <2>2, <2>3, <2>4, <2>5, <2>6 DEF NewRequest
<1>5. ASSUME cvbd_co_flush_to_disk(c, a)
      PROVE  \E x : NewRequest(c, a, x)
  <2>1. PICK x : x = NewAcb("REQ_FSYNC", 0, 0, InitialBuffer(0))
    OBVIOUS
  <2>3. PICK b \in AcbBuffer(0) : b = InitialBuffer(0)
    BY <1>0, <1>1
  <2>4. PICK t \in AcbType : t = "REQ_FSYNC"
    BY DEF AcbType
  <2>5. x = [type |-> t, offset |-> 0, size |-> 0, buf |-> b, ret |-> 0, bh |-> FALSE, yielded |-> FALSE]
    BY <2>1, <2>3, <2>4 DEF NewAcb
  <2>6. Acb(x)
    BY <1>0, <2>4, <2>5, AcbMake
  <2>7. Submit(c, a, x)
    BY <1>5, <2>1 DEF cvbd_co_flush_to_disk
  <2> QED BY <1>0, <2>4, <2>5, <2>6, <2>7, SharedMemAssumption DEF NewRequest
<1> QED BY <1>3, <1>4, <1>5

LEMMA ShapeYield ==
  ASSUME Shape, HistoryTypes', NEW c \in Clients, UNCHANGED serverVars, NEW a \in Acbs,
         Yield(c, a) \/ cvbd_complete_aio(c, a)
  PROVE  Shape' /\ Others(c)
<1>1. ClientShape(c)
  BY DEF Shape
<1>2. QueuesTypeOK'
  BY DEF Yield, cvbd_complete_aio, queueVars, Shape, QueuesTypeOK
<1>3. CASE Yield(c, a)
  <2>1. PICK x : x = acbs[c][a]
    OBVIOUS
  <2>2. PICK y : y = [x EXCEPT !.yielded = TRUE]
    OBVIOUS
  <2>3. Acb(x)
    BY <1>1, <1>3, <2>1 DEF Yield, Running, ClientShape
  <2>4. Acb(y) /\ y \in AcbState /\ y # Null /\ y.yielded
    <3>1. y \in AcbState
      BY <2>2, <2>3 DEF Acb, AcbState
    <3>2. y.type = x.type /\ y.size = x.size /\ y.buf = x.buf /\ y.yielded
      BY <2>2, <2>3 DEF Acb, AcbState
    <3> QED BY <2>3, <3>1, <3>2, ClientASyncAssumption DEF Acb
  <2>5. SetAcb(c, a, y) /\ pc[c] = "submitted" /\ Running(c, a) /\ pc'[c] = "idle"
    BY <1>3, <2>1, <2>2 DEF Yield, Goto, Shape, ClientTypes
  <2>6. ClientTypes' /\ Others(c) /\ thr' = thr /\ reply_msg_' = reply_msg_ /\ request_mq_' = request_mq_
    <3>1. acbs' \in [Clients -> [Acbs -> AcbState \cup {Null}]] /\ \A d \in Clients : d # c => acbs'[d] = acbs[d]
      BY <2>4, <2>5 DEF SetAcb, Shape, ClientTypes
    <3> QED BY <1>3, <3>1 DEF Yield, Goto, driverVars, Shape, ClientTypes, PC, Others
  <2>7. \A b \in Acbs : b # a => ~Running(c, b)
    BY <1>1, <2>5 DEF ClientShape
  <2>8. request_mq_[c] \in Epochs
    BY <1>1, <2>5 DEF ClientShape, NotMapped, Dead
  <2> QED BY <1>1, <1>2, <2>4, <2>5, <2>6, <2>7, <2>8, ShapeSets DEF ClientShape, Calling, Answered
<1>4. CASE cvbd_complete_aio(c, a)
  <2>1. SetAcb(c, a, Null) /\ pc[c] = "idle" /\ pc' = pc
    BY <1>4 DEF cvbd_complete_aio
  <2>2. ClientTypes' /\ Others(c) /\ thr' = thr /\ reply_msg_' = reply_msg_ /\ request_mq_' = request_mq_
    BY <1>4, <2>1 DEF cvbd_complete_aio, SetAcb, driverVars, Shape, ClientTypes, Others
  <2>3. \A b \in Acbs : ~Running(c, b)
    BY <1>1, <2>1 DEF ClientShape
  <2>4. request_mq_[c] \in Epochs
    BY <1>1, <2>1 DEF ClientShape, NotMapped, Dead
  <2> QED BY <1>1, <1>2, <2>1, <2>2, <2>3, <2>4, ShapeSets DEF ClientShape, Calling
<1> QED BY <1>3, <1>4

\* The CVBDAIOCB the reply thread has completed.
CompletedBy(x, m, y) ==
  /\ m.type = "REQ_READ" =>
       /\ y.ret = 0
       /\ y.buf = [k \in 0 .. x.size - 1 |-> IF k < m.size THEN m.data[k] ELSE x.buf[k]]
  /\ m.type = "REQ_FSYNC" =>
       y.ret = IF m.err = 0 \/ m.err = x.size THEN 0 ELSE -1

LEMMA CompletedType ==
  ASSUME NEW x, Acb(x), NEW m \in Reply, m.type \in {"REQ_READ", "REQ_FSYNC"},
         NEW y, y = Completed(x, m)
  PROVE  /\ Acb(y) /\ y # Null /\ y \in AcbState /\ y.bh
         /\ y.type = x.type /\ y.yielded = x.yielded /\ y.size = x.size
         /\ CompletedBy(x, m, y)
<1> USE DEF CompletedBy
<1>1. m.err \in {0, -1} /\ m.size \in 0 .. max_data_size /\ m.data \in Data
  BY DEF Reply
<1>2. /\ x.type \in AcbType /\ x.offset \in Nat /\ x.size \in 0 .. max_data_size /\ x.size \in Nat
      /\ x.yielded \in BOOLEAN /\ x.bh \in BOOLEAN
      /\ x = [type |-> x.type, offset |-> x.offset, size |-> x.size, buf |-> x.buf,
              ret |-> x.ret, bh |-> x.bh, yielded |-> x.yielded]
  BY AcbFields
<1>3. CASE m.type = "REQ_READ"
  <2>1. PICK b : b = [k \in 0 .. x.size - 1 |-> IF k < m.size THEN m.data[k] ELSE x.buf[k]]
    OBVIOUS
  <2>2. DOMAIN x.buf = 0 .. x.size - 1 /\ \A k \in 0 .. x.size - 1 : x.buf[k] \in Val \cup {Null}
    BY DEF Acb, AcbBuffer
  <2>3. ASSUME NEW k \in 0 .. x.size - 1, k < m.size PROVE m.data[k] \in Val
    <3>1. k \in 0 .. max_data_size - 1
      BY <1>1, <1>2, <2>3, SharedMemAssumption
    <3> QED BY <1>1, <3>1 DEF Data
  <2>4. b \in AcbBuffer(x.size) /\ (x.type = "REQ_WRITE" => b \in [0 .. x.size - 1 -> Val])
    BY <2>1, <2>2, <2>3 DEF AcbBuffer, Acb
  <2>5. PICK z : z = [x EXCEPT !.ret = m.size, !.buf = b]
    OBVIOUS
  <2>51. z = [type |-> x.type, offset |-> x.offset, size |-> x.size, buf |-> b,
              ret |-> m.size, bh |-> x.bh, yielded |-> x.yielded]
    BY <1>2, <2>5
  <2>52. m.size \in Int
    BY <1>1, SharedMemAssumption
  <2>6. /\ z.type = x.type /\ z.size = x.size /\ z.yielded = x.yielded /\ z.buf = b
        /\ z.type \in AcbType /\ z.offset \in Nat /\ z.ret \in Int
        /\ z.bh \in BOOLEAN /\ z.yielded \in BOOLEAN /\ z.size \in 0 .. max_data_size
        /\ z = [type |-> z.type, offset |-> z.offset, size |-> z.size, buf |-> z.buf,
                ret |-> z.ret, bh |-> z.bh, yielded |-> z.yielded]
    BY <1>2, <2>51, <2>52
  <2>7. Acb(z)
    <3>1. /\ z.buf \in AcbBuffer(z.size)
          /\ z.type = "REQ_WRITE" => z.buf \in [0 .. z.size - 1 -> Val]
          /\ z.type = "REQ_FSYNC" => z.size = 0
      BY <2>4, <2>6 DEF Acb
    <3>2. z.buf \in UNION {AcbBuffer(n) : n \in 0 .. max_data_size}
      BY <2>6, <3>1
    <3>3. z \in AcbState
      BY <2>6, <3>2 DEF AcbState
    <3> QED BY <3>1, <3>3 DEF Acb
  <2>8. Filled(x, m) = z
    BY <2>1, <2>2, <2>5 DEF Filled
  <2>9. PICK err : err = 0 /\ y = cvbd_finish_aio(z, err)
    BY <1>3, <2>8 DEF Completed
  <2>10. /\ Acb(y) /\ y # Null /\ y \in AcbState /\ y.bh /\ y.type = z.type /\ y.size = z.size
         /\ y.buf = z.buf /\ y.yielded = z.yielded /\ y.ret = IF err = 0 \/ z.ret = z.size THEN 0 ELSE -1
    BY <2>7, <2>9, FinishType
  <2> QED BY <1>3, <2>1, <2>6, <2>9, <2>10
<1>4. CASE m.type = "REQ_FSYNC"
  <2>1. PICK z : z = [x EXCEPT !.ret = m.err]
    OBVIOUS
  <2>2. /\ Acb(z) /\ z.ret = m.err /\ z.type = x.type /\ z.size = x.size /\ z.yielded = x.yielded
    BY <1>1, <2>1, RetType
  <2>3. y = cvbd_finish_aio(z, m.err)
    BY <1>4, <2>1 DEF Completed
  <2>4. /\ Acb(y) /\ y # Null /\ y \in AcbState /\ y.bh /\ y.type = z.type /\ y.size = z.size
        /\ y.yielded = z.yielded /\ y.ret = IF m.err = 0 \/ z.ret = z.size THEN 0 ELSE -1
    BY <2>2, <2>3, FinishType
  <2> QED BY <1>4, <2>2, <2>4
<1> QED BY <1>3, <1>4

LEMMA ShapeCompletion ==
  ASSUME Shape, HistoryTypes', NEW c \in Clients, UNCHANGED <<serverVars, driverVars>>, HandleCompletion(c)
  PROVE  Shape' /\ Others(c)
<1>1. ClientShape(c) /\ ThreadRuns(c) /\ thr[c] = "handle" /\ reply_msg_[c] \in Reply
  BY DEF Shape, ClientShape, HandleCompletion, Handling
<1>2. calls' \in [Clients -> 0 .. MaxCalls + 1] /\ length' = length
  BY DEF driverVars, Shape, ClientTypes
<1>3. CASE ~(reply_msg_[c].type \in {"REQ_READ", "REQ_FSYNC"} /\ AcbAllocated(c))
  <2>1. \E how \in Dead : Perish(c, how)
    BY <1>3 DEF HandleCompletion, Dead
  <2> QED BY <1>2, <2>1, ShapePerish
<1>4. CASE reply_msg_[c].type \in {"REQ_READ", "REQ_FSYNC"} /\ AcbAllocated(c)
  <2>1. PICK m \in Reply : m = reply_msg_[c] /\ m.type \in {"REQ_READ", "REQ_FSYNC"}
    BY <1>1, <1>4
  <2>2. PICK a \in Acbs : a = m.acb
    BY <1>4, <2>1 DEF AcbAllocated, AcbOf, Reply
  <2>3. PICK x : x = acbs[c][a] /\ Acb(x)
    BY <1>1, <1>4, <2>1, <2>2 DEF AcbAllocated, AcbOf, ClientShape
  <2>4. PICK y : y = Completed(x, m)
    OBVIOUS
  <2>5. Acb(y) /\ y # Null /\ y \in AcbState /\ y.yielded = x.yielded
    BY <2>1, <2>3, <2>4, CompletedType
  <2>6. /\ SetAcb(c, a, y) /\ ThreadLoops(c)
        /\ UNCHANGED <<queueVars, pc, request_mq_, volume_, reply_msg_, freed>>
    BY <1>4, <2>1, <2>2, <2>3, <2>4 DEF HandleCompletion, AcbOf
  <2>7. QueuesTypeOK'
    BY <2>6 DEF queueVars, Shape, QueuesTypeOK
  <2>8. acbs' \in [Clients -> [Acbs -> AcbState \cup {Null}]] /\ \A d \in Clients : d # c => acbs'[d] = acbs[d]
    BY <2>5, <2>6 DEF SetAcb, Shape, ClientTypes
  <2>9. ClientTypes' /\ Others(c) /\ thr'[c] # "handle"
    BY <1>2, <2>6, <2>8 DEF ThreadLoops, ThreadGoto, Shape, ClientTypes, Others
  <2>10. x # Null
    BY <2>3, AcbFields
  <2>11. pc[c] \in Calling /\ (pc'[c] \notin NotMapped => request_mq_'[c] \in Epochs)
    BY <1>1, <2>3, <2>6, <2>10 DEF ClientShape
  <2>14. pc'[c] \notin Answered
    BY <2>6, <2>11 DEF Answered, Calling
  <2>12. CASE x.yielded
    <3>1. pc'[c] \in {"sending", "submitted"} <=> \E b \in Acbs : b # a /\ Running(c, b)
      BY <1>1, <2>3, <2>6, <2>12 DEF ClientShape, Running
    <3> QED BY <2>5, <2>6, <2>7, <2>9, <2>11, <2>12, <2>14, <3>1, ShapeSets
  <2>13. CASE ~x.yielded
    <3>1. Running(c, a)
      BY <2>3, <2>10, <2>13 DEF Running
    <3>2. pc'[c] \in {"sending", "submitted"} /\ \A b \in Acbs : Running(c, b) => b = a
      BY <1>1, <2>6, <3>1 DEF ClientShape
    <3> QED BY <2>5, <2>6, <2>7, <2>9, <2>11, <2>13, <2>14, <3>2, ShapeSets
  <2> QED BY <2>12, <2>13
<1> QED BY <1>3, <1>4

LEMMA ShapeThrows ==
  ASSUME Shape, HistoryTypes', NEW c \in Clients, UNCHANGED <<serverVars, driverVars>>, SendThrows(c)
  PROVE  Shape' /\ Others(c)
<1>1. calls' \in [Clients -> 0 .. MaxCalls + 1] /\ length' = length /\ ClientShape(c)
  BY DEF driverVars, Shape, ClientTypes
<1>2. CASE Perish(c, "aborted")
  <2>1. "aborted" \in Dead
    BY DEF Dead
  <2> QED BY <1>1, <1>2, <2>1, ShapePerish
<1>3. CASE ~Perish(c, "aborted")
  <2>1. /\ UNCHANGED <<queueVars, thr, request_mq_, volume_, reply_msg_, freed, acbs>>
        /\ \/ pc[c] = "open" /\ (Goto(c, "failed") \/ Goto(c, "idle"))
           \/ pc[c] = "sending" /\ Goto(c, "submitted")
           \/ pc[c] = "idle" /\ (\A a \in Acbs : acbs[c][a] = Null) /\ Goto(c, "dtor_free")
    BY <1>3 DEF SendThrows
  <2>2. QueuesTypeOK'
    BY <2>1 DEF queueVars, Shape, QueuesTypeOK
  <2>3. ClientTypes' /\ Others(c)
    BY <1>1, <2>1 DEF Goto, Shape, ClientTypes, Others, PC, Gone
  <2>4. \/ pc[c] = "open" /\ pc'[c] \in {"failed", "idle"}
        \/ pc[c] = "sending" /\ pc'[c] = "submitted"
        \/ pc[c] = "idle" /\ (\A a \in Acbs : acbs[c][a] = Null) /\ pc'[c] = "dtor_free"
    BY <2>1 DEF Goto, Shape, ClientTypes
  <2>5. (\A a \in Acbs : acbs[c][a] = Null) \/ pc'[c] \in Calling
    BY <1>1, <2>4 DEF ClientShape, Calling
  <2>6. /\ request_mq_'[c] \in Epochs
        /\ pc'[c] \in {"sending", "submitted"} <=> pc[c] \in {"sending", "submitted"}
    BY <1>1, <2>1, <2>4 DEF ClientShape, NotMapped, Dead
  <2>7. thr'[c] = "handle" \/ pc'[c] \in Answered => reply_msg_'[c] \in Reply
    BY <1>1, <2>1, <2>4 DEF ClientShape, Answered
  <2> QED BY <2>1, <2>2, <2>3, <2>5, <2>6, <2>7, ShapeKeeps
<1> QED BY <1>2, <1>3

\* Every step of a client.
LEMMA ClientHistoryTypes ==
  ASSUME Shape, NEW c \in Clients, ClientStep(c)
  PROVE  HistoryTypes'
<1>1. HistoryTypes
  BY DEF Shape
<1>2. CASE UNCHANGED history
  BY <1>1, <1>2 DEF HistoryTypes, history
<1>3. CASE NoteFreed
  BY <1>1, <1>3, FreedTypes
<1>4. ASSUME NEW a \in Acbs, NoteRead(c, a) \/ NoteFlush(c, a) PROVE HistoryTypes'
  BY <1>1, <1>4, ReadTypes
<1>5. ASSUME NEW a \in Acbs, send_writev(c, a), NoteWrite(c, a) PROVE HistoryTypes'
  <2>1. Acb(acbs[c][a]) /\ acbs[c][a].type = "REQ_WRITE"
    BY <1>5, WriteMessage
  <2> QED BY <1>1, <1>5, <2>1, WriteTypes
<1> QED BY <1>2, <1>3, <1>4, <1>5 DEF ClientStep, Progress, BottomHalf, ReplyThread, Environment, history

\* The ways a QEMU process ends without its destructor.
Perishes(c) ==
  /\ \E how \in Dead : Perish(c, how)
  /\ UNCHANGED length
  /\ calls' = calls \/ (CountCall(c) /\ calls[c] \in 0 .. MaxCalls)

LEMMA ShapePerishes ==
  ASSUME Shape, HistoryTypes', NEW c \in Clients, UNCHANGED serverVars, Perishes(c)
  PROVE  Shape' /\ Others(c)
<1>1. calls' \in [Clients -> 0 .. MaxCalls + 1]
  BY CountType DEF Perishes, Shape, ClientTypes
<1> QED BY <1>1, ShapePerish DEF Perishes

\* Which step it was, with the guards of the calls taken out of the way.
LEMMA ClientCases ==
  ASSUME NEW c \in Clients, ClientStep(c)
  PROVE  \/ UNCHANGED driverVars /\ (CtorRemove(c) \/ CtorOpen(c) \/ CtorCreate(c))
         \/ UNCHANGED driverVars /\ (BeginWait(c) \/ SpuriousWakeup(c) \/ OpenReturns(c))
         \/ UNCHANGED driverVars /\ (DtorFree(c) \/ DtorStop(c) \/ DtorDelete(c))
         \/ UNCHANGED driverVars /\ (send_open(c) \/ \E a \in Acbs : send_readv(c, a) \/ send_fsync(c, a))
         \/ cvbd_getlength(c) \/ cvbd_close(c)
         \/ \E a \in Acbs : send_writev(c, a) /\ UNCHANGED driverVars
         \/ \E a \in Acbs : Yield(c, a) \/ cvbd_complete_aio(c, a)
         \/ UNCHANGED driverVars /\ (ThreadReceives(c) \/ HandleStop(c) \/ HandleSignal(c))
         \/ UNCHANGED driverVars /\ (HandleCompletion(c) \/ SendThrows(c))
         \/ GetLengthReturns(c) \/ GetLengthThrows(c) \/ \E r : Misaligned(c, r)
         \/ \E a \in Acbs : \E x : NewRequest(c, a, x)
         \/ Perishes(c)
<1>1. CASE Progress(c)
  <2>1. CASE OpenAssertFails(c) /\ UNCHANGED driverVars
    BY <2>1 DEF OpenAssertFails, Perishes, Dead, driverVars
  <2> QED BY <1>1, <2>1 DEF Progress
<1>2. CASE BottomHalf(c) \/ ReplyThread(c)
  BY <1>2 DEF BottomHalf, ReplyThread, handle_co_reply
<1>3. CASE Environment(c)
  <2>1. CASE \E r : TooLarge(c, r)
    BY <2>1, CvbdAssumption DEF TooLarge, Perishes, Dead, Call
  <2>2. CASE QemuKilled(c) \/ (DtorCrashes(c) /\ UNCHANGED driverVars)
    BY <2>2 DEF QemuKilled, DtorCrashes, Perishes, Dead, driverVars
  <2>3. CASE cvbd_open(c)
    BY <2>3 DEF cvbd_open
  <2>4. ASSUME NEW a \in Acbs,
               \/ \E r \in GuestReads[c] : cvbd_co_readv(c, a, r)
               \/ \E w \in GuestWrites[c] : cvbd_co_writev(c, a, w)
               \/ cvbd_co_flush_to_disk(c, a)
        PROVE  \E x : NewRequest(c, a, x)
    BY <2>4, NewAcbType
  <2> QED BY <1>3, <2>1, <2>2, <2>3, <2>4 DEF Environment
<1> QED BY <1>1, <1>2, <1>3 DEF ClientStep

LEMMA ShapeClient ==
  ASSUME Shape, NEW c \in Clients, ClientStep(c)
  PROVE  Shape' /\ Others(c)
<1>1. HistoryTypes' /\ UNCHANGED serverVars
  BY ClientHistoryTypes DEF ClientStep
<1>2. CASE UNCHANGED driverVars /\ (CtorRemove(c) \/ CtorOpen(c) \/ CtorCreate(c))
  BY <1>1, <1>2, ShapeConstructor
<1>3. CASE UNCHANGED driverVars /\ (BeginWait(c) \/ SpuriousWakeup(c) \/ OpenReturns(c)
                                    \/ DtorFree(c) \/ DtorStop(c) \/ DtorDelete(c))
  BY <1>1, <1>3, ShapeWaits
<1>4. CASE \/ UNCHANGED driverVars /\ (send_open(c) \/ \E a \in Acbs : send_readv(c, a) \/ send_fsync(c, a))
           \/ cvbd_getlength(c) \/ cvbd_close(c)
  BY <1>1, <1>4, ShapeSends
<1>5. CASE \E a \in Acbs : send_writev(c, a) /\ UNCHANGED driverVars
  BY <1>1, <1>5, ShapeWrite
<1>6. CASE \E a \in Acbs : Yield(c, a) \/ cvbd_complete_aio(c, a)
  BY <1>1, <1>6, ShapeYield
<1>7. CASE UNCHANGED driverVars /\ (ThreadReceives(c) \/ HandleStop(c) \/ HandleSignal(c))
  BY <1>1, <1>7, ShapeThread
<1>8. CASE UNCHANGED driverVars /\ HandleCompletion(c)
  BY <1>1, <1>8, ShapeCompletion
<1>9. CASE UNCHANGED driverVars /\ SendThrows(c)
  BY <1>1, <1>9, ShapeThrows
<1>10. CASE GetLengthReturns(c) \/ GetLengthThrows(c) \/ \E r : Misaligned(c, r)
  BY <1>1, <1>10, ShapeLength
<1>11. CASE \E a \in Acbs : \E x : NewRequest(c, a, x)
  BY <1>1, <1>11, ShapeSubmit DEF NewRequest
<1>12. CASE Perishes(c)
  BY <1>1, <1>12, ShapePerishes
<1> QED BY <1>2, <1>3, <1>4, <1>5, <1>6, <1>7, <1>8, <1>9, <1>10, <1>11, <1>12, ClientCases

LEMMA ShapeServer == ASSUME Shape, ServerStep PROVE Shape'
<1>1. QueuesTypeOK' /\ ServerTypeOK'
  BY TypeServerNext DEF Shape, ServerStep
<1>2. HistoryTypes'
  BY <1>1, ServerHistoryTypes DEF Shape, ServerStep
<1>3. ClientTypes' /\ \A c \in Clients : ClientShape(c)'
  BY DEF ServerStep, clientVars, driverVars, Shape, ClientTypes, ClientShape, Running
<1> QED BY <1>1, <1>2, <1>3 DEF Shape

LEMMA ShapeNext == ASSUME Shape, [Next]_vars PROVE Shape'
<1>1. CASE Next
  BY <1>1, ShapeClient, ShapeServer DEF Next
<1>2. CASE UNCHANGED vars
  BY <1>2 DEF vars, queueVars, serverVars, clientVars, driverVars, history, Shape, QueuesTypeOK,
     ServerTypeOK, ClientTypes, HistoryTypes, ClientShape, Running
<1> QED BY <1>1, <1>2

LEMMA ShapeHolds == Spec => []Shape
  BY ShapeInit, ShapeNext, PTL DEF Spec

-------------------------------------------------------------------------------
(***************************************************************************)
(* What a step of a client does to its CVBDAIOCBs.                         *)
(***************************************************************************)
Perished(c) ==
  /\ pc'[c] \in Dead /\ thr'[c] = "none" /\ volume_'[c] = Null /\ reply_msg_'[c] = Null
  /\ \A b \in Acbs : acbs'[c][b] = Null
  /\ UNCHANGED <<queueVars, request_mq_, length>>

WritesAcb(c, a, x, y, m) ==
  /\ pc[c] = "sending" /\ pc'[c] = "submitted" /\ Send(c, m, "submitted")
  /\ x = acbs[c][a] /\ Acb(x) /\ x.type = "REQ_WRITE" /\ ~x.yielded
  /\ m \in Request /\ m.type = "REQ_WRITE" /\ m.from = c /\ m.name = VolumeOf[c] /\ m.volume = volume_[c]
  /\ m.offset = x.offset /\ m.size = x.size /\ \A k \in 0 .. x.size - 1 : m.data[k] = x.buf[k]
  /\ SetAcb(c, a, y) /\ Acb(y) /\ y.bh /\ y.type = "REQ_WRITE" /\ ~y.yielded

CompletesAcb(c, a, x, y, m) ==
  /\ ThreadRuns(c) /\ thr[c] = "handle" /\ thr'[c] # "handle"
  /\ m = reply_msg_[c] /\ m \in Reply /\ m.type \in {"REQ_READ", "REQ_FSYNC"} /\ m.acb = a
  /\ x = acbs[c][a] /\ x # Null /\ Acb(x)
  /\ SetAcb(c, a, y) /\ Acb(y) /\ y.bh /\ y.type = x.type /\ y.yielded = x.yielded /\ y.size = x.size
  /\ CompletedBy(x, m, y)
  /\ UNCHANGED <<queueVars, pc, request_mq_, volume_, reply_msg_, freed, driverVars>>

YieldsAcb(c, a, x, y) ==
  /\ pc[c] = "submitted" /\ pc'[c] = "idle"
  /\ x = acbs[c][a] /\ x # Null /\ Acb(x)
  /\ SetAcb(c, a, y) /\ Acb(y) /\ y.bh = x.bh /\ y.type = x.type /\ y.ret = x.ret /\ y.size = x.size
  /\ y.buf = x.buf /\ y.offset = x.offset /\ y.yielded
  /\ UNCHANGED <<queueVars, thr, request_mq_, volume_, reply_msg_, freed, driverVars>>

LEMMA PerishStep ==
  ASSUME Shape, NEW c \in Clients, NEW how \in Dead, Perish(c, how), UNCHANGED length
  PROVE  Perished(c)
BY DEF Shape, ClientTypes, Perish, Goto, ThreadGoto, Perished

LEMMA WriteStep ==
  ASSUME Shape, NEW c \in Clients, NEW a \in Acbs, send_writev(c, a)
  PROVE  \E x, y, m : WritesAcb(c, a, x, y, m)
<1>1. PICK x : x = acbs[c][a]
  OBVIOUS
<1>2. PICK m \in Request : m = For(a, WriteRequest(c, volume_[c], x.offset, x.size, Slice(x.buf, 0, x.size)))
  BY <1>1, WriteMessage
<1>3. Acb(x) /\ x.type = "REQ_WRITE" /\ ~x.yielded /\ x.size \in Int /\ x.size \in 0 .. max_data_size
  BY <1>1, WriteMessage, AcbFields
<1>4. PICK z : z = [x EXCEPT !.ret = x.size]
  OBVIOUS
<1>5. Acb(z) /\ z.yielded = x.yielded /\ z.type = x.type
  BY <1>3, <1>4, RetType
<1>6. PICK y, err : err = 0 /\ y = cvbd_finish_aio(z, err)
  OBVIOUS
<1>7. Acb(y) /\ y.yielded = z.yielded /\ y.type = z.type /\ y.bh
  BY <1>5, <1>6, FinishType
<1>8. Send(c, m, "submitted") /\ SetAcb(c, a, y) /\ pc[c] = "sending"
  BY <1>1, <1>2, <1>4, <1>6 DEF send_writev
<1>9. pc'[c] = "submitted"
  BY <1>8 DEF Send, Goto, Shape, ClientTypes
<1>10. PICK s : s = Slice(x.buf, 0, x.size)
  OBVIOUS
<1>11. /\ m.type = "REQ_WRITE" /\ m.from = c /\ m.name = VolumeOf[c] /\ m.volume = volume_[c]
       /\ m.offset = x.offset /\ m.size = x.size /\ m.data = s
  BY <1>2, <1>10 DEF For, WriteRequest, Header
<1>12. ASSUME NEW k \in 0 .. x.size - 1 PROVE s[k] = x.buf[k]
  <2>1. k \in 0 .. max_data_size - 1 /\ k < x.size /\ 0 + k = k
    BY <1>3, SharedMemAssumption
  <2> QED BY <1>10, <2>1 DEF Slice
<1> QED BY <1>1, <1>2, <1>3, <1>5, <1>7, <1>8, <1>9, <1>11, <1>12 DEF WritesAcb

LEMMA CompletionStep ==
  ASSUME Shape, NEW c \in Clients, HandleCompletion(c), UNCHANGED driverVars
  PROVE  \/ \E a \in Acbs : \E x, y, m : CompletesAcb(c, a, x, y, m)
         \/ /\ Perished(c) /\ reply_msg_[c].type \in {"REQ_READ", "REQ_FSYNC"}
            /\ ThreadRuns(c) /\ thr[c] = "handle" /\ ~AcbAllocated(c)
<1>1. ClientShape(c) /\ ThreadRuns(c) /\ thr[c] = "handle" /\ reply_msg_[c] \in Reply /\ length' = length
  BY DEF Shape, ClientShape, HandleCompletion, Handling, driverVars
<1>2. reply_msg_[c].type \in {"REQ_READ", "REQ_FSYNC"}
  BY <1>1 DEF HandleCompletion, Handling, Reply, RequestType
<1>3. CASE ~AcbAllocated(c)
  <2>1. \E how \in Dead : Perish(c, how)
    BY <1>3 DEF HandleCompletion, Dead
  <2> QED BY <1>1, <1>2, <1>3, <2>1, PerishStep
<1>4. CASE AcbAllocated(c)
  <2>1. PICK m \in Reply : m = reply_msg_[c] /\ m.type \in {"REQ_READ", "REQ_FSYNC"}
    BY <1>1, <1>2
  <2>2. PICK a \in Acbs : a = m.acb
    BY <1>4, <2>1 DEF AcbAllocated, AcbOf, Reply
  <2>3. PICK x : x = acbs[c][a] /\ Acb(x)
    BY <1>1, <1>4, <2>1, <2>2 DEF AcbAllocated, AcbOf, ClientShape
  <2>4. PICK y : y = Completed(x, m)
    OBVIOUS
  <2>5. Acb(y) /\ y.bh /\ y.type = x.type /\ y.yielded = x.yielded /\ y.size = x.size /\ CompletedBy(x, m, y)
    BY <2>1, <2>3, <2>4, CompletedType
  <2>6. /\ SetAcb(c, a, y) /\ ThreadLoops(c)
        /\ UNCHANGED <<queueVars, pc, request_mq_, volume_, reply_msg_, freed>>
    BY <1>2, <1>4, <2>1, <2>2, <2>3, <2>4 DEF HandleCompletion, AcbOf
  <2>7. thr'[c] # "handle"
    BY <2>6 DEF ThreadLoops, ThreadGoto, Shape, ClientTypes
  <2>8. x # Null
    BY <2>3, AcbFields
  <2>9. CompletesAcb(c, a, x, y, m)
    BY <1>1, <2>1, <2>2, <2>3, <2>5, <2>6, <2>7, <2>8 DEF CompletesAcb
  <2> QED BY <2>9
<1> QED BY <1>3, <1>4

LEMMA YieldStep ==
  ASSUME Shape, NEW c \in Clients, NEW a \in Acbs, Yield(c, a)
  PROVE  \E x, y : YieldsAcb(c, a, x, y)
<1>1. PICK x : x = acbs[c][a]
  OBVIOUS
<1>2. PICK y : y = [x EXCEPT !.yielded = TRUE]
  OBVIOUS
<1>3. Acb(x) /\ x # Null /\ pc[c] = "submitted"
  BY <1>1 DEF Yield, Running, Shape, ClientShape
<1>4. /\ y \in AcbState /\ y.type = x.type /\ y.size = x.size /\ y.buf = x.buf /\ y.yielded
      /\ y.bh = x.bh /\ y.ret = x.ret /\ y.offset = x.offset
  BY <1>2, <1>3 DEF Acb, AcbState
<1>5. Acb(y)
  BY <1>3, <1>4 DEF Acb
<1>6. SetAcb(c, a, y) /\ pc'[c] = "idle"
  BY <1>1, <1>2 DEF Yield, Goto, Shape, ClientTypes
<1> QED BY <1>1, <1>3, <1>4, <1>5, <1>6 DEF YieldsAcb, Yield

LEMMA AcbSteps ==
  ASSUME Shape, NEW c \in Clients, ClientStep(c)
  PROVE  \/ acbs' = acbs
         \/ Perished(c)
         \/ \E a \in Acbs : \E x, y, m : WritesAcb(c, a, x, y, m)
         \/ \E a \in Acbs : \E x, y, m : CompletesAcb(c, a, x, y, m)
         \/ \E a \in Acbs : \E x, y : YieldsAcb(c, a, x, y)
         \/ \E a \in Acbs : cvbd_complete_aio(c, a)
         \/ \E a \in Acbs : \E x : NewRequest(c, a, x)
<1>1. CASE UNCHANGED driverVars /\ HandleCompletion(c)
  BY <1>1, CompletionStep
<1>2. CASE UNCHANGED driverVars /\ SendThrows(c)
  <2>1. CASE Perish(c, "aborted")
    BY <1>2, <2>1, PerishStep DEF driverVars, Dead
  <2> QED BY <1>2, <2>1 DEF SendThrows
<1>3. CASE Perishes(c)
  BY <1>3, PerishStep DEF Perishes
<1>4. CASE \E a \in Acbs : send_writev(c, a) /\ UNCHANGED driverVars
  BY <1>4, WriteStep
<1>5. CASE \E a \in Acbs : Yield(c, a) \/ cvbd_complete_aio(c, a)
  BY <1>5, YieldStep
<1>6. CASE UNCHANGED driverVars /\ (CtorRemove(c) \/ CtorOpen(c) \/ CtorCreate(c))
  BY <1>6 DEF CtorRemove, CtorOpen, CtorCreate
<1>7. CASE UNCHANGED driverVars /\ (BeginWait(c) \/ SpuriousWakeup(c) \/ OpenReturns(c)
                                    \/ DtorFree(c) \/ DtorStop(c) \/ DtorDelete(c))
  BY <1>7 DEF BeginWait, SpuriousWakeup, OpenReturns, DtorFree, DtorStop, DtorDelete
<1>8. CASE \/ UNCHANGED driverVars /\ (send_open(c) \/ \E a \in Acbs : send_readv(c, a) \/ send_fsync(c, a))
           \/ cvbd_getlength(c) \/ cvbd_close(c)
  BY <1>8 DEF send_open, send_readv, send_fsync, cvbd_getlength, send_getsize, cvbd_close, send_close
<1>9. CASE UNCHANGED driverVars /\ (ThreadReceives(c) \/ HandleStop(c) \/ HandleSignal(c))
  BY <1>9 DEF ThreadReceives, HandleStop, HandleSignal
<1>10. CASE GetLengthReturns(c) \/ GetLengthThrows(c) \/ \E r : Misaligned(c, r)
  BY <1>10 DEF GetLengthReturns, GetLengthThrows, Misaligned, clientVars
<1> QED BY <1>1, <1>2, <1>3, <1>4, <1>5, <1>6, <1>7, <1>8, <1>9, <1>10, ClientCases

-------------------------------------------------------------------------------
(***************************************************************************)
(* A coroutine is resumed only after it has yielded: cvbd_complete_aio     *)
(* runs only in the event loop, where no coroutine is between its start    *)
(* and its yield, whichever thread has scheduled the bottom half.          *)
(***************************************************************************)
THEOREM ResumedAfterYield == Spec => EnteredAfterYield
<1> DEFINE Step == \A c \in Clients, a \in Acbs :
                     acbs[c][a] # Null /\ acbs'[c][a] = Null =>
                       (acbs[c][a].yielded /\ pc[c] = "idle") \/ pc'[c] \in Dead
<1>1. ASSUME Shape, [Next]_vars PROVE Step
  <2> SUFFICES ASSUME NEW d \in Clients, NEW b \in Acbs, acbs[d][b] # Null, acbs'[d][b] = Null
               PROVE  (acbs[d][b].yielded /\ pc[d] = "idle") \/ pc'[d] \in Dead
    OBVIOUS
  <2>1. acbs' # acbs
    OBVIOUS
  <2>2. PICK c \in Clients : ClientStep(c)
    BY <1>1, <2>1 DEF Next, ServerStep, clientVars, vars
  <2>3. d = c
    BY <1>1, <2>2, ShapeClient DEF Others
  <2>4. ClientShape(c) /\ acbs \in [Clients -> [Acbs -> AcbState \cup {Null}]]
    BY <1>1 DEF Shape, ClientTypes
  <2>5. ASSUME NEW a \in Acbs, NEW y, SetAcb(c, a, y), y # Null PROVE FALSE
    BY <2>3, <2>4, <2>5 DEF SetAcb
  <2>6. CASE \E a \in Acbs : cvbd_complete_aio(c, a)
    <3>1. pc[c] = "idle"
      BY <2>6 DEF cvbd_complete_aio
    <3>2. \A e \in Acbs : ~Running(c, e)
      BY <2>4, <3>1 DEF ClientShape
    <3> QED BY <2>3, <3>1, <3>2 DEF Running
  <2>7. CASE Perished(c)
    BY <2>3, <2>7 DEF Perished
  <2>8. ASSUME NEW y, Acb(y) PROVE y # Null
    BY <2>8, AcbFields
  <2> QED BY <1>1, <2>1, <2>2, <2>5, <2>6, <2>7, <2>8, AcbSteps
          DEF WritesAcb, CompletesAcb, YieldsAcb, NewRequest, Submit
<1> QED BY <1>1, ShapeHolds, PTL DEF Spec, EnteredAfterYield

-------------------------------------------------------------------------------
(***************************************************************************)
(* The steps of a client, sorted by what they do to the queues and to the  *)
(* CVBDAIOCBs, with the effect on the history variables.                   *)
(***************************************************************************)
NotOpened == {"none", "ctor_open", "ctor_create", "open"}

\* What is due to a request that is still there does not change.
Kept ==
  /\ view' = view /\ writes' = writes
  /\ \A d \in Clients, b \in Acbs : acbs'[d][b] # Null => due'[d][b] = due[d][b]

Posts(c, m) ==
  /\ m \in Request /\ m.from = c /\ m.name = VolumeOf[c]
  /\ request_mq_[c] \in Epochs /\ HasRoom(request_mq[request_mq_[c]])
  /\ request_mq' = [request_mq EXCEPT ![request_mq_[c]] = Append(@, m)]
  /\ UNCHANGED <<request_name, reply_mq, reply_name, thr, request_mq_, volume_, reply_msg_, length>>

PostsCall(c, m) ==
  /\ Posts(c, m) /\ Kept /\ acbs' = acbs
  /\ \/ m.type = "REQ_OPEN" /\ m.volume = Null /\ pc[c] = "open" /\ pc'[c] = "before_wait" /\ calls' = calls
     \/ /\ m.type = "REQ_GETSIZE" /\ m.volume = volume_[c] /\ pc[c] = "idle" /\ pc'[c] = "getsize"
        /\ calls[c] = 0 /\ calls'[c] = 1
     \/ /\ m.type = "REQ_CLOSE" /\ m.volume = volume_[c] /\ pc[c] = "idle" /\ pc'[c] = "dtor_free"
        /\ calls' = calls /\ \A b \in Acbs : acbs[c][b] = Null

PostsRequest(c, a, x, m) ==
  /\ Posts(c, m) /\ acbs' = acbs /\ pc[c] = "sending" /\ pc'[c] = "submitted" /\ calls' = calls
  /\ x = acbs[c][a] /\ Acb(x) /\ Running(c, a) /\ x.type = m.type /\ m.acb = a /\ m.volume = volume_[c]
  /\ \/ m.type = "REQ_READ" /\ m.offset = x.offset /\ m.size = x.size /\ NoteRead(c, a)
     \/ m.type = "REQ_FSYNC" /\ NoteFlush(c, a)

PostsWrite(c, a, x, y, m) ==
  Posts(c, m) /\ WritesAcb(c, a, x, y, m) /\ NoteWrite(c, a) /\ calls' = calls

Receives(c, m) ==
  /\ ThreadRuns(c) /\ thr[c] = "receive" /\ thr'[c] = "handle" /\ Kept /\ acbs' = acbs /\ pc' = pc
  /\ reply_mq[c] # << >> /\ m = Head(reply_mq[c]) /\ m \in Reply /\ reply_msg_'[c] = m
  /\ reply_mq' = [reply_mq EXCEPT ![c] = Tail(@)]
  /\ UNCHANGED <<request_mq, request_name, reply_name, request_mq_, volume_, driverVars>>

PostsStop(c) ==
  /\ pc[c] = "dtor_stop" /\ pc'[c] = "dtor_delete" /\ Kept /\ acbs' = acbs
  /\ reply_mq' = reply_mq \/ reply_mq' = [reply_mq EXCEPT ![c] = Append(@, StopMessage)]
  /\ UNCHANGED <<request_mq, request_name, reply_name, thr, request_mq_, volume_, reply_msg_, driverVars>>

Moves(c) ==
  /\ pc[c] \notin Dead /\ Kept
  /\ UNCHANGED <<request_mq, request_name, reply_mq, reply_msg_, acbs>>
  /\ thr'[c] = "handle" => thr[c] = "handle"
  /\ thr[c] = "handle" => \/ thr'[c] = "handle" \/ pc[c] = "ctor_create"
                          \/ reply_msg_[c].type \in {"STOP", "REQ_OPEN", "REQ_GETSIZE"}
  /\ \/ pc'[c] = pc[c]
     \/ pc[c] = "none" /\ pc'[c] = "ctor_open"
     \/ pc[c] = "ctor_open" /\ pc'[c] \in {"ctor_create", "failed"}
     \/ pc[c] = "ctor_create" /\ pc'[c] \in {"open", "failed"}
     \/ SendMayFail /\ pc[c] = "open" /\ pc'[c] \in {"failed", "idle"}
     \/ pc[c] = "before_wait" /\ pc'[c] = "waiting"
     \/ /\ pc[c] = "waiting" /\ pc'[c] = "woken"
        /\ SpuriousWakeups \/ (thr[c] = "handle" /\ reply_msg_[c].type \in {"REQ_OPEN", "REQ_GETSIZE"})
     \/ pc[c] = "woken" /\ pc'[c] = "typed" /\ OpenAnswered(c)
     \/ pc[c] = "typed" /\ pc'[c] = "granted" /\ reply_msg_[c].err = 0
     \/ pc[c] = "typed" /\ pc'[c] = "returning" /\ reply_msg_[c].err # 0
     \/ pc[c] = "granted" /\ pc'[c] = "returning"
     \/ pc[c] = "returning" /\ pc'[c] = "idle" /\ reply_msg_[c].err = 0
     \/ pc[c] = "returning" /\ pc'[c] = "failed" /\ reply_msg_[c].err # 0
     \/ pc[c] = "getsize" /\ pc'[c] = "idle"
     \/ SendMayFail /\ pc[c] = "sending" /\ pc'[c] = "submitted"
     \/ SendMayFail /\ pc[c] = "idle" /\ pc'[c] = "dtor_free" /\ \A b \in Acbs : acbs[c][b] = Null
     \/ pc[c] = "dtor_free" /\ pc'[c] = "dtor_stop"
     \/ pc[c] = "dtor_delete" /\ pc'[c] = "closed"
  /\ \/ volume_'[c] = volume_[c] /\ ~(pc[c] = "granted" /\ pc'[c] = "returning")
     \/ pc[c] = "granted" /\ pc'[c] = "returning" /\ volume_'[c] = reply_msg_[c].volume
  /\ \A v \in Volumes : \/ reply_name'[v] = Null \/ reply_name'[v] = reply_name[v]
                        \/ v = VolumeOf[c] /\ reply_name'[v] = c /\ pc'[c] = "open"
  /\ request_mq_'[c] = request_mq_[c] \/ (pc[c] = "ctor_open" /\ request_mq_'[c] = request_name)
  /\ \/ length' = length /\ calls' = calls
     \/ length' = length /\ pc[c] = "idle" /\ calls[c] > 0 /\ calls'[c] > 0
     \/ SendMayFail /\ pc[c] = "idle" /\ calls[c] = 0 /\ length'[c] = 0 /\ calls'[c] = 1
     \/ pc[c] = "getsize" /\ pc'[c] = "idle" /\ calls' = calls

Frees(c, a) ==
  /\ Kept /\ pc[c] = "idle" /\ acbs[c][a] # Null /\ acbs[c][a].bh /\ SetAcb(c, a, Null)
  /\ UNCHANGED <<queueVars, pc, thr, request_mq_, volume_, reply_msg_, driverVars>>

Starts(c, a, x) ==
  /\ Kept /\ NewRequest(c, a, x) /\ pc[c] = "idle" /\ pc'[c] = "sending" /\ acbs[c][a] = Null
  /\ calls[c] > 0 /\ calls'[c] > 0
  /\ UNCHANGED <<queueVars, thr, request_mq_, volume_, reply_msg_, length>>

LEMMA KeptFreed == ASSUME NoteFreed \/ UNCHANGED history PROVE Kept
  BY DEF NoteFreed, history, Kept

\* The cases of ClientCases, with the effect on the history variables.
LEMMA NotedCases ==
  ASSUME NEW c \in Clients, ClientStep(c)
  PROVE  \/ \E a \in Acbs : send_readv(c, a) /\ NoteRead(c, a) /\ UNCHANGED driverVars
         \/ \E a \in Acbs : send_writev(c, a) /\ NoteWrite(c, a) /\ UNCHANGED driverVars
         \/ \E a \in Acbs : send_fsync(c, a) /\ NoteFlush(c, a) /\ UNCHANGED driverVars
         \/ Kept /\ UNCHANGED driverVars /\ (CtorRemove(c) \/ CtorOpen(c) \/ CtorCreate(c))
         \/ Kept /\ UNCHANGED driverVars /\ (BeginWait(c) \/ SpuriousWakeup(c) \/ OpenReturns(c))
         \/ Kept /\ UNCHANGED driverVars /\ (DtorFree(c) \/ DtorStop(c) \/ DtorDelete(c))
         \/ Kept /\ ((send_open(c) /\ UNCHANGED driverVars) \/ cvbd_getlength(c) \/ cvbd_close(c))
         \/ Kept /\ \E a \in Acbs : Yield(c, a) \/ cvbd_complete_aio(c, a)
         \/ Kept /\ UNCHANGED driverVars /\ (ThreadReceives(c) \/ HandleStop(c) \/ HandleSignal(c))
         \/ Kept /\ UNCHANGED driverVars /\ (HandleCompletion(c) \/ SendThrows(c))
         \/ Kept /\ (GetLengthReturns(c) \/ GetLengthThrows(c) \/ \E r : Misaligned(c, r))
         \/ Kept /\ \E a \in Acbs : \E x : NewRequest(c, a, x)
         \/ Kept /\ Perishes(c)
<1>1. CASE Progress(c)
  <2>1. CASE OpenAssertFails(c) /\ UNCHANGED <<driverVars, history>>
    BY <2>1, KeptFreed DEF OpenAssertFails, Perishes, Dead, driverVars
  <2> QED BY <1>1, <2>1, KeptFreed DEF Progress
<1>2. CASE BottomHalf(c) \/ ReplyThread(c)
  BY <1>2, KeptFreed DEF BottomHalf, ReplyThread, handle_co_reply
<1>3. CASE Environment(c)
  <2>1. CASE \E r : TooLarge(c, r)
    BY <1>3, <2>1, KeptFreed, CvbdAssumption DEF Environment, TooLarge, Perishes, Dead, Call
  <2>2. CASE QemuKilled(c) \/ (DtorCrashes(c) /\ UNCHANGED driverVars)
    BY <1>3, <2>2, KeptFreed DEF Environment, QemuKilled, DtorCrashes, Perishes, Dead, driverVars
  <2>3. CASE cvbd_open(c)
    BY <1>3, <2>3, KeptFreed DEF Environment, cvbd_open
  <2>4. ASSUME NEW a \in Acbs,
               \/ \E r \in GuestReads[c] : cvbd_co_readv(c, a, r)
               \/ \E w \in GuestWrites[c] : cvbd_co_writev(c, a, w)
               \/ cvbd_co_flush_to_disk(c, a)
        PROVE  \E x : NewRequest(c, a, x)
    BY <2>4, NewAcbType
  <2> QED BY <1>3, <2>1, <2>2, <2>3, <2>4, KeptFreed DEF Environment
<1> QED BY <1>1, <1>2, <1>3 DEF ClientStep

\* The messages.
LEMMA PostStep ==
  ASSUME Shape, NEW c \in Clients, NEW m \in Request, m.from = c, m.name = VolumeOf[c],
         NEW p, pc[c] \notin NotMapped, Send(c, m, p), length' = length
  PROVE  Posts(c, m) /\ pc'[c] = p
BY DEF Shape, ClientShape, ClientTypes, Send, send_request, Goto, Posts

LEMMA PostsCallStep ==
  ASSUME Shape, NEW c \in Clients, Kept,
         (send_open(c) /\ UNCHANGED driverVars) \/ cvbd_getlength(c) \/ cvbd_close(c)
  PROVE  \E m : PostsCall(c, m)
<1>1. volume_[c] \in Clients \cup {Null} /\ 0 \in Nat /\ 0 \in 0 .. max_data_size
  BY SharedMemAssumption DEF Shape, ClientTypes
<1>2. CASE send_open(c) /\ UNCHANGED driverVars
  <2>1. PICK m \in Request : m = OpenRequest(c)
    BY <1>1, RequestTypes, NoDataType
  <2>2. m.from = c /\ m.name = VolumeOf[c] /\ m.type = "REQ_OPEN" /\ m.volume = Null
    BY <2>1 DEF OpenRequest, Header
  <2>3. Posts(c, m) /\ pc'[c] = "before_wait" /\ pc[c] = "open" /\ acbs' = acbs
    BY <1>2, <2>1, <2>2, PostStep DEF send_open, driverVars, NotMapped, Dead
  <2> QED BY <1>2, <2>2, <2>3 DEF PostsCall, driverVars
<1>3. CASE cvbd_getlength(c)
  <2>1. PICK m \in Request : m = GetSizeRequest(c, volume_[c])
    BY <1>1, RequestTypes, NoDataType
  <2>2. m.from = c /\ m.name = VolumeOf[c] /\ m.type = "REQ_GETSIZE" /\ m.volume = volume_[c]
    BY <2>1 DEF GetSizeRequest, Header
  <2>3. Posts(c, m) /\ pc'[c] = "getsize" /\ pc[c] = "idle" /\ acbs' = acbs
    BY <1>3, <2>1, <2>2, PostStep DEF cvbd_getlength, send_getsize, NotMapped, Dead
  <2>4. calls[c] = 0 /\ calls'[c] = 1
    BY <1>3 DEF cvbd_getlength, Open, CountCall, Shape, ClientTypes
  <2> QED BY <2>2, <2>3, <2>4 DEF PostsCall
<1>4. CASE cvbd_close(c)
  <2>1. PICK m \in Request : m = CloseRequest(c, volume_[c])
    BY <1>1, RequestTypes, NoDataType
  <2>2. m.from = c /\ m.name = VolumeOf[c] /\ m.type = "REQ_CLOSE" /\ m.volume = volume_[c]
    BY <2>1 DEF CloseRequest, Header
  <2>3. Posts(c, m) /\ pc'[c] = "dtor_free" /\ pc[c] = "idle" /\ acbs' = acbs
    BY <1>4, <2>1, <2>2, PostStep DEF cvbd_close, send_close, NotMapped, Dead, driverVars
  <2> QED BY <1>4, <2>2, <2>3 DEF PostsCall, cvbd_close, driverVars
<1> QED BY <1>2, <1>3, <1>4

LEMMA PostsRequestStep ==
  ASSUME Shape, NEW c \in Clients, NEW a \in Acbs, UNCHANGED driverVars,
         (send_readv(c, a) /\ NoteRead(c, a)) \/ (send_fsync(c, a) /\ NoteFlush(c, a))
  PROVE  \E x, m : PostsRequest(c, a, x, m)
<1>1. volume_[c] \in Clients \cup {Null} /\ ClientShape(c)
  BY DEF Shape, ClientTypes
<1>2. PICK x : x = acbs[c][a] /\ Acb(x) /\ Running(c, a) /\ pc[c] = "sending"
  BY <1>1 DEF send_readv, send_fsync, Running, ClientShape
<1>3. /\ acbs' = acbs /\ length' = length /\ calls' = calls /\ pc[c] \notin NotMapped
  BY <1>2 DEF send_readv, send_fsync, driverVars, NotMapped, Dead
<1>4. CASE send_readv(c, a) /\ NoteRead(c, a)
  <2>1. PICK m \in Request : m = For(a, ReadRequest(c, volume_[c], x.offset, x.size))
    BY <1>1, <1>2, RequestTypes, NoDataType, AcbFields, ForType
  <2>2. /\ m.from = c /\ m.name = VolumeOf[c] /\ m.type = "REQ_READ" /\ m.volume = volume_[c] /\ m.acb = a
        /\ m.offset = x.offset /\ m.size = x.size
    BY <2>1 DEF ReadRequest, Header, For
  <2>3. Send(c, m, "submitted") /\ x.type = "REQ_READ"
    BY <1>2, <1>4, <2>1 DEF send_readv
  <2>4. Posts(c, m) /\ pc'[c] = "submitted"
    BY <1>3, <2>2, <2>3, PostStep
  <2> QED BY <1>2, <1>3, <1>4, <2>2, <2>3, <2>4 DEF PostsRequest
<1>5. CASE send_fsync(c, a) /\ NoteFlush(c, a)
  <2>1. PICK m \in Request : m = For(a, FsyncRequest(c, volume_[c]))
    BY <1>1, FsyncRequestType, ForType
  <2>2. /\ m.from = c /\ m.name = VolumeOf[c] /\ m.type = "REQ_FSYNC" /\ m.volume = volume_[c] /\ m.acb = a
    BY <2>1 DEF FsyncRequest, Header, For
  <2>3. Send(c, m, "submitted") /\ x.type = "REQ_FSYNC"
    BY <1>2, <1>5, <2>1 DEF send_fsync
  <2>4. Posts(c, m) /\ pc'[c] = "submitted"
    BY <1>3, <2>2, <2>3, PostStep
  <2> QED BY <1>2, <1>3, <1>5, <2>2, <2>3, <2>4 DEF PostsRequest
<1> QED BY <1>4, <1>5

LEMMA PostsWriteStep ==
  ASSUME Shape, NEW c \in Clients, NEW a \in Acbs, UNCHANGED driverVars, send_writev(c, a), NoteWrite(c, a)
  PROVE  \E x, y, m : PostsWrite(c, a, x, y, m)
<1>1. PICK x, y, m : WritesAcb(c, a, x, y, m)
  BY WriteStep
<1>2. pc[c] \notin NotMapped /\ length' = length /\ calls' = calls
  BY <1>1 DEF WritesAcb, NotMapped, Dead, driverVars
<1>3. Posts(c, m)
  BY <1>1, <1>2, PostStep DEF WritesAcb
<1> QED BY <1>1, <1>2, <1>3 DEF PostsWrite

\* The steps that neither send nor receive.
LEMMA BootStep ==
  ASSUME Shape, NEW c \in Clients, Kept, UNCHANGED driverVars, CtorRemove(c) \/ CtorOpen(c) \/ CtorCreate(c)
  PROVE  Moves(c)
<1>1. CASE CtorRemove(c)
  BY <1>1 DEF CtorRemove, Goto, driverVars, Shape, ClientTypes, QueuesTypeOK, Moves, Dead
<1>2. CASE CtorOpen(c)
  BY <1>2 DEF CtorOpen, Goto, driverVars, queueVars, Shape, ClientTypes, QueuesTypeOK, Moves, Dead
<1>3. CASE CtorCreate(c)
  BY <1>3 DEF CtorCreate, Goto, ThreadGoto, driverVars, Shape, ClientTypes, QueuesTypeOK, Moves, Dead
<1> QED BY <1>1, <1>2, <1>3

LEMMA WaitStep ==
  ASSUME Shape, NEW c \in Clients, Kept, UNCHANGED driverVars,
         BeginWait(c) \/ SpuriousWakeup(c) \/ OpenReturns(c) \/ DtorFree(c) \/ DtorDelete(c)
  PROVE  Moves(c)
<1>1. CASE BeginWait(c)
  BY <1>1 DEF BeginWait, Goto, driverVars, queueVars, Shape, ClientTypes, QueuesTypeOK, Moves, Dead
<1>2. CASE SpuriousWakeup(c)
  BY <1>2 DEF SpuriousWakeup, Goto, driverVars, queueVars, Shape, ClientTypes, QueuesTypeOK, Moves, Dead
<1>3. CASE OpenReturns(c)
  BY <1>3 DEF OpenReturns, Goto, driverVars, queueVars, Shape, ClientTypes, QueuesTypeOK, Moves, Dead
<1>4. CASE DtorFree(c)
  BY <1>4 DEF DtorFree, Goto, driverVars, Shape, ClientTypes, QueuesTypeOK, Moves, Dead
<1>5. CASE DtorDelete(c)
  BY <1>5 DEF DtorDelete, Goto, driverVars, queueVars, Shape, ClientTypes, QueuesTypeOK, Moves, Dead
<1> QED BY <1>1, <1>2, <1>3, <1>4, <1>5

LEMMA SignalStep ==
  ASSUME Shape, NEW c \in Clients, Kept, UNCHANGED driverVars, HandleStop(c) \/ HandleSignal(c)
  PROVE  Moves(c)
<1>1. CASE HandleStop(c)
  BY <1>1 DEF HandleStop, Handles, Handling, ThreadRuns, ThreadGoto, driverVars, queueVars, Shape,
     ClientTypes, QueuesTypeOK, Moves
<1>2. CASE HandleSignal(c)
  BY <1>2 DEF HandleSignal, Handles, Handling, ThreadRuns, ThreadLoops, ThreadGoto, Goto, driverVars,
     queueVars, Shape, ClientTypes, QueuesTypeOK, Moves
<1> QED BY <1>1, <1>2

LEMMA LengthStep ==
  ASSUME Shape, NEW c \in Clients, Kept, GetLengthReturns(c) \/ GetLengthThrows(c) \/ \E r : Misaligned(c, r)
  PROVE  Moves(c)
<1>1. CASE GetLengthReturns(c)
  BY <1>1 DEF GetLengthReturns, Goto, queueVars, Shape, ClientTypes, QueuesTypeOK, Moves, Dead
<1>2. CASE GetLengthThrows(c)
  BY <1>2 DEF GetLengthThrows, Open, CountCall, queueVars, clientVars, Shape, ClientTypes, QueuesTypeOK, Moves, Dead
<1>3. CASE \E r : Misaligned(c, r)
  <2>1. calls[c] \in 1 .. MaxCalls /\ calls'[c] = calls[c] + 1 /\ pc[c] = "idle"
    BY <1>3 DEF Misaligned, Call, CountCall, Shape, ClientTypes
  <2> QED BY <1>3, <2>1, CvbdAssumption DEF Misaligned, queueVars, clientVars, Moves, Dead
<1> QED BY <1>1, <1>2, <1>3

LEMMA ThrowStep ==
  ASSUME Shape, NEW c \in Clients, Kept, UNCHANGED driverVars, SendThrows(c)
  PROVE  Moves(c) \/ (SendMayFail /\ Perished(c))
<1>1. CASE Perish(c, "aborted")
  BY <1>1, PerishStep DEF driverVars, Dead, SendThrows
<1>2. CASE ~Perish(c, "aborted")
  BY <1>2 DEF SendThrows, Goto, driverVars, queueVars, Shape, ClientTypes, QueuesTypeOK, Moves, Dead
<1> QED BY <1>1, <1>2

LEMMA ReceiveStep ==
  ASSUME Shape, NEW c \in Clients, Kept, UNCHANGED driverVars, ThreadReceives(c)
  PROVE  \E m : Receives(c, m)
<1>1. PICK m : m = Head(reply_mq[c])
  OBVIOUS
<1>2. reply_mq[c] \in Seq(Reply) /\ reply_mq[c] # << >>
  BY DEF ThreadReceives, Shape, QueuesTypeOK
<1>3. m \in Reply
  BY <1>1, <1>2
<1> QED BY <1>1, <1>3 DEF ThreadReceives, ThreadGoto, Shape, ClientTypes, Receives

LEMMA StopStep ==
  ASSUME Shape, NEW c \in Clients, Kept, UNCHANGED driverVars, DtorStop(c)
  PROVE  PostsStop(c)
BY DEF DtorStop, Goto, Shape, ClientTypes, PostsStop

LEMMA StartStep ==
  ASSUME Shape, NEW c \in Clients, NEW a \in Acbs, NEW x, Kept, NewRequest(c, a, x)
  PROVE  Starts(c, a, x)
<1>1. Submit(c, a, x)
  BY DEF NewRequest
<1>2. calls[c] \in 1 .. MaxCalls /\ calls'[c] = calls[c] + 1 /\ pc[c] = "idle" /\ pc'[c] = "sending"
  BY <1>1 DEF Submit, Call, CountCall, Goto, Shape, ClientTypes
<1> QED BY <1>1, <1>2, CvbdAssumption DEF Submit, Starts

LEMMA ClientKinds ==
  ASSUME Shape, NEW c \in Clients, ClientStep(c)
  PROVE  \/ \E m : PostsCall(c, m)
         \/ \E a \in Acbs : \E x, m : PostsRequest(c, a, x, m)
         \/ \E a \in Acbs : \E x, y, m : PostsWrite(c, a, x, y, m)
         \/ \E m : Receives(c, m)
         \/ PostsStop(c)
         \/ Moves(c)
         \/ Kept /\ Perished(c)
         \/ \E a \in Acbs : \E x, y, m : Kept /\ CompletesAcb(c, a, x, y, m)
         \/ \E a \in Acbs : \E x, y : Kept /\ YieldsAcb(c, a, x, y)
         \/ \E a \in Acbs : Frees(c, a)
         \/ \E a \in Acbs : \E x : Starts(c, a, x)
<1>1. CASE \E a \in Acbs : UNCHANGED driverVars /\
              ((send_readv(c, a) /\ NoteRead(c, a)) \/ (send_fsync(c, a) /\ NoteFlush(c, a)))
  BY <1>1, PostsRequestStep
<1>2. CASE \E a \in Acbs : send_writev(c, a) /\ NoteWrite(c, a) /\ UNCHANGED driverVars
  BY <1>2, PostsWriteStep
<1>3. CASE Kept /\ UNCHANGED driverVars /\ (CtorRemove(c) \/ CtorOpen(c) \/ CtorCreate(c))
  BY <1>3, BootStep
<1>4. CASE Kept /\ UNCHANGED driverVars
              /\ (BeginWait(c) \/ SpuriousWakeup(c) \/ OpenReturns(c) \/ DtorFree(c) \/ DtorDelete(c))
  BY <1>4, WaitStep
<1>5. CASE Kept /\ UNCHANGED driverVars /\ DtorStop(c)
  BY <1>5, StopStep
<1>6. CASE Kept /\ ((send_open(c) /\ UNCHANGED driverVars) \/ cvbd_getlength(c) \/ cvbd_close(c))
  BY <1>6, PostsCallStep
<1>7. CASE Kept /\ \E a \in Acbs : Yield(c, a)
  BY <1>7, YieldStep
<1>8. CASE Kept /\ \E a \in Acbs : cvbd_complete_aio(c, a)
  BY <1>8 DEF cvbd_complete_aio, Frees
<1>9. CASE Kept /\ UNCHANGED driverVars /\ ThreadReceives(c)
  BY <1>9, ReceiveStep
<1>10. CASE Kept /\ UNCHANGED driverVars /\ (HandleStop(c) \/ HandleSignal(c))
  BY <1>10, SignalStep
<1>11. CASE Kept /\ UNCHANGED driverVars /\ HandleCompletion(c)
  BY <1>11, CompletionStep
<1>12. CASE Kept /\ UNCHANGED driverVars /\ SendThrows(c)
  BY <1>12, ThrowStep
<1>13. CASE Kept /\ (GetLengthReturns(c) \/ GetLengthThrows(c) \/ \E r : Misaligned(c, r))
  BY <1>13, LengthStep
<1>14. CASE Kept /\ \E a \in Acbs : \E x : NewRequest(c, a, x)
  BY <1>14, StartStep
<1>15. CASE Kept /\ Perishes(c)
  BY <1>15, PerishStep DEF Perishes
<1> QED BY <1>1, <1>2, <1>3, <1>4, <1>5, <1>6, <1>7, <1>8, <1>9, <1>10, <1>11, <1>12, <1>13, <1>14, <1>15, NotedCases

-------------------------------------------------------------------------------
(***************************************************************************)
(* The steps of the server, in the same way.  The requests it has to do    *)
(* are the places Todo of its queue.                                       *)
(***************************************************************************)
Todo == IF server = "up" THEN 1 .. Len(Pending) ELSE {}

\* The process ends, perhaps in the middle of a pwrite.
Stopped ==
  /\ server' # "up" /\ (request_name' = request_name \/ request_name' = Null)
  /\ (vols' = vols /\ server # "up") \/ vols' = [c \in Clients |-> Null]
  /\ UNCHANGED <<reply_mq, reply_name, epoch>>

Started ==
  /\ server = "starting" /\ server' = "up" /\ epoch' = epoch + 1 /\ request_name' = epoch + 1
  /\ request_mq'[epoch'] = << >>
  /\ UNCHANGED <<reply_mq, reply_name, vols, disk>>

\* A turn of the loop that does not end the process.
Takes(m) ==
  /\ server = "up" /\ server' = "up" /\ epoch \in Epochs /\ epoch' = epoch
  /\ Pending \in Seq(Request) /\ Pending # << >> /\ m = Head(Pending) /\ m \in Request
  /\ Pending' = Tail(Pending)
  /\ UNCHANGED <<request_name, reply_name>>

TakesOpen(m, d, r) ==
  /\ Takes(m) /\ m.type = "REQ_OPEN" /\ d = reply_name[m.name] /\ d \in Clients
  /\ r \in Reply /\ r.type = "REQ_OPEN" /\ r.volume = m.from
  /\ reply_mq' = [reply_mq EXCEPT ![d] = Append(@, r)]
  /\ \/ r.err = 0 /\ vols' = [vols EXCEPT ![m.from] = [file |-> m.name, reply_mq |-> d]]
     \/ r.err = -1 /\ vols' = vols
  /\ disk' = disk

TakesCall(m, w, r) ==
  /\ Takes(m) /\ w = m.volume /\ w \in Clients /\ vols[w] # Null
  /\ r \in Reply /\ r.type = m.type /\ r.acb = m.acb
  /\ reply_mq' = [reply_mq EXCEPT ![vols[w].reply_mq] = Append(@, r)]
  /\ \/ m.type \in {"REQ_GETSIZE", "REQ_FSYNC"}
     \/ /\ m.type = "REQ_READ" /\ InFile(m) /\ r.size = m.size
        /\ \A k \in 0 .. m.size - 1 : r.data[k] = disk[vols[w].file][m.offset + k]
  /\ UNCHANGED <<vols, disk>>

TakesQuietly(m) ==
  /\ Takes(m) /\ reply_mq' = reply_mq
  /\ \/ "create" \in Faults /\ m.type = "REQ_OPEN" /\ UNCHANGED <<vols, disk>>
     \/ /\ m.type = "REQ_CLOSE" /\ vols' = [c \in Clients |-> IF c = m.volume THEN Null ELSE vols[c]]
        /\ disk' = disk
     \/ /\ m.type = "REQ_WRITE" /\ vols' = vols
        /\ \/ m.volume = Null /\ disk' = disk
           \/ /\ m.volume \in Clients /\ vols[m.volume] # Null
              /\ disk' = [disk EXCEPT ![vols[m.volume].file] = Overwrite(@, m.offset, m.data, m.size)]

LEMMA TakeStep ==
  ASSUME Shape, NEW type, Receive(type), server' = "up", epoch' = epoch, UNCHANGED <<request_name, reply_name>>,
         NEW m, m = Msg
  PROVE  Takes(m) /\ m.type = type
<1>1. epoch \in Epochs /\ Msg \in Request /\ Msg.type = type
  BY ReceiveType DEF Shape
<1>2. Pending \in Seq(Request) /\ Pending # << >> /\ server = "up"
  BY <1>1 DEF Receive, Pending, Shape, QueuesTypeOK
<1>3. Pending' = Tail(Pending)
  BY <1>1 DEF Receive, Pending, Shape, QueuesTypeOK
<1> QED BY <1>1, <1>2, <1>3 DEF Takes, Msg

LEMMA OpenStep ==
  ASSUME Shape, OpenOk \/ OpenTruncateFails
  PROVE  \E m, d, r : TakesOpen(m, d, r)
<1>1. PICK m : m = Msg
  OBVIOUS
<1>2. Takes(m) /\ m.type = "REQ_OPEN"
  BY <1>1, TakeStep DEF OpenOk, OpenTruncateFails, Receive, serverVars
<1>3. m.from \in Clients /\ m.name \in Volumes
  BY <1>2 DEF Takes, Request
<1>4. PICK d \in Clients : d = reply_name[m.name]
  BY <1>1, <1>3 DEF OpenOk, OpenTruncateFails, Shape, QueuesTypeOK
<1>5. ASSUME NEW err \in {0, -1} PROVE OpenReply(m.from, err) \in Reply
  BY <1>3, NoDataType, SharedMemAssumption DEF OpenReply, Reply
<1>6. CASE OpenOk
  <2>1. PICK r \in Reply : r = OpenReply(m.from, 0)
    BY <1>5
  <2>2. r.type = "REQ_OPEN" /\ r.volume = m.from /\ r.err = 0
    BY <2>1 DEF OpenReply
  <2>3. reply_mq' = [reply_mq EXCEPT ![d] = Append(@, r)]
    BY <1>1, <1>4, <1>6, <2>1 DEF OpenOk, send_reply
  <2>4. vols' = [vols EXCEPT ![m.from] = [file |-> m.name, reply_mq |-> d]] /\ disk' = disk
    BY <1>1, <1>4, <1>6 DEF OpenOk
  <2> QED BY <1>2, <1>4, <2>2, <2>3, <2>4 DEF TakesOpen
<1>7. CASE OpenTruncateFails
  <2>1. PICK r \in Reply : r = OpenReply(m.from, -1)
    BY <1>5
  <2>2. r.type = "REQ_OPEN" /\ r.volume = m.from /\ r.err = -1
    BY <2>1 DEF OpenReply
  <2>3. reply_mq' = [reply_mq EXCEPT ![d] = Append(@, r)]
    BY <1>1, <1>4, <1>7, <2>1 DEF OpenTruncateFails, send_reply
  <2>4. vols' = vols /\ disk' = disk
    BY <1>7 DEF OpenTruncateFails, serverVars
  <2> QED BY <1>2, <1>4, <2>2, <2>3, <2>4 DEF TakesOpen
<1> QED BY <1>6, <1>7

LEMMA CallStep ==
  ASSUME Shape, getsize \/ fsync \/ read
  PROVE  \E m, w, r : TakesCall(m, w, r)
<1>1. PICK m : m = Msg
  OBVIOUS
<1>2. Takes(m) /\ m.type \in {"REQ_GETSIZE", "REQ_FSYNC", "REQ_READ"} /\ UNCHANGED <<vols, disk>>
  BY <1>1, TakeStep DEF getsize, fsync, read, Receive, serverVars
<1>3. /\ m \in Request /\ m.volume \in Clients \cup {Null} /\ m.acb \in Acbs \cup {Null}
      /\ m.size \in 0 .. max_data_size /\ m.offset \in Nat
  BY <1>2 DEF Takes, Request
<1>4. PICK w \in Clients : w = m.volume /\ vols[w] # Null
  BY <1>1, <1>3 DEF getsize, fsync, read, Allocated
<1>5. CASE getsize
  <2>1. PICK size \in {0, FileSize} : send_reply(vols[w].reply_mq, GetSizeReply(m, size))
    BY <1>1, <1>4, <1>5 DEF getsize
  <2>2. m.type = "REQ_GETSIZE"
    BY <1>1, <1>5 DEF getsize, Receive
  <2>3. PICK r \in Reply : r = GetSizeReply(m, size)
    BY <1>3, <2>2, NoDataType DEF GetSizeReply, Reply
  <2>4. r.type = m.type /\ r.acb = m.acb
    BY <2>3 DEF GetSizeReply
  <2>5. reply_mq' = [reply_mq EXCEPT ![vols[w].reply_mq] = Append(@, r)]
    BY <2>1, <2>3 DEF send_reply
  <2> QED BY <1>2, <1>4, <2>2, <2>4, <2>5 DEF TakesCall
<1>6. CASE fsync
  <2>1. PICK err \in {0, -1} : send_reply(vols[w].reply_mq, FsyncReply(m, err))
    BY <1>1, <1>4, <1>6 DEF fsync
  <2>2. m.type = "REQ_FSYNC"
    BY <1>1, <1>6 DEF fsync, Receive
  <2>3. FsyncReply(m, err) \in Reply
    BY <1>3, <2>2, NoDataType, SharedMemAssumption DEF FsyncReply, Reply
  <2>r. PICK r \in Reply : r = FsyncReply(m, err)
    BY <2>3
  <2>4. r.type = m.type /\ r.acb = m.acb
    BY <2>r DEF FsyncReply
  <2>5. reply_mq' = [reply_mq EXCEPT ![vols[w].reply_mq] = Append(@, r)]
    BY <2>1, <2>r DEF send_reply
  <2> QED BY <1>2, <1>4, <2>2, <2>4, <2>5 DEF TakesCall
<1>7. CASE read
  <2>1. PICK s : s = Slice(disk[vols[w].file], m.offset, m.size)
    OBVIOUS
  <2>2. m.type = "REQ_READ" /\ InFile(m) /\ send_reply(vols[w].reply_mq, ReadReply(m, m.size, s))
    BY <1>1, <1>4, <1>7, <2>1 DEF read, Receive
  <2>3. s \in Data
    <3>1. vols[w] \in VolumeState
      BY <1>4 DEF Shape, ServerTypeOK
    <3>2. PICK f \in [0 .. FileSize - 1 -> Val] : f = disk[vols[w].file]
      BY <3>1 DEF Shape, ServerTypeOK, VolumeState
    <3>3. m.offset + m.size <= FileSize /\ m.size \in Nat
      BY <1>3, <2>2, SharedMemAssumption DEF InFile
    <3> QED BY <1>3, <2>1, <3>2, <3>3, SliceType, SharedMemAssumption
  <2>4. PICK r \in Reply : r = ReadReply(m, m.size, s)
    BY <1>3, <2>2, <2>3 DEF ReadReply, Reply
  <2>5. r.type = m.type /\ r.acb = m.acb /\ r.size = m.size /\ r.data = s
    BY <2>4 DEF ReadReply
  <2>6. reply_mq' = [reply_mq EXCEPT ![vols[w].reply_mq] = Append(@, r)]
    BY <2>2, <2>4 DEF send_reply
  <2>7. \A k \in 0 .. m.size - 1 : r.data[k] = disk[vols[w].file][m.offset + k]
    <3> TAKE k \in 0 .. m.size - 1
    <3>1. k \in 0 .. max_data_size - 1 /\ k < m.size
      BY <1>3, SharedMemAssumption
    <3> QED BY <2>1, <2>5, <3>1 DEF Slice
  <2> QED BY <1>2, <1>4, <2>2, <2>5, <2>6, <2>7 DEF TakesCall
<1> QED BY <1>5, <1>6, <1>7

LEMMA QuietStep ==
  ASSUME Shape, OpenCreateFails \/ close \/ write
  PROVE  \E m : TakesQuietly(m)
<1>1. PICK m : m = Msg
  OBVIOUS
<1>2. Takes(m) /\ reply_mq' = reply_mq
  BY <1>1, TakeStep DEF OpenCreateFails, close, write, Receive, serverVars
<1>3. m.volume \in Clients \cup {Null}
  BY <1>2 DEF Takes, Request
<1>4. CASE OpenCreateFails
  BY <1>1, <1>2, <1>4 DEF OpenCreateFails, Receive, serverVars, TakesQuietly
<1>5. CASE close
  BY <1>1, <1>2, <1>5 DEF close, Receive, TakesQuietly
<1>6. CASE write
  <2>1. m.type = "REQ_WRITE" /\ vols' = vols
    BY <1>1, <1>6 DEF write, Receive
  <2>2. CASE m.volume = Null
    BY <1>1, <1>2, <1>6, <2>1, <2>2 DEF write, TakesQuietly
  <2>3. CASE m.volume # Null
    <3>1. /\ m.volume \in Clients /\ vols[m.volume] # Null
          /\ disk' = [disk EXCEPT ![vols[m.volume].file] = Overwrite(@, m.offset, m.data, m.size)]
      BY <1>1, <1>3, <1>6, <2>3 DEF write, Written, Allocated
    <3> QED BY <1>2, <2>1, <3>1 DEF TakesQuietly
  <2> QED BY <2>2, <2>3
<1> QED BY <1>4, <1>5, <1>6

LEMMA ServerKinds ==
  ASSUME Shape, ServerStep
  PROVE  \/ Stopped \/ Started
         \/ \E m, d, r : TakesOpen(m, d, r)
         \/ \E m, w, r : TakesCall(m, w, r)
         \/ \E m : TakesQuietly(m)
<1>1. ServerNext
  BY DEF ServerStep
<1>2. CASE StartRemove \/ Kill \/ OpenAborts \/ IoAborts
  BY <1>2 DEF StartRemove, Kill, OpenAborts, IoAborts, Exit, Stopped
<1>3. CASE StartCreate
  <2>1. epoch + 1 \in Epochs
    BY <1>3, SharedMemAssumption DEF StartCreate, Shape, ServerTypeOK, Epochs
  <2> QED BY <1>3, <2>1 DEF StartCreate, Started, Shape, QueuesTypeOK
<1>4. CASE OpenOk \/ OpenTruncateFails
  BY <1>4, OpenStep
<1>5. CASE getsize \/ fsync \/ read
  BY <1>5, CallStep
<1>6. CASE OpenCreateFails \/ close \/ write
  BY <1>6, QuietStep
<1> QED BY <1>1, <1>2, <1>3, <1>4, <1>5, <1>6 DEF ServerNext, handle_requests, open

-------------------------------------------------------------------------------
\* How the requests to do and the replies change.
SameTodo == Todo' = Todo /\ \A i \in Todo : Pending'[i] = Pending[i]

NewTodo(m, n) ==
  /\ n \in Nat \ {0} /\ Todo = 1 .. (n - 1) /\ Todo' = 1 .. n
  /\ Pending'[n] = m /\ \A i \in Todo : Pending'[i] = Pending[i]

DoneTodo(m, n) ==
  /\ n \in Nat \ {0} /\ Todo = 1 .. n /\ Todo' = 1 .. (n - 1)
  /\ Pending[1] = m /\ \A i \in Todo' : i \in Int /\ i + 1 \in Todo /\ Pending'[i] = Pending[i + 1]

SameReplies(d) == reply_mq'[d] = reply_mq[d]

NewReply(d, r, n) ==
  /\ n \in Nat \ {0} /\ Len(reply_mq[d]) = n - 1 /\ Len(reply_mq'[d]) = n
  /\ reply_mq'[d][n] = r /\ \A i \in 1 .. (n - 1) : reply_mq'[d][i] = reply_mq[d][i]

TakenReply(d, r, n) ==
  /\ n \in Nat \ {0} /\ Len(reply_mq[d]) = n /\ Len(reply_mq'[d]) = n - 1
  /\ reply_mq[d][1] = r
  /\ \A i \in 1 .. (n - 1) : i \in Int /\ i + 1 \in 1 .. n /\ reply_mq'[d][i] = reply_mq[d][i + 1]

LEMMA EpochUp == ASSUME Shape, server = "up" PROVE epoch \in Epochs /\ Pending \in Seq(Request)
<1>1. epoch \in Epochs
  BY SharedMemAssumption DEF Shape, ServerTypeOK, Epochs
<1> QED BY <1>1 DEF Shape, QueuesTypeOK, Pending

LEMMA TodoSame == ASSUME UNCHANGED <<request_mq, serverVars>> PROVE SameTodo
  BY DEF SameTodo, Todo, Pending, serverVars

LEMMA TodoPosts ==
  ASSUME Shape, NEW c \in Clients, NEW m, Posts(c, m), UNCHANGED serverVars
  PROVE  (~Served(c) /\ SameTodo) \/ (Served(c) /\ \E n : NewTodo(m, n))
<1>1. request_mq \in [Epochs -> Seq(Request)] /\ request_mq_[c] \in Epochs
  BY DEF Shape, QueuesTypeOK, Posts
<1>2. CASE server # "up"
  BY <1>2 DEF Served, SameTodo, Todo, serverVars
<1>3. CASE server = "up" /\ request_mq_[c] # epoch
  <2>1. epoch \in Epochs
    BY <1>3, EpochUp
  <2>2. Pending' = Pending
    BY <1>1, <1>3, <2>1 DEF Posts, Pending, serverVars
  <2> QED BY <1>3, <2>2 DEF Served, SameTodo, Todo, serverVars
<1>4. CASE server = "up" /\ request_mq_[c] = epoch
  <2>1. Pending \in Seq(Request)
    BY <1>4, EpochUp
  <2>2. Pending' = Append(Pending, m)
    BY <1>1, <1>4 DEF Posts, Pending, serverVars
  <2>3. /\ Len(Pending') = Len(Pending) + 1 /\ Len(Pending) \in Nat /\ Pending'[Len(Pending) + 1] = m
        /\ \A i \in 1 .. Len(Pending) : Pending'[i] = Pending[i]
    BY <2>1, <2>2, AppendFacts
  <2>4. PICK n : n = Len(Pending) + 1
    OBVIOUS
  <2>5. Todo = 1 .. Len(Pending) /\ Todo' = 1 .. Len(Pending')
    BY <1>4 DEF Todo, serverVars
  <2>6. n \in Nat \ {0} /\ n - 1 = Len(Pending) /\ n = Len(Pending')
    BY <2>3, <2>4
  <2>7. NewTodo(m, n)
    BY <2>3, <2>4, <2>5, <2>6 DEF NewTodo
  <2> QED BY <1>4, <2>7 DEF Served
<1> QED BY <1>2, <1>3, <1>4

LEMMA TodoTakes ==
  ASSUME NEW m, Takes(m)
  PROVE  \E n : DoneTodo(m, n)
<1>1. /\ Len(Pending') = Len(Pending) - 1 /\ Len(Pending) \in Nat \ {0} /\ Pending[1] = m
      /\ Len(Pending') \in Nat /\ \A i \in 1 .. Len(Pending') : Pending'[i] = Pending[i + 1]
  BY TailFacts DEF Takes
<1>2. PICK n : n = Len(Pending)
  OBVIOUS
<1>3. Todo = 1 .. n /\ Todo' = 1 .. (n - 1) /\ n \in Nat \ {0}
  BY <1>1, <1>2 DEF Todo, Takes
<1>4. \A i \in Todo' : i \in Int /\ i + 1 \in Todo
  BY <1>3
<1> QED BY <1>1, <1>2, <1>3, <1>4 DEF DoneTodo

LEMMA TodoGone == ASSUME Stopped \/ Started PROVE Todo' = {}
<1>1. CASE Stopped
  BY <1>1 DEF Stopped, Todo
<1>2. CASE Started
  <2>1. Pending' = << >>
    BY <1>2 DEF Started, Pending
  <2>2. Len(Pending') = 0
    BY <2>1
  <2>3. Todo' = 1 .. 0
    BY <1>2, <2>2 DEF Started, Todo
  <2> QED BY <2>3
<1> QED BY <1>1, <1>2

LEMMA RepliesAppended ==
  ASSUME Shape, NEW d \in Clients, NEW r, reply_mq' = [reply_mq EXCEPT ![d] = Append(@, r)]
  PROVE  (\E n : NewReply(d, r, n)) /\ \A e \in Clients : e # d => SameReplies(e)
<1>1. PICK q \in Seq(Reply) : q = reply_mq[d]
  BY DEF Shape, QueuesTypeOK
<1>2. reply_mq'[d] = Append(q, r) /\ \A e \in Clients : e # d => reply_mq'[e] = reply_mq[e]
  BY <1>1 DEF Shape, QueuesTypeOK
<1>3. PICK n : n = Len(q) + 1
  OBVIOUS
<1>4. /\ Len(Append(q, r)) = Len(q) + 1 /\ Len(q) \in Nat /\ Append(q, r)[Len(q) + 1] = r
      /\ \A i \in 1 .. Len(q) : Append(q, r)[i] = q[i]
  BY AppendFacts
<1>5. n \in Nat \ {0} /\ n - 1 = Len(q)
  BY <1>3, <1>4
<1>6. NewReply(d, r, n)
  BY <1>1, <1>2, <1>3, <1>4, <1>5 DEF NewReply
<1> QED BY <1>2, <1>6 DEF SameReplies

LEMMA RepliesTaken ==
  ASSUME Shape, NEW d \in Clients, reply_mq[d] # << >>, reply_mq' = [reply_mq EXCEPT ![d] = Tail(@)]
  PROVE  (\E n : TakenReply(d, Head(reply_mq[d]), n)) /\ \A e \in Clients : e # d => SameReplies(e)
<1>1. PICK q \in Seq(Reply) : q = reply_mq[d] /\ q # << >>
  BY DEF Shape, QueuesTypeOK
<1>2. reply_mq'[d] = Tail(q) /\ \A e \in Clients : e # d => reply_mq'[e] = reply_mq[e]
  BY <1>1 DEF Shape, QueuesTypeOK
<1>3. PICK n : n = Len(q)
  OBVIOUS
<1>4. /\ Len(Tail(q)) = Len(q) - 1 /\ Len(q) \in Nat \ {0} /\ q[1] = Head(q)
      /\ \A i \in 1 .. Len(Tail(q)) : Tail(q)[i] = q[i + 1]
  BY <1>1, TailFacts
<1>5. \A i \in 1 .. (n - 1) : i \in Int /\ i + 1 \in 1 .. n
  BY <1>3, <1>4
<1>6. TakenReply(d, Head(q), n)
  BY <1>1, <1>2, <1>3, <1>4, <1>5 DEF TakenReply
<1> QED BY <1>1, <1>2, <1>6 DEF SameReplies

-------------------------------------------------------------------------------
(***************************************************************************)
(* Pointers.  d holds w when a pointer to the VolumeState of w's OPEN is   *)
(* anywhere on d's side or in a request of d.  Nobody holds w before w has *)
(* sent its OPEN or while that OPEN is to be done, and each client sends   *)
(* one: so the VolumeState, if there is one, is the one d was told of, of  *)
(* d's volume, with d's reply queue.  Until send_open has returned, d has  *)
(* asked for nothing but its volume, so that whatever the reply thread has *)
(* received is the answer to an OPEN.                                      *)
(***************************************************************************)
Holds(d, w) ==
  \/ volume_[d] = w
  \/ reply_msg_[d] # Null /\ reply_msg_[d].type = "REQ_OPEN" /\ reply_msg_[d].volume = w
  \/ \E i \in 1 .. Len(reply_mq[d]) : reply_mq[d][i].type = "REQ_OPEN" /\ reply_mq[d][i].volume = w
  \/ \E i \in Todo : Pending[i].from = d /\ Pending[i].volume = w

Opens(w, i) == Pending[i].from = w /\ Pending[i].type = "REQ_OPEN"

Fresh(w) == vols[w] = Null /\ \A d \in Clients : ~Holds(d, w)

Pointer(w) ==
  /\ pc[w] \in NotOpened => Fresh(w) /\ \A i \in Todo : ~Opens(w, i)
  /\ \A i \in Todo : Opens(w, i) => Fresh(w) /\ \A j \in Todo : Opens(w, j) => j = i
  /\ \A d \in Clients : Holds(d, w) /\ vols[w] # Null => vols[w] = [file |-> VolumeOf[d], reply_mq |-> d]

Addressed(m) ==
  m \in Request /\ m.name = VolumeOf[m.from] /\ (m.type = "REQ_OPEN" => m.volume = Null)

NotUsing == NotOpened \cup Opening
Places(c) == 1 .. Len(reply_mq[c])

OpenOnly(c) ==
  pc[c] \in NotUsing =>
    /\ \A i \in Todo : Pending[i].from = c => Pending[i].type = "REQ_OPEN"
    /\ \A i \in Places(c) : reply_mq[c][i].type = "REQ_OPEN"
    /\ reply_msg_[c] # Null => reply_msg_[c].type = "REQ_OPEN"

PtrInv ==
  /\ \A v \in Volumes : reply_name[v] # Null => VolumeOf[reply_name[v]] = v
  /\ \A i \in Todo : Addressed(Pending[i])
  /\ \A w \in Clients : Pointer(w)
  /\ \A c \in Clients : OpenOnly(c)

LEMMA PtrInit == Init => PtrInv
<1> SUFFICES ASSUME Init PROVE PtrInv
  OBVIOUS
<1>1. Todo = {}
  BY DEF Init, ServerInit, Todo
<1>2. \A d \in Clients : /\ volume_[d] = Null /\ reply_msg_[d] = Null /\ reply_mq[d] = << >>
                         /\ vols[d] = Null /\ Null \notin Clients
  BY SharedMemAssumption DEF Init, ServerInit, ClientInit, QueuesInit
<1>3. \A d \in Clients : Len(reply_mq[d]) = 0
  <2>1. Len(<< >>) = 0
    OBVIOUS
  <2> QED BY <1>2, <2>1
<1>4. ASSUME NEW d \in Clients, NEW w \in Clients PROVE ~Holds(d, w)
  BY <1>1, <1>2, <1>3 DEF Holds
<1>5. \A v \in Volumes : reply_name[v] = Null
  BY DEF Init, QueuesInit
<1>6. ASSUME NEW d \in Clients PROVE OpenOnly(d)
  <2>1. Places(d) = 1 .. 0
    BY <1>3 DEF Places
  <2> QED BY <1>1, <1>2, <2>1 DEF OpenOnly
<1> QED BY <1>1, <1>2, <1>4, <1>5, <1>6 DEF PtrInv, Pointer, Fresh

\* A message of c, and what a step of c does to what c has.
Sent(c, m) ==
  /\ m \in Request /\ m.from = c /\ m.name = VolumeOf[c]
  /\ \/ m.type = "REQ_OPEN" /\ m.volume = Null /\ pc[c] = "open" /\ pc'[c] = "before_wait"
     \/ m.type # "REQ_OPEN" /\ m.volume = volume_[c] /\ pc[c] \in {"idle", "sending"} /\ pc'[c] \notin NotOpened

Mail(c) ==
  /\ SameTodo \/ (Served(c) /\ \E m, n : NewTodo(m, n) /\ Sent(c, m))
  /\ \/ SameReplies(c) /\ (reply_msg_'[c] = reply_msg_[c] \/ reply_msg_'[c] = Null)
     \/ (\E n : NewReply(c, StopMessage, n)) /\ reply_msg_'[c] = reply_msg_[c]
     \/ \E r, n : TakenReply(c, r, n) /\ reply_msg_'[c] = r
  /\ \/ volume_'[c] = volume_[c] \/ volume_'[c] = Null
     \/ pc[c] = "granted" /\ volume_'[c] = reply_msg_[c].volume
  /\ pc'[c] \in NotOpened => pc[c] \in NotOpened
  /\ \A v \in Volumes : \/ reply_name'[v] = Null \/ reply_name'[v] = reply_name[v]
                        \/ v = VolumeOf[c] /\ reply_name'[v] = c
  /\ \A d \in Clients : d # c => SameReplies(d)

LEMMA ClientMail ==
  ASSUME Shape, NEW c \in Clients, ClientStep(c)
  PROVE  Mail(c)
<1>0. UNCHANGED serverVars
  BY DEF ClientStep
<1>1. ASSUME NEW m, Posts(c, m), Sent(c, m) PROVE Mail(c)
  <2>1. SameTodo \/ (Served(c) /\ \E n : NewTodo(m, n))
    BY <1>0, <1>1, TodoPosts
  <2>2. reply_mq' = reply_mq /\ reply_msg_' = reply_msg_ /\ volume_' = volume_ /\ reply_name' = reply_name
    BY <1>1 DEF Posts
  <2>3. pc'[c] \in NotOpened => pc[c] \in NotOpened
    BY <1>1 DEF Sent, NotOpened
  <2> QED BY <1>1, <2>1, <2>2, <2>3 DEF Mail, SameReplies
<1>2. ASSUME NEW m, PostsCall(c, m) PROVE Mail(c)
  <2>1. Posts(c, m) /\ Sent(c, m)
    BY <1>2 DEF PostsCall, Posts, Sent, NotOpened
  <2> QED BY <1>1, <2>1
<1>3. ASSUME NEW a \in Acbs, NEW x, NEW m, PostsRequest(c, a, x, m) PROVE Mail(c)
  <2>1. Posts(c, m) /\ Sent(c, m)
    BY <1>3 DEF PostsRequest, Posts, Sent, NotOpened
  <2> QED BY <1>1, <2>1
<1>4. ASSUME NEW a \in Acbs, NEW x, NEW y, NEW m, PostsWrite(c, a, x, y, m) PROVE Mail(c)
  <2>1. Posts(c, m) /\ Sent(c, m)
    BY <1>4 DEF PostsWrite, WritesAcb, Posts, Sent, NotOpened
  <2> QED BY <1>1, <2>1
<1>5. ASSUME NEW m, Receives(c, m) PROVE Mail(c)
  <2>1. /\ \E n : TakenReply(c, m, n)
        /\ \A d \in Clients : d # c => SameReplies(d)
    BY <1>5, RepliesTaken DEF Receives
  <2>2. SameTodo
    BY <1>0, <1>5, TodoSame DEF Receives
  <2> QED BY <1>5, <2>1, <2>2 DEF Receives, Mail
<1>6. CASE PostsStop(c)
  <2>1. /\ SameReplies(c) \/ \E n : NewReply(c, StopMessage, n)
        /\ \A d \in Clients : d # c => SameReplies(d)
    <3>1. CASE reply_mq' = reply_mq
      BY <3>1 DEF SameReplies
    <3>2. CASE reply_mq' = [reply_mq EXCEPT ![c] = Append(@, StopMessage)]
      BY <3>2, RepliesAppended
    <3> QED BY <1>6, <3>1, <3>2 DEF PostsStop
  <2>2. SameTodo
    BY <1>0, <1>6, TodoSame DEF PostsStop
  <2> QED BY <1>6, <2>1, <2>2 DEF PostsStop, Mail, NotOpened
<1>7. CASE Moves(c)
  <2>1. SameTodo
    BY <1>0, <1>7, TodoSame DEF Moves
  <2>2. pc'[c] \in NotOpened => pc[c] \in NotOpened
    BY <1>7 DEF Moves, NotOpened
  <2>3. \/ volume_'[c] = volume_[c]
        \/ pc[c] = "granted" /\ volume_'[c] = reply_msg_[c].volume
    BY <1>7 DEF Moves
  <2> QED BY <1>7, <2>1, <2>2, <2>3 DEF Moves, Mail, SameReplies
<1>8. ASSUME UNCHANGED <<queueVars, volume_, reply_msg_>>, pc'[c] \notin NotOpened PROVE Mail(c)
  <2>1. SameTodo
    BY <1>0, <1>8, TodoSame DEF queueVars
  <2> QED BY <1>8, <2>1 DEF queueVars, Mail, SameReplies
<1>9. CASE Perished(c)
  <2>1. SameTodo
    BY <1>0, <1>9, TodoSame DEF Perished, queueVars
  <2>2. pc'[c] \notin NotOpened
    BY <1>9 DEF Perished, Dead, NotOpened
  <2> QED BY <1>9, <2>1, <2>2 DEF Perished, queueVars, Mail, SameReplies
<1>10. ASSUME NEW a \in Acbs, NEW x, NEW y, NEW m, CompletesAcb(c, a, x, y, m) PROVE Mail(c)
  <2>1. ClientShape(c) /\ x # Null
    BY <1>10 DEF Shape, CompletesAcb
  <2>2. pc'[c] \notin NotOpened
    BY <1>10, <2>1 DEF CompletesAcb, ClientShape, Calling, NotOpened
  <2> QED BY <1>8, <1>10, <2>2 DEF CompletesAcb
<1>11. ASSUME NEW a \in Acbs, NEW x, NEW y, YieldsAcb(c, a, x, y) PROVE Mail(c)
  BY <1>8, <1>11 DEF YieldsAcb, NotOpened
<1>12. ASSUME NEW a \in Acbs, Frees(c, a) PROVE Mail(c)
  BY <1>8, <1>12 DEF Frees, NotOpened
<1>13. ASSUME NEW a \in Acbs, NEW x, Starts(c, a, x) PROVE Mail(c)
  BY <1>8, <1>13 DEF Starts, NotOpened
<1> QED BY <1>2, <1>3, <1>4, <1>5, <1>6, <1>7, <1>9, <1>10, <1>11, <1>12, <1>13, ClientKinds

\* A step of a client gives no pointer to anyone who has not got it.
LEMMA HoldsClient ==
  ASSUME Shape, PtrInv, NEW c \in Clients, ClientStep(c),
         NEW d \in Clients, NEW w \in Clients, Holds(d, w)'
  PROVE  Holds(d, w)
<1>1. Mail(c) /\ Others(c)
  BY ClientMail, ShapeClient
<1>2. w # Null /\ StopMessage.type # "REQ_OPEN"
  BY SharedMemAssumption DEF StopMessage
<1>3. CASE volume_'[d] = w
  <2>1. CASE d = c /\ pc[c] = "granted" /\ volume_'[c] = reply_msg_[c].volume
    <3>1. reply_msg_[c] \in Reply
      BY <2>1 DEF Shape, ClientShape, Answered
    <3>2. reply_msg_[c] # Null /\ reply_msg_[c].type = "REQ_OPEN"
      BY <2>1, <3>1, ClientASyncAssumption DEF PtrInv, OpenOnly, NotUsing, Opening, Reading
    <3> QED BY <1>3, <2>1, <3>2 DEF Holds
  <2> QED BY <1>1, <1>2, <1>3, <2>1 DEF Mail, Others, Holds
<1>4. CASE reply_msg_'[d] # Null /\ reply_msg_'[d].type = "REQ_OPEN" /\ reply_msg_'[d].volume = w
  <2>1. CASE reply_msg_'[d] = reply_msg_[d]
    BY <1>4, <2>1 DEF Holds
  <2>2. CASE reply_msg_'[d] # reply_msg_[d]
    <3>1. d = c /\ \E r, n : TakenReply(c, r, n) /\ reply_msg_'[c] = r
      BY <1>1, <1>4, <2>2 DEF Mail, Others
    <3>2. PICK n : TakenReply(c, reply_msg_'[c], n)
      BY <3>1
    <3>3. 1 \in 1 .. Len(reply_mq[c]) /\ reply_mq[c][1] = reply_msg_'[c]
      BY <3>2 DEF TakenReply
    <3> QED BY <1>4, <3>1, <3>3 DEF Holds
  <2> QED BY <2>1, <2>2
<1>5. ASSUME NEW i \in 1 .. Len(reply_mq'[d]), reply_mq'[d][i].type = "REQ_OPEN", reply_mq'[d][i].volume = w
      PROVE  Holds(d, w)
  <2>1. CASE SameReplies(d)
    BY <1>5, <2>1 DEF SameReplies, Holds
  <2>2. CASE d = c /\ \E n : NewReply(c, StopMessage, n)
    <3>1. PICK n : NewReply(c, StopMessage, n)
      BY <2>2
    <3>2. i \in 1 .. (n - 1) \/ i = n
      BY <1>5, <2>2, <3>1 DEF NewReply
    <3>3. i \in 1 .. Len(reply_mq[c]) /\ reply_mq[c][i] = reply_mq'[c][i]
      BY <1>2, <1>5, <2>2, <3>1, <3>2 DEF NewReply
    <3> QED BY <1>5, <2>2, <3>3 DEF Holds
  <2>3. CASE d = c /\ \E r, n : TakenReply(c, r, n)
    <3>1. PICK r, n : TakenReply(c, r, n)
      BY <2>3
    <3>2. i + 1 \in 1 .. Len(reply_mq[c]) /\ reply_mq'[c][i] = reply_mq[c][i + 1]
      BY <1>5, <2>3, <3>1 DEF TakenReply
    <3> QED BY <1>5, <2>3, <3>2 DEF Holds
  <2> QED BY <1>1, <2>1, <2>2, <2>3 DEF Mail
<1>6. ASSUME NEW i \in Todo', Pending'[i].from = d, Pending'[i].volume = w PROVE Holds(d, w)
  <2>1. CASE SameTodo
    BY <1>6, <2>1 DEF SameTodo, Holds
  <2>2. CASE \E m, n : NewTodo(m, n) /\ Sent(c, m)
    <3>1. PICK m, n : NewTodo(m, n) /\ Sent(c, m)
      BY <2>2
    <3>2. i \in Todo \/ i = n
      BY <1>6, <3>1 DEF NewTodo
    <3>3. CASE i \in Todo
      BY <1>6, <3>1, <3>3 DEF NewTodo, Holds
    <3>4. CASE i = n
      BY <1>2, <1>6, <3>1, <3>4 DEF NewTodo, Sent, Holds
    <3> QED BY <3>2, <3>3, <3>4
  <2> QED BY <1>1, <2>1, <2>2 DEF Mail
<1> QED BY <1>3, <1>4, <1>5, <1>6 DEF Holds

\* How a client gets to where it does not use its volume yet.
LEMMA EarlyKinds ==
  ASSUME Shape, NEW c \in Clients, ClientStep(c), pc'[c] \in NotUsing
  PROVE  /\ pc[c] \in NotUsing
         /\ \/ \E m : PostsCall(c, m) /\ m.type = "REQ_OPEN"
            \/ \E m : Receives(c, m)
            \/ Moves(c)
<1>0. pc'[c] \notin Dead \cup Calling
  BY DEF NotUsing, NotOpened, Opening, Reading, Dead, Calling
<1>1. ASSUME NEW m, PostsCall(c, m) PROVE pc[c] \in NotUsing /\ m.type = "REQ_OPEN"
  BY <1>0, <1>1 DEF PostsCall, NotUsing, NotOpened, Opening, Reading, Calling
<1>2. ASSUME NEW a \in Acbs, NEW x, NEW y, NEW m, PostsRequest(c, a, x, m) \/ PostsWrite(c, a, x, y, m) PROVE FALSE
  BY <1>0, <1>2 DEF PostsRequest, PostsWrite, WritesAcb, Calling
<1>3. ASSUME NEW m, Receives(c, m) PROVE pc[c] \in NotUsing
  BY <1>3 DEF Receives
<1>4. ~PostsStop(c) /\ ~Perished(c)
  BY <1>0 DEF PostsStop, Perished, NotUsing, NotOpened, Opening, Reading
<1>5. ASSUME Moves(c) PROVE pc[c] \in NotUsing
  BY <1>0, <1>5 DEF Moves, NotUsing, NotOpened, Opening, Reading, Calling
<1>6. ASSUME NEW a \in Acbs, NEW x, NEW y, NEW m, CompletesAcb(c, a, x, y, m) PROVE FALSE
  BY <1>0, <1>6 DEF CompletesAcb, Shape, ClientShape
<1>7. ASSUME NEW a \in Acbs, NEW x, NEW y, YieldsAcb(c, a, x, y) \/ Frees(c, a) \/ Starts(c, a, x) PROVE FALSE
  BY <1>0, <1>7 DEF YieldsAcb, Frees, Starts, Calling
<1> QED BY <1>1, <1>2, <1>3, <1>4, <1>5, <1>6, <1>7, ClientKinds

\* Who has not opened its volume has no message but about that.
LEMMA OpenOnlyClient ==
  ASSUME Shape, NEW c \in Clients, ClientStep(c), NEW d \in Clients, OpenOnly(d)
  PROVE  OpenOnly(d)'
<1> SUFFICES ASSUME pc'[d] \in NotUsing PROVE OpenOnly(d)'
  BY DEF OpenOnly
<1>0. Mail(c) /\ Others(c)
  BY ClientMail, ShapeClient
<1>1. ASSUME pc[d] \in NotUsing, NEW i \in Todo', Pending'[i].from = d PROVE Pending'[i].type = "REQ_OPEN"
  <2>1. CASE i \in Todo /\ Pending'[i] = Pending[i]
    BY <1>1, <2>1 DEF OpenOnly
  <2>2. ASSUME NEW m, NEW n, NewTodo(m, n), Sent(c, m), i \notin Todo PROVE Pending'[i].type = "REQ_OPEN"
    <3>1. Pending'[i] = m
      BY <2>2 DEF NewTodo
    <3> QED BY <1>1, <2>2, <3>1 DEF Sent, NotUsing, NotOpened, Opening, Reading
  <2> QED BY <1>0, <2>1, <2>2 DEF Mail, SameTodo, NewTodo
<1>2. CASE d # c
  <2>1. pc'[d] = pc[d] /\ reply_msg_'[d] = reply_msg_[d] /\ Places(d)' = Places(d) /\ reply_mq'[d] = reply_mq[d]
    BY <1>0, <1>2 DEF Others, Mail, SameReplies, Places
  <2> QED BY <1>1, <2>1 DEF OpenOnly
<1>3. CASE d = c
  <2>1. pc[c] \in NotUsing
    BY <1>3, EarlyKinds
  <2>2. ASSUME UNCHANGED <<reply_mq, reply_msg_>> PROVE OpenOnly(c)'
    <3>1. Places(c)' = Places(c)
      BY <2>2 DEF Places
    <3> QED BY <1>1, <1>3, <2>1, <2>2, <3>1 DEF OpenOnly
  <2>3. ASSUME NEW m, Receives(c, m) PROVE OpenOnly(c)'
    <3>1. PICK n : TakenReply(c, m, n)
      BY <2>3, RepliesTaken DEF Receives
    <3>2. m.type = "REQ_OPEN" /\ reply_msg_'[c] = m
      <4>1. 1 \in Places(c) /\ reply_mq[c][1] = m
        BY <3>1 DEF TakenReply, Places
      <4> QED BY <1>3, <2>1, <2>3, <4>1 DEF OpenOnly, Receives
    <3>3. \A i \in Places(c)' : i + 1 \in Places(c) /\ reply_mq'[c][i] = reply_mq[c][i + 1]
      BY <3>1 DEF TakenReply, Places
    <3> QED BY <1>1, <1>3, <2>1, <3>2, <3>3 DEF OpenOnly
  <2> QED BY <1>3, <2>2, <2>3, EarlyKinds DEF PostsCall, Posts, Moves
<1> QED BY <1>2, <1>3

LEMMA PtrClient == ASSUME Shape, PtrInv, NEW c \in Clients, ClientStep(c) PROVE PtrInv'
<1>1. Mail(c) /\ Others(c) /\ vols' = vols
  BY ClientMail, ShapeClient DEF ClientStep, serverVars
<1>2. \A v \in Volumes : reply_name'[v] # Null => VolumeOf[reply_name'[v]] = v
  BY <1>1 DEF Mail, PtrInv
<1>3. SameTodo \/ \E m, n : NewTodo(m, n) /\ Sent(c, m)
  BY <1>1 DEF Mail
<1>4. ASSUME NEW i \in Todo' PROVE Addressed(Pending'[i])
  <2>1. CASE SameTodo
    BY <2>1 DEF SameTodo, PtrInv
  <2>2. ASSUME NEW m, NEW n, NewTodo(m, n), Sent(c, m) PROVE Addressed(Pending'[i])
    <3>1. i \in Todo \/ i = n
      BY <2>2 DEF NewTodo
    <3> QED BY <2>2, <3>1 DEF NewTodo, Sent, PtrInv, Addressed
  <2> QED BY <1>3, <2>1, <2>2
<1>5. ASSUME NEW w \in Clients PROVE Pointer(w)'
  <2>1. Pointer(w)
    BY DEF PtrInv
  <2>2. Fresh(w) => Fresh(w)'
    BY <1>1, HoldsClient DEF Fresh
  <2>3. \A d \in Clients : Holds(d, w)' /\ vols'[w] # Null => vols'[w] = [file |-> VolumeOf[d], reply_mq |-> d]
    BY <1>1, <2>1, HoldsClient DEF Pointer
  <2>4. pc'[w] \in NotOpened => pc[w] \in NotOpened
    BY <1>1 DEF Mail, Others
  <2>5. /\ pc'[w] \in NotOpened => Fresh(w)' /\ \A i \in Todo' : ~Opens(w, i)'
        /\ \A i \in Todo' : Opens(w, i)' => Fresh(w)' /\ \A j \in Todo' : Opens(w, j)' => j = i
    <3>1. CASE SameTodo
      BY <2>1, <2>2, <2>4, <3>1 DEF SameTodo, Pointer, Opens
    <3>2. ASSUME NEW m, NEW n, NewTodo(m, n), Sent(c, m)
          PROVE  /\ pc'[w] \in NotOpened => Fresh(w)' /\ \A i \in Todo' : ~Opens(w, i)'
                 /\ \A i \in Todo' : Opens(w, i)' => Fresh(w)' /\ \A j \in Todo' : Opens(w, j)' => j = i
      <4>1. /\ \A i \in Todo' : i \in Todo \/ i = n
            /\ \A i \in Todo : Opens(w, i)' = Opens(w, i)
        BY <3>2 DEF NewTodo, Opens
      <4>2. Opens(w, n)' => w = c /\ pc[c] = "open" /\ pc'[c] = "before_wait"
        BY <3>2 DEF NewTodo, Sent, Opens
      <4>3. CASE ~Opens(w, n)'
        BY <2>1, <2>2, <2>4, <4>1, <4>3 DEF Pointer
      <4>4. CASE Opens(w, n)'
        <5>1. pc[w] \in NotOpened /\ pc'[w] \notin NotOpened
          BY <4>2, <4>4 DEF NotOpened
        <5>2. Fresh(w)' /\ \A i \in Todo : ~Opens(w, i)
          BY <2>1, <2>2, <5>1 DEF Pointer
        <5> QED BY <4>1, <5>1, <5>2
      <4> QED BY <4>3, <4>4
    <3> QED BY <1>3, <3>1, <3>2
  <2> QED BY <2>3, <2>5 DEF Pointer
<1>6. \A d \in Clients : OpenOnly(d)'
  BY OpenOnlyClient DEF PtrInv
<1> QED BY <1>2, <1>4, <1>5, <1>6 DEF PtrInv

\* A step of the server gives a pointer only where it answers an OPEN.
LEMMA HoldsTaken ==
  ASSUME Shape, NEW m, Takes(m), UNCHANGED clientVars,
         NEW d \in Clients, NEW w \in Clients, Holds(d, w)', SameReplies(d)
  PROVE  Holds(d, w)
<1>1. PICK n : DoneTodo(m, n)
  BY TodoTakes
<1>2. ASSUME NEW i \in Todo', Pending'[i].from = d, Pending'[i].volume = w PROVE Holds(d, w)
  BY <1>1, <1>2 DEF DoneTodo, Holds
<1>3. CASE volume_'[d] = w
  BY <1>3 DEF Holds, clientVars
<1>4. CASE reply_msg_'[d] # Null /\ reply_msg_'[d].type = "REQ_OPEN" /\ reply_msg_'[d].volume = w
  BY <1>4 DEF Holds, clientVars
<1>5. CASE \E i \in 1 .. Len(reply_mq'[d]) : reply_mq'[d][i].type = "REQ_OPEN" /\ reply_mq'[d][i].volume = w
  BY <1>5 DEF Holds, SameReplies
<1> QED BY <1>2, <1>3, <1>4, <1>5 DEF Holds

LEMMA HoldsAnswered ==
  ASSUME Shape, NEW m, Takes(m), UNCHANGED clientVars,
         NEW d \in Clients, NEW w \in Clients, Holds(d, w)', NEW r, NEW k, NewReply(d, r, k)
  PROVE  Holds(d, w) \/ (r.type = "REQ_OPEN" /\ r.volume = w)
<1>1. PICK n : DoneTodo(m, n)
  BY TodoTakes
<1>2. ASSUME NEW i \in Todo', Pending'[i].from = d, Pending'[i].volume = w PROVE Holds(d, w)
  BY <1>1, <1>2 DEF DoneTodo, Holds
<1>3. CASE volume_'[d] = w
  BY <1>3 DEF Holds, clientVars
<1>4. CASE reply_msg_'[d] # Null /\ reply_msg_'[d].type = "REQ_OPEN" /\ reply_msg_'[d].volume = w
  BY <1>4 DEF Holds, clientVars
<1>5. ASSUME NEW i \in 1 .. Len(reply_mq'[d]), reply_mq'[d][i].type = "REQ_OPEN", reply_mq'[d][i].volume = w
      PROVE  Holds(d, w) \/ (r.type = "REQ_OPEN" /\ r.volume = w)
  <2>1. i = k \/ i \in 1 .. (k - 1)
    BY <1>5 DEF NewReply
  <2> QED BY <1>5, <2>1 DEF NewReply, Holds
<1> QED BY <1>2, <1>3, <1>4, <1>5 DEF Holds

\* The places of the requests move up by one.
LEMMA PointerTaken ==
  ASSUME Shape, PtrInv, NEW m, Takes(m), pc' = pc, NEW w \in Clients,
         Fresh(w) /\ ~(m.from = w /\ m.type = "REQ_OPEN") => Fresh(w)',
         \A d \in Clients : Holds(d, w)' /\ vols'[w] # Null => vols'[w] = [file |-> VolumeOf[d], reply_mq |-> d]
  PROVE  Pointer(w)'
<1>1. PICK n : DoneTodo(m, n)
  BY TodoTakes
<1>2. Pointer(w) /\ 1 \in Todo
  BY <1>1 DEF PtrInv, DoneTodo
<1>3. \A i \in Todo' : i \in Int /\ i + 1 \in Todo /\ i + 1 # 1 /\ Opens(w, i)' = Opens(w, i + 1)
  BY <1>1 DEF DoneTodo, Opens
<1>4. Opens(w, 1) <=> m.from = w /\ m.type = "REQ_OPEN"
  BY <1>1 DEF DoneTodo, Opens
<1>5. pc'[w] \in NotOpened => Fresh(w)' /\ \A i \in Todo' : ~Opens(w, i)'
  BY <1>2, <1>3, <1>4 DEF Pointer
<1>6. ASSUME NEW i \in Todo', Opens(w, i)' PROVE Fresh(w)' /\ \A j \in Todo' : Opens(w, j)' => j = i
  <2>1. Fresh(w) /\ ~Opens(w, 1) /\ \A j \in Todo : Opens(w, j) => j = i + 1
    BY <1>2, <1>3, <1>6 DEF Pointer
  <2>2. \A j \in Todo' : Opens(w, j)' => j = i
    BY <1>3, <2>1
  <2> QED BY <1>4, <2>1, <2>2
<1> QED BY <1>5, <1>6 DEF Pointer

\* A turn of the server: the places of the requests move up by one.
LEMMA TakenPlaces ==
  ASSUME NEW m, Takes(m)
  PROVE  /\ 1 \in Todo /\ Pending[1] = m
         /\ \A i \in Todo' : i \in Int /\ i + 1 \in Todo /\ i + 1 # 1 /\ Pending'[i] = Pending[i + 1]
<1>1. PICK n : DoneTodo(m, n)
  BY TodoTakes
<1> QED BY <1>1 DEF DoneTodo

\* So a request finds the volume of its sender, and the answer finds its sender.
LEMMA GoesHome ==
  ASSUME Shape, PtrInv, NEW m, Takes(m), NEW w \in Clients, m.volume = w, vols[w] # Null
  PROVE  /\ m.from \in Clients /\ m.name = VolumeOf[m.from]
         /\ vols[w].file = m.name /\ vols[w].reply_mq = m.from
<1>1. PICK n : DoneTodo(m, n)
  BY TodoTakes
<1>2. 1 \in Todo /\ Pending[1] = m
  BY <1>1 DEF DoneTodo
<1>3. m.from \in Clients /\ m.name = VolumeOf[m.from]
  BY <1>2 DEF PtrInv, Addressed, Request
<1>4. Holds(m.from, w)
  BY <1>2 DEF Holds
<1>5. vols[w] = [file |-> VolumeOf[m.from], reply_mq |-> m.from]
  BY <1>3, <1>4 DEF PtrInv, Pointer
<1> QED BY <1>3, <1>5

LEMMA OpenOnlyServer ==
  ASSUME Shape, PtrInv, ServerStep, NEW d \in Clients
  PROVE  OpenOnly(d)'
<1>0. pc' = pc /\ reply_msg_' = reply_msg_
  BY DEF ServerStep, clientVars
<1> SUFFICES ASSUME pc[d] \in NotUsing PROVE OpenOnly(d)'
  BY <1>0 DEF OpenOnly, NotUsing, Opening, Reading
<1>1. OpenOnly(d)
  BY DEF PtrInv
<1>2. ASSUME NEW i \in Todo', Pending'[i].from = d PROVE Pending'[i].type = "REQ_OPEN"
  <2>1. PICK m : Takes(m)
    BY <1>2, TodoGone, ServerKinds DEF TakesOpen, TakesCall, TakesQuietly
  <2>2. i + 1 \in Todo /\ Pending'[i] = Pending[i + 1]
    BY <2>1, TakenPlaces
  <2> QED BY <1>1, <1>2, <2>2 DEF OpenOnly
<1>3. ASSUME SameReplies(d) PROVE OpenOnly(d)'
  <2>1. Places(d)' = Places(d) /\ reply_mq'[d] = reply_mq[d]
    BY <1>3 DEF SameReplies, Places
  <2> QED BY <1>0, <1>1, <1>2, <2>1 DEF OpenOnly
<1>4. ASSUME NEW r, NEW n, NewReply(d, r, n), r.type = "REQ_OPEN" PROVE OpenOnly(d)'
  <2>1. \A i \in Places(d)' : reply_mq'[d][i] = r \/ (i \in Places(d) /\ reply_mq'[d][i] = reply_mq[d][i])
    BY <1>4 DEF NewReply, Places
  <2> QED BY <1>0, <1>1, <1>2, <1>4, <2>1 DEF OpenOnly
<1>5. CASE Stopped \/ Started \/ \E m : TakesQuietly(m)
  BY <1>3, <1>5 DEF Stopped, Started, TakesQuietly, SameReplies
<1>6. ASSUME NEW m, NEW e, NEW r, TakesOpen(m, e, r) PROVE OpenOnly(d)'
  <2>1. r.type = "REQ_OPEN" /\ e \in Clients
    BY <1>6 DEF TakesOpen
  <2>2. (\E n : NewReply(e, r, n)) /\ \A h \in Clients : h # e => SameReplies(h)
    BY <1>6, <2>1, RepliesAppended DEF TakesOpen
  <2> QED BY <1>3, <1>4, <2>1, <2>2
<1>7. ASSUME NEW m, NEW w, NEW r, TakesCall(m, w, r) PROVE OpenOnly(d)'
  <2>1. Takes(m) /\ w \in Clients /\ vols[w] # Null /\ m.volume = w /\ m.type # "REQ_OPEN"
    BY <1>7 DEF TakesCall
  <2>2. vols[w].reply_mq = m.from /\ m.from \in Clients
    BY <2>1, GoesHome
  <2>3. m.from # d
    <3>1. 1 \in Todo /\ Pending[1] = m
      BY <2>1, TakenPlaces
    <3> QED BY <1>1, <2>1, <3>1 DEF OpenOnly
  <2>4. SameReplies(d)
    BY <1>7, <2>2, <2>3, RepliesAppended DEF TakesCall
  <2> QED BY <1>3, <2>4
<1> QED BY <1>5, <1>6, <1>7, ServerKinds

LEMMA PtrServer == ASSUME Shape, PtrInv, ServerStep PROVE PtrInv'
<1>0. UNCHANGED clientVars /\ pc' = pc
  BY DEF ServerStep, clientVars
<1>7. \A d \in Clients : OpenOnly(d)'
  BY OpenOnlyServer
<1>1. CASE Stopped \/ Started
  <2>1. Todo' = {} /\ reply_mq' = reply_mq /\ reply_name' = reply_name
    BY <1>1, TodoGone DEF Stopped, Started
  <2>2. \A w \in Clients : vols'[w] = vols[w] \/ vols'[w] = Null
    BY <1>1 DEF Stopped, Started
  <2>3. ASSUME NEW d \in Clients, NEW w \in Clients, Holds(d, w)' PROVE Holds(d, w)
    BY <1>0, <2>1, <2>3 DEF Holds, clientVars
  <2>4. ASSUME NEW w \in Clients PROVE Pointer(w)'
    <3>1. Pointer(w) /\ (Fresh(w) => Fresh(w)')
      BY <2>2, <2>3 DEF PtrInv, Fresh
    <3> QED BY <1>0, <2>1, <2>2, <2>3, <3>1 DEF Pointer
  <2> QED BY <1>7, <2>1, <2>4 DEF PtrInv
<1>2. ASSUME NEW m, Takes(m)
      PROVE  /\ \A v \in Volumes : reply_name'[v] # Null => VolumeOf[reply_name'[v]] = v
             /\ \A i \in Todo' : Addressed(Pending'[i])
             /\ Addressed(m)
  <2>1. PICK n : DoneTodo(m, n)
    BY <1>2, TodoTakes
  <2>2. reply_name' = reply_name /\ 1 \in Todo /\ Pending[1] = m
    BY <1>2, <2>1 DEF DoneTodo, Takes
  <2>3. \A i \in Todo' : i + 1 \in Todo /\ Pending'[i] = Pending[i + 1]
    BY <2>1 DEF DoneTodo
  <2> QED BY <2>2, <2>3 DEF PtrInv
<1>3. ASSUME NEW m, NEW d, NEW r, TakesOpen(m, d, r) PROVE PtrInv'
  <2>1. Takes(m) /\ d \in Clients /\ m.from \in Clients /\ m.name \in Volumes
    BY <1>3 DEF TakesOpen, Takes, Request
  <2>2. (\E k : NewReply(d, r, k)) /\ \A e \in Clients : e # d => SameReplies(e)
    BY <1>3, <2>1, RepliesAppended DEF TakesOpen
  <2>3. r.type = "REQ_OPEN" /\ r.volume = m.from /\ VolumeOf[d] = m.name /\ m.type = "REQ_OPEN"
    BY <1>3, <2>1, SharedMemAssumption DEF TakesOpen, PtrInv
  <2>4. /\ \A w \in Clients : w # m.from => vols'[w] = vols[w]
        /\ vols'[m.from] = vols[m.from] \/ vols'[m.from] = [file |-> m.name, reply_mq |-> d]
    BY <1>3, <2>1 DEF TakesOpen, Shape, ServerTypeOK
  <2>5. Fresh(m.from)
    <3>1. PICK n : DoneTodo(m, n)
      BY <2>1, TodoTakes
    <3>2. 1 \in Todo /\ Opens(m.from, 1)
      BY <2>3, <3>1 DEF DoneTodo, Opens
    <3> QED BY <2>1, <3>2 DEF PtrInv, Pointer
  <2>6. ASSUME NEW e \in Clients, NEW w \in Clients, Holds(e, w)'
        PROVE  Holds(e, w) \/ (e = d /\ w = m.from)
    <3>1. CASE e = d
      BY <1>0, <2>1, <2>2, <2>3, <2>6, <3>1, HoldsAnswered
    <3>2. CASE e # d
      BY <1>0, <2>1, <2>2, <2>6, <3>2, HoldsTaken
    <3> QED BY <3>1, <3>2
  <2>7. ASSUME NEW w \in Clients PROVE Pointer(w)'
    <3>1. Fresh(w) /\ ~(m.from = w /\ m.type = "REQ_OPEN") => Fresh(w)'
      BY <2>3, <2>4, <2>6 DEF Fresh
    <3>2. ASSUME NEW e \in Clients, Holds(e, w)', vols'[w] # Null
          PROVE  vols'[w] = [file |-> VolumeOf[e], reply_mq |-> e]
      <4>1. CASE w = m.from
        <5>1. ~Holds(e, w) /\ vols[w] = Null
          BY <2>5, <4>1 DEF Fresh
        <5> QED BY <2>3, <2>4, <2>6, <3>2, <4>1, <5>1
      <4>2. CASE w # m.from
        BY <2>4, <2>6, <3>2, <4>2 DEF PtrInv, Pointer
      <4> QED BY <4>1, <4>2
    <3> QED BY <1>0, <2>1, <3>1, <3>2, PointerTaken
  <2> QED BY <1>2, <1>7, <2>1, <2>7 DEF PtrInv
<1>4. ASSUME NEW m, Takes(m), m.type # "REQ_OPEN" \/ vols' = vols,
             \A w \in Clients : vols'[w] = vols[w] \/ vols'[w] = Null,
             \A e \in Clients : SameReplies(e) \/ \E r, k : NewReply(e, r, k) /\ r.type # "REQ_OPEN"
      PROVE  PtrInv'
  <2>1. ASSUME NEW e \in Clients, NEW w \in Clients, Holds(e, w)' PROVE Holds(e, w)
    BY <1>0, <1>4, <2>1, HoldsTaken, HoldsAnswered
  <2>2. ASSUME NEW w \in Clients PROVE Pointer(w)'
    <3>1. Fresh(w) => Fresh(w)'
      BY <1>4, <2>1 DEF Fresh
    <3>2. \A d \in Clients : Holds(d, w)' /\ vols'[w] # Null => vols'[w] = [file |-> VolumeOf[d], reply_mq |-> d]
      BY <1>4, <2>1 DEF PtrInv, Pointer
    <3> QED BY <1>0, <1>4, <3>1, <3>2, PointerTaken
  <2> QED BY <1>2, <1>4, <1>7, <2>2 DEF PtrInv
<1>5. ASSUME NEW m, NEW w, NEW r, TakesCall(m, w, r) PROVE PtrInv'
  <2>1. Takes(m) /\ r.type # "REQ_OPEN" /\ vols' = vols
    BY <1>5 DEF TakesCall
  <2>2. PICK d \in Clients : d = vols[w].reply_mq
    BY <1>5 DEF TakesCall, Shape, ServerTypeOK, VolumeState
  <2>3. (\E k : NewReply(d, r, k)) /\ \A e \in Clients : e # d => SameReplies(e)
    BY <1>5, <2>2, RepliesAppended DEF TakesCall
  <2> QED BY <1>4, <2>1, <2>3
<1>6. ASSUME NEW m, TakesQuietly(m) PROVE PtrInv'
  <2>1. Takes(m) /\ \A e \in Clients : SameReplies(e)
    BY <1>6 DEF TakesQuietly, SameReplies
  <2>2. \A w \in Clients : vols'[w] = vols[w] \/ vols'[w] = Null
    BY <1>6 DEF TakesQuietly
  <2>3. m.type # "REQ_OPEN" \/ vols' = vols
    BY <1>6 DEF TakesQuietly
  <2> QED BY <1>4, <2>1, <2>2, <2>3
<1> QED BY <1>1, <1>3, <1>5, <1>6, ServerKinds

LEMMA PtrNext == ASSUME Shape, PtrInv, [Next]_vars PROVE PtrInv'
<1>1. CASE Next
  BY <1>1, PtrClient, PtrServer DEF Next
<1>2. CASE UNCHANGED vars
  BY <1>2 DEF vars, queueVars, serverVars, clientVars, PtrInv, Pointer, Fresh, Holds, Opens,
     Todo, Pending, OpenOnly, Places
<1> QED BY <1>1, <1>2

-------------------------------------------------------------------------------
(***************************************************************************)
(* Completions.  A CVBDAIOCB waits when the reply thread may be told of    *)
(* it: it is allocated, no bottom half is scheduled, and its coroutine is  *)
(* past the point where it sends its request.  Each message that will be   *)
(* handled as a completion is about a CVBDAIOCB that waits, and no two are *)
(* about the same.                                                         *)
(***************************************************************************)
Waiting(c, a) ==
  acbs[c][a] # Null /\ ~acbs[c][a].bh /\ ~(pc[c] = "sending" /\ Running(c, a))

About(c, m) == m.acb \in Acbs /\ Waiting(c, m.acb) /\ acbs[c][m.acb].type = m.type

Asks(c, i) == Pending[i].from = c /\ Completes(Pending[i])
Answers(c, i) == Completes(reply_mq[c][i])
Tells(c) == thr[c] = "handle" /\ Completes(reply_msg_[c])

Unsent(c) == \A a \in Acbs : pc[c] = "sending" /\ Running(c, a) => ~acbs[c][a].bh

AllLive(c) ==
  /\ \A i \in Todo : Asks(c, i) => About(c, Pending[i])
  /\ \A i \in Places(c) : Answers(c, i) => About(c, reply_mq[c][i])
  /\ Tells(c) => About(c, reply_msg_[c])

AllDistinct(c) ==
  /\ \A i, j \in Todo : Asks(c, i) /\ Asks(c, j) /\ Pending[i].acb = Pending[j].acb => i = j
  /\ \A i, j \in Places(c) :
       Answers(c, i) /\ Answers(c, j) /\ reply_mq[c][i].acb = reply_mq[c][j].acb => i = j
  /\ \A i \in Todo, j \in Places(c) : Asks(c, i) /\ Answers(c, j) => Pending[i].acb # reply_mq[c][j].acb
  /\ \A i \in Todo : Asks(c, i) /\ Tells(c) => Pending[i].acb # reply_msg_[c].acb
  /\ \A i \in Places(c) : Answers(c, i) /\ Tells(c) => reply_mq[c][i].acb # reply_msg_[c].acb

Flight(c) == pc[c] \notin Dead => Unsent(c) /\ AllLive(c) /\ AllDistinct(c)

AcbInv == \A c \in Clients : Flight(c)

LEMMA AcbInit == Init => AcbInv
<1> SUFFICES ASSUME Init, NEW c \in Clients PROVE Flight(c)
  BY DEF AcbInv
<1>1. Todo = {} /\ thr[c] = "none" /\ pc[c] = "none" /\ reply_mq[c] = << >>
  BY DEF Init, ServerInit, ClientInit, QueuesInit, Todo
<1>2. Len(<< >>) = 0
  OBVIOUS
<1>3. Places(c) = 1 .. 0
  BY <1>1, <1>2 DEF Places
<1> QED BY <1>1, <1>3 DEF Flight, Unsent, AllLive, AllDistinct, Tells

\* No reply is added, or one that is no completion.
NoNewAnswer(c) == SameReplies(c) \/ \E r, n : NewReply(c, r, n) /\ ~Completes(r)

LEMMA OldAnswers ==
  ASSUME NEW c \in Clients, NoNewAnswer(c)
  PROVE  \A i \in Places(c)' : Answers(c, i)' =>
           i \in Places(c) /\ Answers(c, i) /\ reply_mq'[c][i] = reply_mq[c][i]
<1>1. CASE SameReplies(c)
  BY <1>1 DEF SameReplies, Places, Answers
<1>2. ASSUME NEW r, NEW n, NewReply(c, r, n), ~Completes(r)
      PROVE  \A i \in Places(c)' : Answers(c, i)' =>
               i \in Places(c) /\ Answers(c, i) /\ reply_mq'[c][i] = reply_mq[c][i]
  <2>1. \A i \in Places(c)' : i \in Places(c) \/ i = n
    BY <1>2 DEF NewReply, Places
  <2>2. ~Answers(c, n)' /\ \A i \in Places(c) : reply_mq'[c][i] = reply_mq[c][i]
    BY <1>2 DEF NewReply, Places, Answers
  <2> QED BY <2>1, <2>2 DEF Answers
<1> QED BY <1>1, <1>2 DEF NoNewAnswer

\* Steps that add no message: what waits goes on waiting.
LEMMA FlightFrame ==
  ASSUME Shape, NEW c \in Clients, Flight(c), pc[c] \notin Dead,
         \A i \in Todo' : Asks(c, i)' => i \in Todo /\ Asks(c, i) /\ Pending'[i] = Pending[i],
         NoNewAnswer(c),
         Tells(c)' => Tells(c) /\ reply_msg_'[c] = reply_msg_[c],
         Unsent(c)',
         \A a \in Acbs : Waiting(c, a) => Waiting(c, a)' /\ acbs'[c][a].type = acbs[c][a].type
  PROVE  Flight(c)'
<1>1. AllLive(c) /\ AllDistinct(c)
  BY DEF Flight
<1>2. \A i \in Places(c)' : Answers(c, i)' =>
        i \in Places(c) /\ Answers(c, i) /\ reply_mq'[c][i] = reply_mq[c][i]
  BY OldAnswers
<1>4. AllLive(c)'
  <2>1. \A i \in Todo' : Asks(c, i)' => About(c, Pending[i])' /\ Pending'[i] = Pending[i]
    BY <1>1 DEF AllLive, About
  <2>2. \A i \in Places(c)' : Answers(c, i)' => About(c, reply_mq[c][i])'
    BY <1>1, <1>2 DEF AllLive, About
  <2>3. Tells(c)' => About(c, reply_msg_[c])'
    BY <1>1 DEF AllLive, About
  <2> QED BY <2>1, <2>2, <2>3 DEF AllLive, About
<1>5. AllDistinct(c)'
  BY <1>1, <1>2 DEF AllDistinct
<1> QED BY <1>4, <1>5 DEF Flight

LEMMA FlightOther ==
  ASSUME Shape, AcbInv, NEW c \in Clients, ClientStep(c), NEW d \in Clients, d # c
  PROVE  Flight(d)'
<1>1. Mail(c) /\ Others(c)
  BY ClientMail, ShapeClient
<1>2. /\ pc'[d] = pc[d] /\ thr'[d] = thr[d] /\ reply_msg_'[d] = reply_msg_[d] /\ acbs'[d] = acbs[d]
      /\ SameReplies(d)
  BY <1>1 DEF Others, Mail
<1>3. CASE pc[d] \in Dead
  BY <1>2, <1>3 DEF Flight
<1>4. CASE pc[d] \notin Dead
  <2>1. \A i \in Todo' : Asks(d, i)' => i \in Todo /\ Asks(d, i) /\ Pending'[i] = Pending[i]
    <3>1. CASE SameTodo
      BY <3>1 DEF SameTodo, Asks
    <3>2. ASSUME NEW m, NEW n, NewTodo(m, n), Sent(c, m)
          PROVE  \A i \in Todo' : Asks(d, i)' => i \in Todo /\ Asks(d, i) /\ Pending'[i] = Pending[i]
      <4>1. \A i \in Todo' : i \in Todo \/ i = n
        BY <3>2 DEF NewTodo
      <4> QED BY <3>2, <4>1 DEF NewTodo, Sent, Asks
    <3> QED BY <1>1, <3>1, <3>2 DEF Mail
  <2>2. Flight(d)
    BY DEF AcbInv
  <2>3. Tells(d)' => Tells(d) /\ reply_msg_'[d] = reply_msg_[d]
    BY <1>2 DEF Tells
  <2>4. Unsent(d)'
    BY <1>2, <1>4, <2>2 DEF Flight, Unsent, Running
  <2>5. \A a \in Acbs : Waiting(d, a) => Waiting(d, a)' /\ acbs'[d][a].type = acbs[d][a].type
    BY <1>2 DEF Waiting, Running
  <2> QED BY <1>2, <1>4, <2>1, <2>2, <2>3, <2>4, <2>5, FlightFrame DEF NoNewAnswer
<1> QED BY <1>3, <1>4

LEMMA NoNewAsk ==
  ASSUME NEW c \in Clients, SameTodo \/ \E m, n : NewTodo(m, n) /\ ~Completes(m)
  PROVE  \A i \in Todo' : Asks(c, i)' => i \in Todo /\ Asks(c, i) /\ Pending'[i] = Pending[i]
<1>1. CASE SameTodo
  BY <1>1 DEF SameTodo, Asks
<1>2. ASSUME NEW m, NEW n, NewTodo(m, n), ~Completes(m)
      PROVE  \A i \in Todo' : Asks(c, i)' => i \in Todo /\ Asks(c, i) /\ Pending'[i] = Pending[i]
  <2>1. \A i \in Todo' : i \in Todo \/ i = n
    BY <1>2 DEF NewTodo
  <2> QED BY <1>2, <2>1 DEF NewTodo, Asks
<1> QED BY <1>1, <1>2

\* Steps that leave the CVBDAIOCBs alone and ask for no completion.
LEMMA FlightMoves ==
  ASSUME Shape, AcbInv, NEW c \in Clients, pc[c] \notin Dead,
         SameTodo \/ \E m, n : NewTodo(m, n) /\ ~Completes(m),
         NoNewAnswer(c), acbs' = acbs,
         pc'[c] = "sending" => pc[c] = "sending",
         thr'[c] = "handle" => thr[c] = "handle" /\ reply_msg_'[c] = reply_msg_[c]
  PROVE  Flight(c)'
<1>1. Flight(c)
  BY DEF AcbInv
<1>2. Tells(c)' => Tells(c) /\ reply_msg_'[c] = reply_msg_[c]
  BY DEF Tells
<1>3. Unsent(c)'
  BY <1>1 DEF Flight, Unsent, Running
<1>4. \A a \in Acbs : Waiting(c, a) => Waiting(c, a)' /\ acbs'[c][a].type = acbs[c][a].type
  BY DEF Waiting, Running
<1> QED BY <1>1, <1>2, <1>3, <1>4, NoNewAsk, FlightFrame

\* Steps that set a CVBDAIOCB that does not wait, or go on waiting for it.
LEMMA FlightSets ==
  ASSUME Shape, AcbInv, NEW c \in Clients, pc[c] \notin Dead,
         SameTodo \/ \E m, n : NewTodo(m, n) /\ ~Completes(m),
         SameReplies(c), NEW a \in Acbs, NEW x, SetAcb(c, a, x),
         ~Waiting(c, a) \/ (x # Null /\ ~x.bh /\ x.type = acbs[c][a].type /\ pc'[c] # "sending"),
         pc'[c] = "sending" => x # Null /\ ~x.bh /\ \A b \in Acbs : ~Running(c, b),
         thr' = thr, reply_msg_' = reply_msg_
  PROVE  Flight(c)'
<1>1. Flight(c)
  BY DEF AcbInv
<1>2. acbs'[c][a] = x /\ \A b \in Acbs : b # a => acbs'[c][b] = acbs[c][b]
  BY DEF Shape, ClientTypes, SetAcb
<1>3. Tells(c)' => Tells(c) /\ reply_msg_'[c] = reply_msg_[c]
  BY DEF Tells
<1>4. Unsent(c)'
  BY <1>2 DEF Unsent, Running
<1>5. ASSUME NEW b \in Acbs, Waiting(c, b)
      PROVE  Waiting(c, b)' /\ acbs'[c][b].type = acbs[c][b].type
  <2>1. CASE b = a
    BY <1>2, <1>5, <2>1 DEF Waiting
  <2>2. CASE b # a
    BY <1>2, <1>5, <2>2 DEF Waiting, Running
  <2> QED BY <2>1, <2>2
<1> QED BY <1>1, <1>3, <1>4, <1>5, NoNewAsk, FlightFrame DEF NoNewAnswer

LEMMA FlightRequest ==
  ASSUME Shape, AcbInv, NEW c \in Clients, UNCHANGED serverVars,
         NEW a \in Acbs, NEW x, NEW m, PostsRequest(c, a, x, m)
  PROVE  Flight(c)'
<1>1. /\ Flight(c) /\ pc[c] \notin Dead /\ Running(c, a) /\ acbs' = acbs /\ pc'[c] = "submitted"
      /\ pc[c] = "sending" /\ x = acbs[c][a] /\ m.acb = a /\ m.type = x.type /\ m.from = c
      /\ thr' = thr /\ reply_msg_' = reply_msg_ /\ reply_mq' = reply_mq /\ Completes(m)
  BY DEF AcbInv, PostsRequest, Posts, Dead, Completes
<1>2. (~Served(c) /\ SameTodo) \/ (Served(c) /\ \E n : NewTodo(m, n))
  BY TodoPosts DEF PostsRequest
<1>3. CASE SameTodo
  BY <1>1, <1>3, FlightMoves DEF SameReplies, NoNewAnswer
<1>4. ASSUME NEW n, NewTodo(m, n) PROVE Flight(c)'
  <2>1. Unsent(c) /\ AllLive(c) /\ AllDistinct(c)
    BY <1>1 DEF Flight
  <2>2. ~Waiting(c, a) /\ Waiting(c, a)' /\ acbs'[c][a].type = m.type
    <3>1. ~acbs[c][a].bh
      BY <1>1, <2>1 DEF Unsent
    <3> QED BY <1>1, <3>1 DEF Waiting, Running
  <2>3. \A b \in Acbs : Waiting(c, b) => Waiting(c, b)' /\ acbs'[c][b].type = acbs[c][b].type
    BY <1>1 DEF Waiting, Running
  <2>4. /\ \A i \in Todo' : i \in Todo \/ i = n
        /\ \A i \in Todo : Asks(c, i)' = Asks(c, i) /\ Pending'[i] = Pending[i]
        /\ Pending'[n] = m
    BY <1>4 DEF NewTodo, Asks
  <2>5. /\ Places(c)' = Places(c) /\ \A i \in Places(c) : Answers(c, i)' = Answers(c, i)
        /\ Tells(c)' = Tells(c)
    BY <1>1 DEF Places, Answers, Tells
  <2>6. AllLive(c)'
    <3>1. ASSUME NEW i \in Todo', Asks(c, i)' PROVE About(c, Pending[i])'
      <4>1. CASE i \in Todo
        BY <2>1, <2>3, <2>4, <3>1, <4>1 DEF AllLive, About
      <4>2. CASE i = n
        BY <1>1, <2>2, <2>4, <4>2 DEF About
      <4> QED BY <2>4, <4>1, <4>2
    <3>2. \A i \in Places(c)' : Answers(c, i)' => About(c, reply_mq[c][i])'
      BY <1>1, <2>1, <2>3, <2>5 DEF AllLive, About
    <3>3. Tells(c)' => About(c, reply_msg_[c])'
      BY <1>1, <2>1, <2>3, <2>5 DEF AllLive, About
    <3> QED BY <3>1, <3>2, <3>3 DEF AllLive
  <2>7. /\ \A i \in Todo : Asks(c, i) => Pending[i].acb # a
        /\ \A i \in Places(c) : Answers(c, i) => reply_mq[c][i].acb # a
        /\ Tells(c) => reply_msg_[c].acb # a
    BY <2>1, <2>2 DEF AllLive, About
  <2>8. AllDistinct(c)'
    <3>1. /\ \A i, j \in Todo' : Asks(c, i)' /\ Asks(c, j)' /\ Pending'[i].acb = Pending'[j].acb => i = j
      BY <1>1, <2>1, <2>4, <2>7 DEF AllDistinct
    <3>2. \A i \in Todo', j \in Places(c)' : Asks(c, i)' /\ Answers(c, j)' => Pending'[i].acb # reply_mq'[c][j].acb
      BY <1>1, <2>1, <2>4, <2>5, <2>7 DEF AllDistinct
    <3>3. \A i \in Todo' : Asks(c, i)' /\ Tells(c)' => Pending'[i].acb # reply_msg_'[c].acb
      BY <1>1, <2>1, <2>4, <2>5, <2>7 DEF AllDistinct
    <3> QED BY <1>1, <2>1, <2>5, <3>1, <3>2, <3>3 DEF AllDistinct
  <2>9. Unsent(c)'
    BY <1>1 DEF Unsent
  <2> QED BY <2>6, <2>8, <2>9 DEF Flight
<1> QED BY <1>2, <1>3, <1>4

\* The reply thread takes a reply from the queue into its hand.
LEMMA FlightReceives ==
  ASSUME Shape, AcbInv, NEW c \in Clients, UNCHANGED serverVars, NEW m, Receives(c, m)
  PROVE  Flight(c)'
<1>1. /\ Flight(c) /\ pc[c] \notin Dead /\ acbs' = acbs /\ pc' = pc /\ ~Tells(c) /\ reply_msg_'[c] = m
      /\ thr'[c] = "handle"
  BY DEF AcbInv, Receives, ThreadRuns, Tells
<1>2. Unsent(c) /\ AllLive(c) /\ AllDistinct(c)
  BY <1>1 DEF Flight
<1>3. PICK n : TakenReply(c, m, n)
  BY RepliesTaken DEF Receives
<1>4. SameTodo
  BY TodoSame DEF Receives
<1>5. /\ 1 \in Places(c) /\ reply_mq[c][1] = m
      /\ \A i \in Places(c)' : /\ i \in Int /\ i + 1 \in Places(c) /\ i + 1 # 1
                               /\ reply_mq'[c][i] = reply_mq[c][i + 1] /\ Answers(c, i)' = Answers(c, i + 1)
  BY <1>3 DEF TakenReply, Places, Answers
<1>6. Tells(c)' <=> Answers(c, 1)
  BY <1>1, <1>5 DEF Tells, Answers
<1>7. Todo' = Todo /\ \A i \in Todo : Asks(c, i)' = Asks(c, i) /\ Pending'[i] = Pending[i]
  BY <1>4 DEF SameTodo, Asks
<1>8. \A b \in Acbs : Waiting(c, b)' = Waiting(c, b)
  BY <1>1 DEF Waiting, Running
<1>9. AllLive(c)'
  <2>1. \A i \in Todo' : Asks(c, i)' => About(c, Pending[i])'
    BY <1>1, <1>2, <1>7, <1>8 DEF AllLive, About
  <2>2. \A i \in Places(c)' : Answers(c, i)' => About(c, reply_mq[c][i])'
    BY <1>1, <1>2, <1>5, <1>8 DEF AllLive, About
  <2>3. Tells(c)' => About(c, reply_msg_[c])'
    BY <1>1, <1>2, <1>5, <1>6, <1>8 DEF AllLive, About
  <2> QED BY <2>1, <2>2, <2>3 DEF AllLive
<1>10. AllDistinct(c)'
  <2>1. \A i, j \in Todo' : Asks(c, i)' /\ Asks(c, j)' /\ Pending'[i].acb = Pending'[j].acb => i = j
    BY <1>2, <1>7 DEF AllDistinct
  <2>2. \A i, j \in Places(c)' :
          Answers(c, i)' /\ Answers(c, j)' /\ reply_mq'[c][i].acb = reply_mq'[c][j].acb => i = j
    <3> TAKE i, j \in Places(c)'
    <3> HAVE Answers(c, i)' /\ Answers(c, j)' /\ reply_mq'[c][i].acb = reply_mq'[c][j].acb
    <3>1. i + 1 = j + 1
      BY <1>2, <1>5 DEF AllDistinct
    <3> QED BY <1>5, <3>1
  <2>3. \A i \in Todo', j \in Places(c)' : Asks(c, i)' /\ Answers(c, j)' => Pending'[i].acb # reply_mq'[c][j].acb
    BY <1>2, <1>5, <1>7 DEF AllDistinct
  <2>4. \A i \in Todo' : Asks(c, i)' /\ Tells(c)' => Pending'[i].acb # reply_msg_'[c].acb
    BY <1>1, <1>2, <1>5, <1>6, <1>7 DEF AllDistinct
  <2>5. \A i \in Places(c)' : Answers(c, i)' /\ Tells(c)' => reply_mq'[c][i].acb # reply_msg_'[c].acb
    BY <1>1, <1>2, <1>5, <1>6 DEF AllDistinct
  <2> QED BY <2>1, <2>2, <2>3, <2>4, <2>5 DEF AllDistinct
<1>11. Unsent(c)'
  BY <1>1, <1>2 DEF Unsent, Running
<1> QED BY <1>9, <1>10, <1>11 DEF Flight

\* It completes the CVBDAIOCB, which then waits no more.
LEMMA FlightCompletes ==
  ASSUME Shape, AcbInv, NEW c \in Clients, UNCHANGED serverVars,
         NEW a \in Acbs, NEW x, NEW y, NEW m, CompletesAcb(c, a, x, y, m)
  PROVE  Flight(c)'
<1>1. /\ Flight(c) /\ pc[c] \notin Dead /\ pc' = pc /\ reply_msg_' = reply_msg_ /\ reply_mq' = reply_mq
      /\ Tells(c) /\ reply_msg_[c].acb = a /\ thr'[c] # "handle" /\ SetAcb(c, a, y) /\ y.bh
      /\ y.yielded = x.yielded /\ x = acbs[c][a] /\ x # Null
  BY DEF AcbInv, CompletesAcb, ThreadRuns, Tells, Completes, queueVars
<1>2. Unsent(c) /\ AllLive(c) /\ AllDistinct(c)
  BY <1>1 DEF Flight
<1>3. acbs'[c][a] = y /\ \A b \in Acbs : b # a => acbs'[c][b] = acbs[c][b]
  BY <1>1 DEF Shape, ClientTypes, SetAcb
<1>4. SameTodo
  BY TodoSame DEF CompletesAcb, queueVars
<1>5. Todo' = Todo /\ \A i \in Todo : Asks(c, i)' = Asks(c, i) /\ Pending'[i] = Pending[i]
  BY <1>4 DEF SameTodo, Asks
<1>6. Places(c)' = Places(c) /\ \A i \in Places(c) : Answers(c, i)' = Answers(c, i)
  BY <1>1 DEF Places, Answers
<1>7. \A b \in Acbs : b # a /\ Waiting(c, b) => Waiting(c, b)' /\ acbs'[c][b].type = acbs[c][b].type
  BY <1>1, <1>3 DEF Waiting, Running
<1>8. /\ \A i \in Todo : Asks(c, i) => Pending[i].acb # a
      /\ \A i \in Places(c) : Answers(c, i) => reply_mq[c][i].acb # a
  BY <1>1, <1>2 DEF AllDistinct
<1>9. AllLive(c)'
  <2>1. \A i \in Todo' : Asks(c, i)' => About(c, Pending[i])'
    BY <1>2, <1>5, <1>7, <1>8 DEF AllLive, About
  <2>2. \A i \in Places(c)' : Answers(c, i)' => About(c, reply_mq[c][i])'
    BY <1>1, <1>2, <1>6, <1>7, <1>8 DEF AllLive, About
  <2>3. ~Tells(c)'
    BY <1>1 DEF Tells
  <2> QED BY <2>1, <2>2, <2>3 DEF AllLive
<1>10. AllDistinct(c)'
  <2>1. ~Tells(c)'
    BY <1>1 DEF Tells
  <2> QED BY <1>1, <1>2, <1>5, <1>6, <2>1 DEF AllDistinct
<1>11. Unsent(c)'
  <2>1. Waiting(c, a)
    BY <1>1, <1>2 DEF AllLive, About
  <2>2. ASSUME NEW b \in Acbs, pc'[c] = "sending", Running(c, b)' PROVE ~acbs'[c][b].bh
    <3>1. b # a
      BY <1>1, <1>3, <2>1, <2>2 DEF Waiting, Running
    <3> QED BY <1>1, <1>2, <1>3, <2>2, <3>1 DEF Unsent, Running
  <2> QED BY <2>2 DEF Unsent
<1> QED BY <1>9, <1>10, <1>11 DEF Flight

LEMMA FlightClient ==
  ASSUME Shape, AcbInv, NEW c \in Clients, ClientStep(c)
  PROVE  Flight(c)'
<1>0. UNCHANGED serverVars /\ ClientShape(c)
  BY DEF ClientStep, Shape
<1>1. ASSUME NEW m, PostsCall(c, m) PROVE Flight(c)'
  <2>1. pc[c] \notin Dead /\ ~Completes(m) /\ Posts(c, m) /\ acbs' = acbs /\ pc'[c] # "sending"
    BY <1>1 DEF PostsCall, Dead, Completes
  <2>2. thr' = thr /\ reply_msg_' = reply_msg_ /\ NoNewAnswer(c)
    BY <2>1 DEF Posts, NoNewAnswer, SameReplies
  <2>3. SameTodo \/ \E n : NewTodo(m, n)
    BY <1>0, <2>1, TodoPosts
  <2> QED BY <2>1, <2>2, <2>3, FlightMoves
<1>2. ASSUME NEW a \in Acbs, NEW x, NEW m, PostsRequest(c, a, x, m) PROVE Flight(c)'
  BY <1>0, <1>2, FlightRequest
<1>3. ASSUME NEW a \in Acbs, NEW x, NEW y, NEW m, PostsWrite(c, a, x, y, m) PROVE Flight(c)'
  <2>1. /\ pc[c] = "sending" /\ pc'[c] = "submitted" /\ ~Completes(m) /\ Posts(c, m) /\ SetAcb(c, a, y)
        /\ x = acbs[c][a] /\ ~x.yielded
    BY <1>3 DEF PostsWrite, WritesAcb, Completes
  <2>2. ~Waiting(c, a) /\ pc[c] \notin Dead
    BY <2>1 DEF Waiting, Running, Dead
  <2>3. thr' = thr /\ reply_msg_' = reply_msg_ /\ SameReplies(c)
    BY <2>1 DEF Posts, SameReplies
  <2>4. SameTodo \/ \E n : NewTodo(m, n)
    BY <1>0, <2>1, TodoPosts
  <2> QED BY <2>1, <2>2, <2>3, <2>4, FlightSets
<1>4. ASSUME NEW m, Receives(c, m) PROVE Flight(c)'
  BY <1>0, <1>4, FlightReceives
<1>5. CASE PostsStop(c)
  <2>1. NoNewAnswer(c)
    <3>1. CASE reply_mq' = reply_mq
      BY <3>1 DEF SameReplies, NoNewAnswer
    <3>2. CASE reply_mq' = [reply_mq EXCEPT ![c] = Append(@, StopMessage)]
      <4>1. \E n : NewReply(c, StopMessage, n)
        BY <3>2, RepliesAppended
      <4>2. ~Completes(StopMessage)
        BY DEF Completes, StopMessage
      <4> QED BY <4>1, <4>2 DEF NoNewAnswer
    <3> QED BY <1>5, <3>1, <3>2 DEF PostsStop
  <2>2. SameTodo
    BY <1>0, <1>5, TodoSame DEF PostsStop
  <2> QED BY <1>5, <2>1, <2>2, FlightMoves DEF PostsStop, Dead
<1>6. CASE Moves(c)
  <2>1. SameTodo
    BY <1>0, <1>6, TodoSame DEF Moves
  <2>2. NoNewAnswer(c) /\ pc[c] \notin Dead /\ acbs' = acbs /\ reply_msg_' = reply_msg_
    BY <1>6 DEF Moves, NoNewAnswer, SameReplies
  <2>3. pc'[c] = "sending" => pc[c] = "sending"
    BY <1>6 DEF Moves
  <2>4. thr'[c] = "handle" => thr[c] = "handle"
    BY <1>6 DEF Moves
  <2> QED BY <2>1, <2>2, <2>3, <2>4, FlightMoves
<1>7. CASE Perished(c)
  BY <1>7 DEF Perished, Flight
<1>8. ASSUME NEW a \in Acbs, NEW x, NEW y, NEW m, CompletesAcb(c, a, x, y, m) PROVE Flight(c)'
  BY <1>0, <1>8, FlightCompletes
<1>9. ASSUME UNCHANGED queueVars PROVE SameTodo /\ SameReplies(c)
  BY <1>0, <1>9, TodoSame DEF queueVars, SameReplies
<1>10. ASSUME NEW a \in Acbs, NEW x, NEW y, YieldsAcb(c, a, x, y) PROVE Flight(c)'
  <2>1. /\ pc[c] \notin Dead /\ pc'[c] = "idle" /\ SetAcb(c, a, y) /\ y.bh = x.bh /\ y.type = x.type
        /\ x = acbs[c][a] /\ thr' = thr /\ reply_msg_' = reply_msg_
    BY <1>10 DEF YieldsAcb, Dead
  <2>2. y # Null
    BY <1>10, ClientASyncAssumption DEF YieldsAcb, Acb
  <2>3. SameTodo /\ SameReplies(c)
    BY <1>9, <1>10 DEF YieldsAcb
  <2>4. ~Waiting(c, a) \/ ~y.bh
    BY <2>1 DEF Waiting
  <2> QED BY <2>1, <2>2, <2>3, <2>4, FlightSets
<1>11. ASSUME NEW a \in Acbs, Frees(c, a) PROVE Flight(c)'
  <2>1. pc[c] = "idle" /\ pc'[c] = "idle" /\ SetAcb(c, a, Null) /\ ~Waiting(c, a)
    BY <1>11 DEF Frees, Waiting
  <2>2. SameTodo /\ SameReplies(c) /\ thr' = thr /\ reply_msg_' = reply_msg_
    BY <1>9, <1>11 DEF Frees
  <2> QED BY <2>1, <2>2, FlightSets DEF Dead
<1>12. ASSUME NEW a \in Acbs, NEW x, Starts(c, a, x) PROVE Flight(c)'
  <2>1. pc[c] = "idle" /\ ~Waiting(c, a) /\ SetAcb(c, a, x) /\ x # Null /\ ~x.bh
    BY <1>12, ClientASyncAssumption DEF Starts, Waiting, NewRequest, Submit, Acb
  <2>2. SameTodo /\ SameReplies(c) /\ thr' = thr /\ reply_msg_' = reply_msg_
    BY <1>9, <1>12 DEF Starts
  <2>3. \A b \in Acbs : ~Running(c, b)
    BY <1>0, <2>1 DEF ClientShape
  <2> QED BY <2>1, <2>2, <2>3, FlightSets DEF Dead
<1> QED BY <1>1, <1>2, <1>3, <1>4, <1>5, <1>6, <1>7, <1>8, <1>10, <1>11, <1>12, ClientKinds

LEMMA AcbClient == ASSUME Shape, AcbInv, NEW c \in Clients, ClientStep(c) PROVE AcbInv'
  BY FlightClient, FlightOther DEF AcbInv

LEMMA FlightTaken ==
  ASSUME Shape, NEW c \in Clients, Flight(c), NEW m, Takes(m), UNCHANGED clientVars, NoNewAnswer(c)
  PROVE  Flight(c)'
<1> SUFFICES ASSUME pc[c] \notin Dead PROVE Flight(c)'
  BY DEF Flight, clientVars
<1>1. AllLive(c) /\ AllDistinct(c) /\ Unsent(c)
  BY DEF Flight
<1>2. \A i \in Places(c)' : Answers(c, i)' =>
        i \in Places(c) /\ Answers(c, i) /\ reply_mq'[c][i] = reply_mq[c][i]
  BY OldAnswers
<1>3. \A i \in Todo' : /\ i \in Int /\ i + 1 \in Todo /\ i + 1 # 1
                       /\ Pending'[i] = Pending[i + 1] /\ Asks(c, i)' = Asks(c, i + 1)
  BY TakenPlaces DEF Asks
<1>4. /\ Tells(c)' = Tells(c) /\ reply_msg_'[c] = reply_msg_[c] /\ acbs' = acbs
      /\ Unsent(c)' /\ \A a \in Acbs : Waiting(c, a)' = Waiting(c, a)
  BY <1>1 DEF clientVars, Tells, Waiting, Unsent, Running
<1>5. AllLive(c)'
  BY <1>1, <1>2, <1>3, <1>4 DEF AllLive, About
<1>6. AllDistinct(c)'
  <2>1. ASSUME NEW i \in Todo', NEW j \in Todo', Asks(c, i)', Asks(c, j)', Pending'[i].acb = Pending'[j].acb
        PROVE  i = j
    <3>1. i + 1 = j + 1
      BY <1>1, <1>3, <2>1 DEF AllDistinct
    <3> QED BY <1>3, <3>1
  <2>2. \A i, j \in Places(c)' :
          Answers(c, i)' /\ Answers(c, j)' /\ reply_mq'[c][i].acb = reply_mq'[c][j].acb => i = j
    BY <1>1, <1>2 DEF AllDistinct
  <2>3. \A i \in Todo', j \in Places(c)' : Asks(c, i)' /\ Answers(c, j)' => Pending'[i].acb # reply_mq'[c][j].acb
    BY <1>1, <1>2, <1>3 DEF AllDistinct
  <2>4. \A i \in Todo' : Asks(c, i)' /\ Tells(c)' => Pending'[i].acb # reply_msg_'[c].acb
    BY <1>1, <1>3, <1>4 DEF AllDistinct
  <2>5. \A i \in Places(c)' : Answers(c, i)' /\ Tells(c)' => reply_mq'[c][i].acb # reply_msg_'[c].acb
    BY <1>1, <1>2, <1>4 DEF AllDistinct
  <2> QED BY <2>1, <2>2, <2>3, <2>4, <2>5 DEF AllDistinct
<1> QED BY <1>4, <1>5, <1>6 DEF Flight

\* The server answers a request of c in c's reply queue.
LEMMA FlightAnswered ==
  ASSUME Shape, NEW c \in Clients, Flight(c), NEW m, Takes(m), UNCHANGED clientVars,
         m.from = c, Completes(m), NEW r, r.type = m.type, r.acb = m.acb, NEW k, NewReply(c, r, k)
  PROVE  Flight(c)'
<1> SUFFICES ASSUME pc[c] \notin Dead PROVE Flight(c)'
  BY DEF Flight, clientVars
<1>1. AllLive(c) /\ AllDistinct(c) /\ Unsent(c)
  BY DEF Flight
<1>2. /\ \A i \in Places(c)' : i \in Places(c) \/ i = k
      /\ \A i \in Places(c) : Answers(c, i)' = Answers(c, i) /\ reply_mq'[c][i] = reply_mq[c][i]
      /\ reply_mq'[c][k] = r
  BY DEF NewReply, Places, Answers
<1>3. \A i \in Todo' : /\ i \in Int /\ i + 1 \in Todo /\ i + 1 # 1
                       /\ Pending'[i] = Pending[i + 1] /\ Asks(c, i)' = Asks(c, i + 1)
  BY TakenPlaces DEF Asks
<1>4. /\ Tells(c)' = Tells(c) /\ reply_msg_'[c] = reply_msg_[c] /\ acbs' = acbs
      /\ Unsent(c)' /\ \A a \in Acbs : Waiting(c, a)' = Waiting(c, a)
  BY <1>1 DEF clientVars, Tells, Waiting, Unsent, Running
<1>5. 1 \in Todo /\ Pending[1] = m /\ Asks(c, 1)
  BY TakenPlaces DEF Asks
<1>6. AllLive(c)'
  <2>1. \A i \in Todo' : Asks(c, i)' => About(c, Pending[i])'
    BY <1>1, <1>3, <1>4 DEF AllLive, About
  <2>2. ASSUME NEW i \in Places(c)', Answers(c, i)' PROVE About(c, reply_mq[c][i])'
    <3>1. CASE i \in Places(c)
      BY <1>1, <1>2, <1>4, <2>2, <3>1 DEF AllLive, About
    <3>2. CASE i = k
      BY <1>1, <1>2, <1>4, <1>5, <3>2 DEF AllLive, About
    <3> QED BY <1>2, <3>1, <3>2
  <2>3. Tells(c)' => About(c, reply_msg_[c])'
    BY <1>1, <1>4 DEF AllLive, About
  <2> QED BY <2>1, <2>2, <2>3 DEF AllLive
<1>7. AllDistinct(c)'
  <2>1. ASSUME NEW i \in Todo', NEW j \in Todo', Asks(c, i)', Asks(c, j)', Pending'[i].acb = Pending'[j].acb
        PROVE  i = j
    <3>1. i + 1 = j + 1
      BY <1>1, <1>3, <2>1 DEF AllDistinct
    <3> QED BY <1>3, <3>1
  <2>2. \A j \in Places(c) : Answers(c, j) => reply_mq[c][j].acb # r.acb
    BY <1>1, <1>5 DEF AllDistinct
  <2>3. \A i, j \in Places(c)' :
          Answers(c, i)' /\ Answers(c, j)' /\ reply_mq'[c][i].acb = reply_mq'[c][j].acb => i = j
    BY <1>1, <1>2, <2>2 DEF AllDistinct
  <2>4. \A i \in Todo' : Asks(c, i)' => Pending'[i].acb # r.acb
    BY <1>1, <1>3, <1>5 DEF AllDistinct
  <2>5. \A i \in Todo', j \in Places(c)' : Asks(c, i)' /\ Answers(c, j)' => Pending'[i].acb # reply_mq'[c][j].acb
    BY <1>1, <1>2, <1>3, <2>4 DEF AllDistinct
  <2>6. \A i \in Todo' : Asks(c, i)' /\ Tells(c)' => Pending'[i].acb # reply_msg_'[c].acb
    BY <1>1, <1>3, <1>4 DEF AllDistinct
  <2>7. Tells(c) => r.acb # reply_msg_[c].acb
    BY <1>1, <1>5 DEF AllDistinct
  <2>8. \A i \in Places(c)' : Answers(c, i)' /\ Tells(c)' => reply_mq'[c][i].acb # reply_msg_'[c].acb
    BY <1>1, <1>2, <1>4, <2>7 DEF AllDistinct
  <2> QED BY <2>1, <2>3, <2>5, <2>6, <2>8 DEF AllDistinct
<1> QED BY <1>4, <1>6, <1>7 DEF Flight

LEMMA AcbServer == ASSUME Shape, PtrInv, AcbInv, ServerStep PROVE AcbInv'
<1> SUFFICES ASSUME NEW c \in Clients PROVE Flight(c)'
  BY DEF AcbInv
<1>0. UNCHANGED clientVars /\ Flight(c)
  BY DEF ServerStep, AcbInv
<1>1. CASE Stopped \/ Started
  <2>1. Todo' = {} /\ NoNewAnswer(c)
    BY <1>1, TodoGone DEF Stopped, Started, NoNewAnswer, SameReplies
  <2>2. /\ Tells(c)' = Tells(c) /\ reply_msg_'[c] = reply_msg_[c] /\ acbs' = acbs /\ pc' = pc
        /\ Unsent(c)' = Unsent(c) /\ \A a \in Acbs : Waiting(c, a)' = Waiting(c, a)
    BY <1>0 DEF clientVars, Tells, Waiting, Unsent, Running
  <2>3. CASE pc[c] \in Dead
    BY <2>2, <2>3 DEF Flight
  <2>4. CASE pc[c] \notin Dead
    <3>1. Unsent(c)
      BY <1>0, <2>4 DEF Flight
    <3> QED BY <1>0, <2>1, <2>2, <2>4, <3>1, FlightFrame
  <2> QED BY <2>3, <2>4
<1>2. ASSUME NEW m, NEW d, NEW r, TakesOpen(m, d, r) PROVE Flight(c)'
  <2>1. Takes(m) /\ ~Completes(r) /\ d \in Clients
    BY <1>2 DEF TakesOpen, Completes
  <2>2. (\E n : NewReply(d, r, n)) /\ \A e \in Clients : e # d => SameReplies(e)
    BY <1>2, <2>1, RepliesAppended DEF TakesOpen
  <2>3. NoNewAnswer(c)
    BY <2>1, <2>2 DEF NoNewAnswer
  <2> QED BY <1>0, <2>1, <2>3, FlightTaken
<1>3. ASSUME NEW m, NEW w, NEW r, TakesCall(m, w, r) PROVE Flight(c)'
  <2>1. Takes(m) /\ w \in Clients /\ vols[w] # Null /\ m.volume = w /\ r.type = m.type /\ r.acb = m.acb
    BY <1>3 DEF TakesCall
  <2>2. vols[w].reply_mq = m.from /\ m.from \in Clients
    BY <2>1, GoesHome DEF Takes, Request
  <2>3. (\E n : NewReply(m.from, r, n)) /\ \A e \in Clients : e # m.from => SameReplies(e)
    BY <1>3, <2>2, RepliesAppended DEF TakesCall
  <2>4. CASE m.from = c /\ Completes(m)
    BY <1>0, <2>1, <2>3, <2>4, FlightAnswered
  <2>5. CASE ~(m.from = c /\ Completes(m))
    <3>1. NoNewAnswer(c)
      BY <2>1, <2>3, <2>5 DEF NoNewAnswer, Completes
    <3> QED BY <1>0, <2>1, <3>1, FlightTaken
  <2> QED BY <2>4, <2>5
<1>4. ASSUME NEW m, TakesQuietly(m) PROVE Flight(c)'
  <2>1. Takes(m) /\ NoNewAnswer(c)
    BY <1>4 DEF TakesQuietly, NoNewAnswer, SameReplies
  <2> QED BY <1>0, <2>1, FlightTaken
<1> QED BY <1>1, <1>2, <1>3, <1>4, ServerKinds

LEMMA AcbNext == ASSUME Shape, PtrInv, AcbInv, [Next]_vars PROVE AcbInv'
<1>1. CASE UNCHANGED vars
  BY <1>1 DEF vars, queueVars, serverVars, clientVars, AcbInv, Flight, Unsent, AllLive, AllDistinct, Asks, Answers,
              Tells, Places, About, Waiting, Running, Todo, Pending
<1> QED BY <1>1, AcbClient, AcbServer DEF Next

\* From the places of the messages to the set InFlight.
LEMMA InFlightPlaces ==
  ASSUME Shape, AcbInv, NEW c \in Clients, pc[c] \notin Dead
  PROVE  /\ \A f \in InFlight(c) :
              \/ \E i \in Todo : Asks(c, i) /\ f = <<"request", i, Pending[i].acb, Pending[i].type>>
              \/ \E i \in Places(c) : Answers(c, i) /\ f = <<"reply", i, reply_mq[c][i].acb, reply_mq[c][i].type>>
              \/ Tells(c) /\ f = <<"hand", 0, reply_msg_[c].acb, reply_msg_[c].type>>
<1> SUFFICES ASSUME NEW f \in InFlight(c)
             PROVE  \/ \E i \in Todo : Asks(c, i) /\ f = <<"request", i, Pending[i].acb, Pending[i].type>>
                    \/ \E i \in Places(c) : Answers(c, i) /\ f = <<"reply", i, reply_mq[c][i].acb, reply_mq[c][i].type>>
                    \/ Tells(c) /\ f = <<"hand", 0, reply_msg_[c].acb, reply_msg_[c].type>>
  OBVIOUS
<1>1. CASE Served(c) /\ \E i \in InRequests(c) : f = <<"request", i, Pending[i].acb, Pending[i].type>>
  BY <1>1 DEF Served, InRequests, Todo, Asks
<1>2. CASE \E i \in InReplies(c) : f = <<"reply", i, reply_mq[c][i].acb, reply_mq[c][i].type>>
  BY <1>2 DEF InReplies, Places, Answers
<1>3. CASE \E m \in InHand(c) : f = <<"hand", 0, m.acb, m.type>>
  BY <1>3 DEF InHand, Tells
<1> QED BY <1>1, <1>2, <1>3 DEF InFlight

LEMMA AcbsLiveHere == ASSUME Shape, AcbInv PROVE AcbsLive
<1> SUFFICES ASSUME NEW c \in Clients, pc[c] \notin Dead
             PROVE  /\ \A f \in InFlight(c) : /\ f[3] # Null /\ acbs[c][f[3]] # Null
                                              /\ acbs[c][f[3]].type = f[4] /\ ~acbs[c][f[3]].bh
                    /\ \A f, g \in InFlight(c) : f[3] = g[3] => f = g
  BY DEF AcbsLive
<1>1. AllLive(c) /\ AllDistinct(c)
  BY DEF AcbInv, Flight
<1>2. ASSUME NEW m, About(c, m)
      PROVE  m.acb # Null /\ acbs[c][m.acb] # Null /\ acbs[c][m.acb].type = m.type /\ ~acbs[c][m.acb].bh
  BY <1>2, SharedMemAssumption DEF About, Waiting
<1>3. ASSUME NEW f \in InFlight(c)
      PROVE  f[3] # Null /\ acbs[c][f[3]] # Null /\ acbs[c][f[3]].type = f[4] /\ ~acbs[c][f[3]].bh
  <2>1. CASE \E i \in Todo : Asks(c, i) /\ f = <<"request", i, Pending[i].acb, Pending[i].type>>
    BY <1>1, <1>2, <2>1 DEF AllLive
  <2>2. CASE \E i \in Places(c) : Answers(c, i) /\ f = <<"reply", i, reply_mq[c][i].acb, reply_mq[c][i].type>>
    BY <1>1, <1>2, <2>2 DEF AllLive
  <2>3. CASE Tells(c) /\ f = <<"hand", 0, reply_msg_[c].acb, reply_msg_[c].type>>
    BY <1>1, <1>2, <2>3 DEF AllLive
  <2> QED BY <2>1, <2>2, <2>3, InFlightPlaces
<1>4. ASSUME NEW f \in InFlight(c), NEW g \in InFlight(c), f[3] = g[3] PROVE f = g
  <2>1. CASE \E i \in Todo : Asks(c, i) /\ f = <<"request", i, Pending[i].acb, Pending[i].type>>
    BY <1>1, <1>4, <2>1, InFlightPlaces DEF AllDistinct
  <2>2. CASE \E i \in Places(c) : Answers(c, i) /\ f = <<"reply", i, reply_mq[c][i].acb, reply_mq[c][i].type>>
    BY <1>1, <1>4, <2>2, InFlightPlaces DEF AllDistinct
  <2>3. CASE Tells(c) /\ f = <<"hand", 0, reply_msg_[c].acb, reply_msg_[c].type>>
    BY <1>1, <1>4, <2>3, InFlightPlaces DEF AllDistinct
  <2> QED BY <2>1, <2>2, <2>3, InFlightPlaces
<1> QED BY <1>3, <1>4

LEMMA AcbHolds == Spec => [](Shape /\ PtrInv /\ AcbInv)
<1>1. Shape /\ (PtrInv /\ AcbInv) /\ [Next]_vars => (PtrInv /\ AcbInv)'
  BY PtrNext, AcbNext
<1>2. Init => PtrInv /\ AcbInv
  BY PtrInit, AcbInit
<1> QED BY <1>1, <1>2, ShapeHolds, PTL DEF Spec

(***************************************************************************)
(* What handle_co_reply makes of header->acb is always a CVBDAIOCB that is *)
(* allocated, of the kind the reply is about, not yet completed, and told  *)
(* of by no other message.  It rests on GoesHome: an answer is put in the  *)
(* queue of the client that asked, although the server takes that queue    *)
(* from a pointer the client sent it, and although several clients may use *)
(* one volume and either side may die and come back at any moment.         *)
(***************************************************************************)
THEOREM RepliesFindTheirAcb == Spec => []AcbsLive
<1>1. Shape /\ PtrInv /\ AcbInv => AcbsLive
  BY AcbsLiveHere
<1> QED BY <1>1, AcbHolds, PTL

-------------------------------------------------------------------------------
(***************************************************************************)
(* Epochs.  A client has the queue of no later server than the present     *)
(* one: a client that is not served stays so until it opens a new queue.   *)
(***************************************************************************)
EpochInv ==
  /\ request_name \in Epochs => request_name <= epoch
  /\ \A c \in Clients : request_mq_[c] \in Epochs => request_mq_[c] <= epoch

LEMMA ClientQueue ==
  ASSUME Shape, NEW c \in Clients, ClientStep(c)
  PROVE  /\ request_name' = request_name
         /\ request_mq_'[c] = request_mq_[c] \/ (pc[c] = "ctor_open" /\ request_mq_'[c] = request_name)
<1>1. ASSUME NEW m, PostsCall(c, m) \/ Receives(c, m) PROVE UNCHANGED <<request_name, request_mq_>>
  BY <1>1 DEF PostsCall, Posts, Receives
<1>2. ASSUME NEW a \in Acbs, NEW x, NEW m, PostsRequest(c, a, x, m) PROVE UNCHANGED <<request_name, request_mq_>>
  BY <1>2 DEF PostsRequest, Posts
<1>3. ASSUME NEW a \in Acbs, NEW x, NEW y, NEW m, PostsWrite(c, a, x, y, m)
      PROVE  UNCHANGED <<request_name, request_mq_>>
  BY <1>3 DEF PostsWrite, Posts
<1>4. ASSUME PostsStop(c) \/ Perished(c) PROVE UNCHANGED <<request_name, request_mq_>>
  BY <1>4 DEF PostsStop, Perished, queueVars
<1>5. ASSUME NEW a \in Acbs, NEW x, NEW y, NEW m, CompletesAcb(c, a, x, y, m)
      PROVE  UNCHANGED <<request_name, request_mq_>>
  BY <1>5 DEF CompletesAcb, queueVars
<1>6. ASSUME NEW a \in Acbs, NEW x, NEW y, YieldsAcb(c, a, x, y) PROVE UNCHANGED <<request_name, request_mq_>>
  BY <1>6 DEF YieldsAcb, queueVars
<1>7. ASSUME NEW a \in Acbs, NEW x, Frees(c, a) \/ Starts(c, a, x) PROVE UNCHANGED <<request_name, request_mq_>>
  BY <1>7 DEF Frees, Starts, queueVars
<1>8. CASE Moves(c)
  BY <1>8 DEF Moves
<1> QED BY <1>1, <1>2, <1>3, <1>4, <1>5, <1>6, <1>7, <1>8, ClientKinds

LEMMA EpochInit == Init => EpochInv
  BY SharedMemAssumption DEF Init, QueuesInit, ClientInit, EpochInv, Epochs

LEMMA EpochNext == ASSUME Shape, EpochInv, [Next]_vars PROVE EpochInv'
<1>1. epoch \in Int /\ \A e \in Epochs : e \in Int
  BY SharedMemAssumption DEF Shape, ServerTypeOK, Epochs
<1>2. CASE UNCHANGED vars
  BY <1>2 DEF vars, queueVars, serverVars, clientVars, EpochInv
<1>3. ASSUME NEW c \in Clients, ClientStep(c) PROVE EpochInv'
  <2>1. epoch' = epoch /\ Others(c)
    BY <1>3, ShapeClient DEF ClientStep, serverVars
  <2> QED BY <1>3, <2>1, ClientQueue DEF EpochInv, Others
<1>4. CASE ServerStep
  <2>1. request_mq_' = request_mq_
    BY <1>4 DEF ServerStep, clientVars
  <2>2. CASE Stopped
    BY <2>1, <2>2, SharedMemAssumption DEF Stopped, EpochInv, Epochs
  <2>3. CASE Started
    BY <1>1, <2>1, <2>3 DEF Started, EpochInv
  <2>4. ASSUME NEW m, Takes(m) PROVE EpochInv'
    BY <2>1, <2>4 DEF Takes, EpochInv
  <2> QED BY <1>4, <2>2, <2>3, <2>4, ServerKinds DEF TakesOpen, TakesCall, TakesQuietly
<1> QED BY <1>2, <1>3, <1>4 DEF Next

\* A server that starts serves nobody yet; one that goes on serves whom it did.
LEMMA ServedBefore ==
  ASSUME Shape, EpochInv, ServerStep, NEW c \in Clients, Served(c)'
  PROVE  Served(c) /\ ~Stopped /\ ~Started
<1>1. server' = "up" /\ request_mq_[c] = epoch'
  BY DEF Served, ServerStep, clientVars
<1>2. epoch \in Int /\ \A e \in Epochs : e \in Int
  BY SharedMemAssumption DEF Shape, ServerTypeOK, Epochs
<1>3. CASE Stopped
  BY <1>1, <1>3 DEF Stopped
<1>4. CASE Started
  <2>1. epoch + 1 \in Epochs
    BY <1>4, SharedMemAssumption DEF Started, Shape, ServerTypeOK, Epochs
  <2> QED BY <1>1, <1>2, <1>4, <2>1 DEF Started, EpochInv
<1>5. ASSUME NEW m, Takes(m) PROVE Served(c) /\ ~Stopped /\ ~Started
  BY <1>1, <1>5 DEF Takes, Served, Stopped, Started
<1> QED BY <1>3, <1>4, <1>5, ServerKinds DEF TakesOpen, TakesCall, TakesQuietly

-------------------------------------------------------------------------------
(***************************************************************************)
(* Answers on their way.  A CVBDAIOCB of a served client that waits has a  *)
(* message on its way that will complete it.                               *)
(***************************************************************************)
Expected(c, a) ==
  \/ \E i \in Todo : Asks(c, i) /\ Pending[i].acb = a
  \/ \E i \in Places(c) : Answers(c, i) /\ reply_mq[c][i].acb = a
  \/ Tells(c) /\ reply_msg_[c].acb = a

NoneLost(c) == pc[c] \notin Dead /\ Served(c) => \A a \in Acbs : Waiting(c, a) => Expected(c, a)

LostInv == \A c \in Clients : NoneLost(c)

\* A message on its way stays on its way in a step that takes none.
LEMMA StillExpected ==
  ASSUME NEW c \in Clients, NEW a \in Acbs, Expected(c, a),
         SameTodo \/ \E m, n : NewTodo(m, n),
         SameReplies(c) \/ \E r, n : NewReply(c, r, n),
         Tells(c) /\ reply_msg_[c].acb = a => Tells(c)' /\ reply_msg_'[c] = reply_msg_[c]
  PROVE  Expected(c, a)'
<1>1. ASSUME NEW i \in Todo, Asks(c, i), Pending[i].acb = a PROVE Expected(c, a)'
  <2>1. i \in Todo' /\ Pending'[i] = Pending[i]
    <3>1. CASE SameTodo
      BY <3>1 DEF SameTodo
    <3>2. ASSUME NEW m, NEW n, NewTodo(m, n) PROVE i \in Todo' /\ Pending'[i] = Pending[i]
      <4>1. i \in 1 .. (n - 1) /\ n \in Nat
        BY <3>2 DEF NewTodo
      <4>2. i \in 1 .. n
        BY <4>1
      <4> QED BY <3>2, <4>2 DEF NewTodo
    <3> QED BY <3>1, <3>2
  <2> QED BY <1>1, <2>1 DEF Expected, Asks
<1>2. ASSUME NEW i \in Places(c), Answers(c, i), reply_mq[c][i].acb = a PROVE Expected(c, a)'
  <2>1. i \in Places(c)' /\ reply_mq'[c][i] = reply_mq[c][i]
    <3>1. CASE SameReplies(c)
      BY <3>1 DEF SameReplies, Places
    <3>2. ASSUME NEW r, NEW n, NewReply(c, r, n) PROVE i \in Places(c)' /\ reply_mq'[c][i] = reply_mq[c][i]
      BY <3>2 DEF NewReply, Places
    <3> QED BY <3>1, <3>2
  <2> QED BY <1>2, <2>1 DEF Expected, Answers
<1>3. CASE Tells(c) /\ reply_msg_[c].acb = a
  BY <1>3 DEF Expected
<1> QED BY <1>1, <1>2, <1>3 DEF Expected

LEMMA LostOther ==
  ASSUME Shape, LostInv, NEW c \in Clients, ClientStep(c), NEW d \in Clients, d # c
  PROVE  NoneLost(d)'
<1>1. Mail(c) /\ Others(c) /\ UNCHANGED serverVars
  BY ClientMail, ShapeClient DEF ClientStep
<1>2. /\ pc'[d] = pc[d] /\ thr'[d] = thr[d] /\ reply_msg_'[d] = reply_msg_[d] /\ acbs'[d] = acbs[d]
      /\ SameReplies(d) /\ request_mq_'[d] = request_mq_[d]
  BY <1>1 DEF Others, Mail
<1>3. Served(d)' = Served(d) /\ Tells(d)' = Tells(d) /\ \A a \in Acbs : Waiting(d, a)' = Waiting(d, a)
  BY <1>1, <1>2 DEF Served, serverVars, Tells, Waiting, Running
<1>4. SameTodo \/ \E m, n : NewTodo(m, n)
  BY <1>1 DEF Mail
<1>5. ASSUME NEW a \in Acbs, Expected(d, a) PROVE Expected(d, a)'
  BY <1>2, <1>3, <1>4, <1>5, StillExpected
<1> QED BY <1>2, <1>3, <1>5 DEF LostInv, NoneLost

\* A step of the main thread: no CVBDAIOCB begins to wait, or a is asked for.
LEMMA LostMoves ==
  ASSUME Shape, LostInv, NEW c \in Clients, pc[c] \notin Dead, Served(c)' => Served(c),
         SameTodo \/ \E m, n : NewTodo(m, n),
         SameReplies(c) \/ \E r, n : NewReply(c, r, n),
         \A a \in Acbs : Waiting(c, a)' => Waiting(c, a) \/ (Served(c) => Expected(c, a)'),
         Tells(c) => Tells(c)' /\ reply_msg_'[c] = reply_msg_[c]
  PROVE  NoneLost(c)'
<1>1. ASSUME NEW a \in Acbs, Expected(c, a) PROVE Expected(c, a)'
  BY <1>1, StillExpected
<1> QED BY <1>1 DEF LostInv, NoneLost

LEMMA LostReceives ==
  ASSUME Shape, LostInv, NEW c \in Clients, UNCHANGED serverVars, NEW m, Receives(c, m)
  PROVE  NoneLost(c)'
<1>1. /\ pc[c] \notin Dead /\ acbs' = acbs /\ pc' = pc /\ ~Tells(c) /\ reply_msg_'[c] = m
      /\ thr'[c] = "handle" /\ Served(c)' = Served(c)
  BY DEF Receives, ThreadRuns, Tells, Served, serverVars
<1>2. PICK n : TakenReply(c, m, n)
  BY RepliesTaken DEF Receives
<1>3. SameTodo
  BY TodoSame DEF Receives
<1>4. \A b \in Acbs : Waiting(c, b)' = Waiting(c, b)
  BY <1>1 DEF Waiting, Running
<1>5. ASSUME NEW a \in Acbs, Expected(c, a) PROVE Expected(c, a)'
  <2>1. ASSUME NEW i \in Todo, Asks(c, i), Pending[i].acb = a PROVE Expected(c, a)'
    BY <1>3, <2>1 DEF SameTodo, Asks, Expected
  <2>2. ASSUME NEW i \in Places(c), Answers(c, i), reply_mq[c][i].acb = a PROVE Expected(c, a)'
    <3>1. CASE i = 1
      BY <1>1, <1>2, <2>2, <3>1 DEF TakenReply, Answers, Tells, Expected
    <3>2. CASE i # 1
      <4>1. PICK j : j = i - 1
        OBVIOUS
      <4>2. j \in Int /\ j \in 1 .. (n - 1) /\ j + 1 = i
        BY <1>2, <2>2, <3>2, <4>1 DEF TakenReply, Places
      <4>3. j \in Places(c)' /\ reply_mq'[c][j] = reply_mq[c][i]
        BY <1>2, <4>2 DEF TakenReply, Places
      <4> QED BY <2>2, <4>3 DEF Answers, Expected
    <3> QED BY <3>1, <3>2
  <2> QED BY <1>1, <1>5, <2>1, <2>2 DEF Expected
<1> QED BY <1>1, <1>4, <1>5 DEF LostInv, NoneLost

LEMMA LostCompletes ==
  ASSUME Shape, LostInv, NEW c \in Clients, UNCHANGED serverVars,
         NEW a \in Acbs, NEW x, NEW y, NEW m, CompletesAcb(c, a, x, y, m)
  PROVE  NoneLost(c)'
<1>1. /\ pc[c] \notin Dead /\ pc' = pc /\ reply_msg_' = reply_msg_ /\ SameReplies(c) /\ reply_msg_[c].acb = a
      /\ SetAcb(c, a, y) /\ y.bh /\ Served(c)' = Served(c)
  BY DEF CompletesAcb, ThreadRuns, queueVars, SameReplies, Served, serverVars
<1>2. acbs'[c][a] = y /\ \A b \in Acbs : b # a => acbs'[c][b] = acbs[c][b]
  BY <1>1 DEF Shape, ClientTypes, SetAcb
<1>3. SameTodo
  BY TodoSame DEF CompletesAcb, queueVars
<1>4. ~Waiting(c, a)' /\ \A b \in Acbs : b # a => Waiting(c, b)' = Waiting(c, b)
  BY <1>1, <1>2 DEF Waiting, Running
<1>5. ASSUME NEW b \in Acbs, b # a, Expected(c, b) PROVE Expected(c, b)'
  BY <1>1, <1>3, <1>5, StillExpected
<1> QED BY <1>1, <1>4, <1>5 DEF LostInv, NoneLost

LEMMA LostRequest ==
  ASSUME Shape, LostInv, NEW c \in Clients, UNCHANGED serverVars,
         NEW a \in Acbs, NEW x, NEW m, PostsRequest(c, a, x, m)
  PROVE  NoneLost(c)'
<1>1. /\ pc[c] = "sending" /\ pc'[c] = "submitted" /\ acbs' = acbs /\ Running(c, a) /\ m.acb = a /\ m.from = c
      /\ thr' = thr /\ reply_msg_' = reply_msg_ /\ reply_mq' = reply_mq /\ Completes(m) /\ Posts(c, m)
      /\ request_mq_' = request_mq_
  BY DEF PostsRequest, Posts, Completes
<1>2. (~Served(c) /\ SameTodo) \/ (Served(c) /\ \E n : NewTodo(m, n))
  BY <1>1, TodoPosts
<1>3. ASSUME Served(c) PROVE Expected(c, a)'
  <2>1. PICK n : NewTodo(m, n)
    BY <1>2, <1>3
  <2>2. n \in Todo' /\ Pending'[n] = m
    BY <2>1 DEF NewTodo
  <2> QED BY <1>1, <2>2 DEF Expected, Asks
<1>4. \A b \in Acbs : Waiting(c, b)' => Waiting(c, b) \/ b = a
  BY <1>1 DEF Waiting, Running, Shape, ClientShape
<1>5. Tells(c)' = Tells(c) /\ Served(c)' = Served(c) /\ SameReplies(c) /\ pc[c] \notin Dead
  BY <1>1 DEF Tells, Served, serverVars, SameReplies, Dead
<1> QED BY <1>1, <1>2, <1>3, <1>4, <1>5, LostMoves

LEMMA LostClient ==
  ASSUME ~SendMayFail, Shape, LostInv, NEW c \in Clients, ClientStep(c)
  PROVE  NoneLost(c)'
<1>0. UNCHANGED serverVars /\ ClientShape(c)
  BY DEF ClientStep, Shape
<1>1. request_mq_'[c] = request_mq_[c] => Served(c)' = Served(c)
  BY <1>0 DEF Served, serverVars
<1>2. ASSUME thr' = thr, reply_msg_' = reply_msg_ PROVE Tells(c) => Tells(c)' /\ reply_msg_'[c] = reply_msg_[c]
  BY <1>2 DEF Tells
<1>3. ASSUME NEW m, PostsCall(c, m) PROVE NoneLost(c)'
  <2>1. Posts(c, m) /\ acbs' = acbs /\ pc[c] \notin Dead \cup {"sending"}
    BY <1>3 DEF PostsCall, Dead
  <2>2. thr' = thr /\ reply_msg_' = reply_msg_ /\ SameReplies(c) /\ request_mq_' = request_mq_
    BY <2>1 DEF Posts, SameReplies
  <2>3. SameTodo \/ \E n : NewTodo(m, n)
    BY <1>0, <2>1, TodoPosts
  <2>4. \A a \in Acbs : Waiting(c, a)' => Waiting(c, a)
    BY <2>1 DEF Waiting, Running
  <2> QED BY <1>1, <1>2, <2>1, <2>2, <2>3, <2>4, LostMoves
<1>4. ASSUME NEW a \in Acbs, NEW x, NEW m, PostsRequest(c, a, x, m) PROVE NoneLost(c)'
  BY <1>0, <1>4, LostRequest
<1>5. ASSUME NEW a \in Acbs, NEW x, NEW y, NEW m, PostsWrite(c, a, x, y, m) PROVE NoneLost(c)'
  <2>1. Posts(c, m) /\ pc[c] = "sending" /\ SetAcb(c, a, y) /\ y.bh /\ Running(c, a)
    BY <1>5, ClientASyncAssumption DEF PostsWrite, WritesAcb, Running, Acb
  <2>2. thr' = thr /\ reply_msg_' = reply_msg_ /\ SameReplies(c) /\ request_mq_' = request_mq_
    BY <2>1 DEF Posts, SameReplies
  <2>3. SameTodo \/ \E n : NewTodo(m, n)
    BY <1>0, <2>1, TodoPosts
  <2>4. acbs'[c][a] = y /\ \A b \in Acbs : b # a => acbs'[c][b] = acbs[c][b]
    BY <2>1 DEF Shape, ClientTypes, SetAcb
  <2>5. \A b \in Acbs : b # a => ~Running(c, b)
    BY <1>0, <2>1 DEF ClientShape
  <2>6. \A b \in Acbs : Waiting(c, b)' => Waiting(c, b)
    BY <2>1, <2>4, <2>5 DEF Waiting, Running
  <2> QED BY <1>1, <1>2, <2>1, <2>2, <2>3, <2>6, LostMoves DEF Dead
<1>6. ASSUME NEW m, Receives(c, m) PROVE NoneLost(c)'
  BY <1>0, <1>6, LostReceives
<1>7. CASE PostsStop(c)
  <2>1. SameReplies(c) \/ \E r, n : NewReply(c, r, n)
    <3>1. CASE reply_mq' = reply_mq
      BY <3>1 DEF SameReplies
    <3>2. CASE reply_mq' = [reply_mq EXCEPT ![c] = Append(@, StopMessage)]
      BY <3>2, RepliesAppended
    <3> QED BY <1>7, <3>1, <3>2 DEF PostsStop
  <2>2. SameTodo
    BY <1>0, <1>7, TodoSame DEF PostsStop
  <2>3. \A a \in Acbs : Waiting(c, a)' => Waiting(c, a)
    BY <1>7 DEF PostsStop, Waiting, Running
  <2>4. thr' = thr /\ reply_msg_' = reply_msg_ /\ request_mq_' = request_mq_ /\ pc[c] \notin Dead
    BY <1>7 DEF PostsStop, Dead
  <2> QED BY <1>1, <1>2, <2>1, <2>2, <2>3, <2>4, LostMoves
<1>8. CASE Moves(c)
  <2>1. SameTodo /\ SameReplies(c) /\ pc[c] \notin Dead /\ acbs' = acbs /\ reply_msg_' = reply_msg_
    BY <1>0, <1>8, TodoSame DEF Moves, SameReplies
  <2>2. CASE pc[c] \in {"ctor_open", "ctor_create"}
    <3>1. \A a \in Acbs : acbs[c][a] = Null
      BY <1>0, <2>2 DEF ClientShape, Calling
    <3> QED BY <2>1, <3>1 DEF NoneLost, Waiting
  <2>3. CASE pc[c] \notin {"ctor_open", "ctor_create"}
    <3>1. request_mq_'[c] = request_mq_[c]
      BY <1>8, <2>3 DEF Moves
    <3>2. Tells(c) => Tells(c)' /\ reply_msg_'[c] = reply_msg_[c]
      BY <1>8, <2>1, <2>3 DEF Moves, Tells, Completes
    <3>3. pc[c] = "sending" => pc'[c] = "sending"
      BY <1>8 DEF Moves
    <3>4. \A a \in Acbs : Waiting(c, a)' => Waiting(c, a)
      BY <2>1, <3>3 DEF Waiting, Running
    <3> QED BY <1>1, <2>1, <3>1, <3>2, <3>4, LostMoves
  <2> QED BY <2>2, <2>3
<1>9. CASE Perished(c)
  BY <1>9 DEF Perished, NoneLost
<1>10. ASSUME NEW a \in Acbs, NEW x, NEW y, NEW m, CompletesAcb(c, a, x, y, m) PROVE NoneLost(c)'
  BY <1>0, <1>10, LostCompletes
<1>11. ASSUME NEW a \in Acbs, NEW y, SetAcb(c, a, y), UNCHANGED <<queueVars, thr, request_mq_, reply_msg_>>,
              pc[c] \in {"idle", "submitted"},
              y = Null \/ pc'[c] = "sending" \/ (y.bh = acbs[c][a].bh /\ acbs[c][a] # Null),
              pc'[c] = "sending" => y # Null /\ ~y.yielded
       PROVE  NoneLost(c)'
  <2>1. SameTodo /\ SameReplies(c)
    BY <1>0, <1>11, TodoSame DEF queueVars, SameReplies
  <2>2. acbs'[c][a] = y /\ \A b \in Acbs : b # a => acbs'[c][b] = acbs[c][b]
    BY <1>11 DEF Shape, ClientTypes, SetAcb
  <2>3. \A b \in Acbs : Waiting(c, b)' => Waiting(c, b)
    BY <1>11, <2>2 DEF Waiting, Running
  <2> QED BY <1>1, <1>2, <1>11, <2>1, <2>3, LostMoves DEF Dead
<1>12. ASSUME NEW a \in Acbs, NEW x, NEW y, YieldsAcb(c, a, x, y) PROVE NoneLost(c)'
  BY <1>11, <1>12 DEF YieldsAcb
<1>13. ASSUME NEW a \in Acbs, Frees(c, a) PROVE NoneLost(c)'
  BY <1>11, <1>13 DEF Frees
<1>14. ASSUME NEW a \in Acbs, NEW x, Starts(c, a, x) PROVE NoneLost(c)'
  <2>1. x # Null /\ ~x.yielded /\ SetAcb(c, a, x)
    BY <1>14, ClientASyncAssumption DEF Starts, NewRequest, Submit, Acb
  <2> QED BY <1>11, <1>14, <2>1 DEF Starts
<1> QED BY <1>3, <1>4, <1>5, <1>6, <1>7, <1>8, <1>9, <1>10, <1>12, <1>13, <1>14, ClientKinds

LEMMA LostServer ==
  ASSUME Shape, PtrInv, EpochInv, LostInv, ServerStep, NEW c \in Clients
  PROVE  NoneLost(c)'
<1> SUFFICES ASSUME pc[c] \notin Dead, Served(c)', NEW a \in Acbs, Waiting(c, a)'
             PROVE  Expected(c, a)'
  BY DEF NoneLost, ServerStep, clientVars
<1>0. UNCHANGED clientVars /\ Tells(c)' = Tells(c) /\ Waiting(c, a)
  BY DEF ServerStep, clientVars, Tells, Waiting, Running
<1>1. Served(c) /\ ~Stopped /\ ~Started
  BY ServedBefore
<1>2. Expected(c, a)
  BY <1>0, <1>1 DEF LostInv, NoneLost
<1>3. ASSUME NEW m, Takes(m),
             SameReplies(c) \/ \E r, n : NewReply(c, r, n),
             m.from = c /\ Completes(m) =>
               \E r, n : NewReply(c, r, n) /\ r.type = m.type /\ r.acb = m.acb
      PROVE  Expected(c, a)'
  <2>1. PICK k : DoneTodo(m, k)
    BY <1>3, TodoTakes
  <2>2. ASSUME NEW i \in Todo, Asks(c, i), Pending[i].acb = a PROVE Expected(c, a)'
    <3>1. CASE i = 1
      <4>1. m.from = c /\ Completes(m) /\ m.acb = a
        BY <2>1, <2>2, <3>1 DEF DoneTodo, Asks
      <4>2. PICK r, n : NewReply(c, r, n) /\ r.type = m.type /\ r.acb = m.acb
        BY <1>3, <4>1
      <4>3. n \in Places(c)' /\ reply_mq'[c][n] = r
        BY <4>2 DEF NewReply, Places
      <4> QED BY <4>1, <4>2, <4>3 DEF Expected, Answers, Completes
    <3>2. CASE i # 1
      <4>1. PICK j : j = i - 1
        OBVIOUS
      <4>2. j \in 1 .. (k - 1) /\ j + 1 = i
        BY <2>1, <2>2, <3>2, <4>1 DEF DoneTodo
      <4>3. j \in Todo' /\ Pending'[j] = Pending[i]
        BY <2>1, <4>2 DEF DoneTodo
      <4> QED BY <2>2, <4>3 DEF Expected, Asks
    <3> QED BY <3>1, <3>2
  <2>3. ASSUME NEW i \in Places(c), Answers(c, i), reply_mq[c][i].acb = a PROVE Expected(c, a)'
    <3>1. i \in Places(c)' /\ reply_mq'[c][i] = reply_mq[c][i]
      BY <1>3 DEF SameReplies, NewReply, Places
    <3> QED BY <2>3, <3>1 DEF Expected, Answers
  <2>4. CASE Tells(c) /\ reply_msg_[c].acb = a
    BY <1>0, <2>4 DEF Expected, clientVars
  <2> QED BY <1>2, <2>2, <2>3, <2>4 DEF Expected
<1>4. ASSUME NEW m, NEW d, NEW r, TakesOpen(m, d, r) PROVE Expected(c, a)'
  <2>1. Takes(m) /\ ~Completes(m) /\ d \in Clients
    BY <1>4 DEF TakesOpen, Completes
  <2>2. (\E n : NewReply(d, r, n)) /\ \A e \in Clients : e # d => SameReplies(e)
    BY <1>4, <2>1, RepliesAppended DEF TakesOpen
  <2> QED BY <1>3, <2>1, <2>2
<1>5. ASSUME NEW m, NEW w, NEW r, TakesCall(m, w, r) PROVE Expected(c, a)'
  <2>1. Takes(m) /\ w \in Clients /\ vols[w] # Null /\ m.volume = w /\ r.type = m.type /\ r.acb = m.acb
    BY <1>5 DEF TakesCall
  <2>2. vols[w].reply_mq = m.from /\ m.from \in Clients
    BY <2>1, GoesHome DEF Takes, Request
  <2>3. (\E n : NewReply(m.from, r, n)) /\ \A e \in Clients : e # m.from => SameReplies(e)
    BY <1>5, <2>2, RepliesAppended DEF TakesCall
  <2> QED BY <1>3, <2>1, <2>3
<1>6. ASSUME NEW m, TakesQuietly(m) PROVE Expected(c, a)'
  <2>1. Takes(m) /\ SameReplies(c) /\ ~Completes(m)
    BY <1>6 DEF TakesQuietly, SameReplies, Completes
  <2> QED BY <1>3, <2>1
<1> QED BY <1>1, <1>4, <1>5, <1>6, ServerKinds

LEMMA LostNext == ASSUME ~SendMayFail, Shape, PtrInv, EpochInv, LostInv, [Next]_vars PROVE LostInv'
<1>1. CASE UNCHANGED vars
  BY <1>1 DEF vars, queueVars, serverVars, clientVars, LostInv, NoneLost, Expected, Asks, Answers,
              Tells, Places, Waiting, Running, Todo, Pending, Served
<1> QED BY <1>1, LostClient, LostOther, LostServer DEF Next, LostInv

LEMMA LostHere == ASSUME Shape, LostInv PROVE NoLostCompletion
<1> SUFFICES ASSUME NEW c \in Clients, NEW a \in Acbs, pc[c] \notin Dead, Served(c), Waiting(c, a)
             PROVE  \E f \in InFlight(c) : f[3] = a
  BY DEF NoLostCompletion, Waiting
<1>1. Expected(c, a)
  BY DEF LostInv, NoneLost
<1>2. ASSUME NEW i \in Todo, Asks(c, i), Pending[i].acb = a PROVE \E f \in InFlight(c) : f[3] = a
  <2>1. i \in InRequests(c)
    BY <1>2 DEF Served, InRequests, Todo, Asks
  <2>2. <<"request", i, Pending[i].acb, Pending[i].type>> \in InFlight(c)
    BY <2>1 DEF InFlight
  <2>3. <<"request", i, Pending[i].acb, Pending[i].type>>[3] = a
    BY <1>2
  <2> QED BY <2>2, <2>3
<1>3. ASSUME NEW i \in Places(c), Answers(c, i), reply_mq[c][i].acb = a PROVE \E f \in InFlight(c) : f[3] = a
  <2>1. i \in InReplies(c)
    BY <1>3 DEF InReplies, Places, Answers
  <2>2. <<"reply", i, reply_mq[c][i].acb, reply_mq[c][i].type>> \in InFlight(c)
    BY <2>1 DEF InFlight
  <2>3. <<"reply", i, reply_mq[c][i].acb, reply_mq[c][i].type>>[3] = a
    BY <1>3
  <2> QED BY <2>2, <2>3
<1>4. ASSUME Tells(c), reply_msg_[c].acb = a PROVE \E f \in InFlight(c) : f[3] = a
  <2>1. reply_msg_[c] \in InHand(c)
    BY <1>4 DEF InHand, Tells
  <2>2. <<"hand", 0, reply_msg_[c].acb, reply_msg_[c].type>> \in InFlight(c)
    BY <2>1 DEF InFlight
  <2>3. <<"hand", 0, reply_msg_[c].acb, reply_msg_[c].type>>[3] = a
    BY <1>4
  <2> QED BY <2>2, <2>3
<1> QED BY <1>1, <1>2, <1>3, <1>4 DEF Expected

(***************************************************************************)
(* Unless a send fails, a coroutine that waits on the running server has   *)
(* its bottom half scheduled or a message on its way, whatever the server  *)
(* meets and however replies and requests interleave.  (When a send fails  *)
(* cvbd_co_flush_to_disk yields all the same, see SendThrows.)             *)
(***************************************************************************)
THEOREM CompletionsAreNotLost == ASSUME ~SendMayFail PROVE Spec => []NoLostCompletion
<1>1. Shape /\ PtrInv /\ (EpochInv /\ LostInv) /\ [Next]_vars => (EpochInv /\ LostInv)'
  BY EpochNext, LostNext
<1>2. Init => EpochInv /\ LostInv
  <2>1. Init => LostInv
    BY DEF Init, ServerInit, LostInv, NoneLost, Served
  <2> QED BY <2>1, EpochInit
<1>3. Shape /\ LostInv => NoLostCompletion
  BY LostHere
<1> QED BY <1>1, <1>2, <1>3, AcbHolds, PTL DEF Spec

-------------------------------------------------------------------------------
(***************************************************************************)
(* Deaths.  Without spurious wakeups send_open is woken only when there is *)
(* an answer.                                                              *)
(***************************************************************************)
EarlyInv == \A c \in Clients : pc[c] = "woken" => reply_msg_[c] # Null

LEMMA EarlyInit == Init => EarlyInv
  BY DEF Init, ClientInit, EarlyInv

LEMMA EarlyClient ==
  ASSUME ~SpuriousWakeups, Shape, EarlyInv, NEW c \in Clients, ClientStep(c)
  PROVE  EarlyInv'
<1> SUFFICES ASSUME NEW d \in Clients, pc'[d] = "woken" PROVE reply_msg_'[d] # Null
  BY DEF EarlyInv
<1>1. CASE d # c
  BY <1>1, ShapeClient DEF Others, EarlyInv
<1>2. CASE d = c
  <2>1. pc'[c] \in NotUsing
    BY <1>2 DEF NotUsing, Opening, Reading
  <2>2. ASSUME NEW m, PostsCall(c, m), m.type = "REQ_OPEN" PROVE FALSE
    BY <1>2, <2>2 DEF PostsCall
  <2>3. ASSUME NEW m, Receives(c, m) PROVE reply_msg_'[c] # Null
    BY <2>3, ClientASyncAssumption DEF Receives
  <2>4. ASSUME Moves(c) PROVE reply_msg_'[c] # Null
    <3>1. pc[c] = "woken" \/ thr[c] = "handle"
      BY <1>2, <2>4 DEF Moves
    <3> QED BY <2>4, <3>1, ClientASyncAssumption DEF Moves, EarlyInv, Shape, ClientShape
  <2> QED BY <1>2, <2>1, <2>2, <2>3, <2>4, EarlyKinds
<1> QED BY <1>1, <1>2

LEMMA EarlyNext == ASSUME ~SpuriousWakeups, Shape, EarlyInv, [Next]_vars PROVE EarlyInv'
<1>1. CASE ServerStep \/ UNCHANGED vars
  BY <1>1 DEF vars, ServerStep, clientVars, EarlyInv
<1> QED BY <1>1, EarlyClient DEF Next

\* What a QEMU process can die of.
LEMMA DeathCauses ==
  ASSUME Shape, NEW c \in Clients, ClientStep(c), pc'[c] \in Dead, pc'[c] # pc[c]
  PROVE  \/ OpenAssertFails(c) \/ SendMayFail \/ HandleCompletion(c) \/ QemuKilled(c) \/ DtorCrashes(c)
         \/ \E r \in GuestReads[c] \cup GuestWrites[c] : TooLarge(c, r)
<1>0. pc \in [Clients -> PC]
  BY DEF Shape, ClientTypes
<1>1. ASSUME NEW p, Goto(c, p), p \notin Dead PROVE FALSE
  BY <1>0, <1>1 DEF Goto
<1>2. ~CtorRemove(c) /\ ~CtorOpen(c) /\ ~BeginWait(c) /\ ~SpuriousWakeup(c)
  BY <1>1 DEF CtorRemove, CtorOpen, BeginWait, SpuriousWakeup, Dead
<1>3. ~CtorCreate(c) /\ ~OpenReturns(c) /\ ~DtorFree(c) /\ ~DtorStop(c) /\ ~DtorDelete(c)
  BY <1>1 DEF CtorCreate, OpenReturns, DtorFree, DtorStop, DtorDelete, Dead
<1>4. ~send_open(c) /\ ~send_getsize(c) /\ ~send_close(c) /\ ~GetLengthReturns(c)
  BY <1>1 DEF send_open, send_getsize, send_close, Send, GetLengthReturns, Dead
<1>5. \A a \in Acbs : ~send_readv(c, a) /\ ~send_writev(c, a) /\ ~send_fsync(c, a) /\ ~Yield(c, a)
  BY <1>1 DEF send_readv, send_writev, send_fsync, Send, Yield, Dead
<1>6. pc'[c] # pc[c]
  OBVIOUS
<1>7. \A a \in Acbs : ~cvbd_complete_aio(c, a)
  BY <1>6 DEF cvbd_complete_aio
<1>8. ~ThreadReceives(c) /\ ~HandleStop(c) /\ \A r : ~Misaligned(c, r)
  BY <1>6 DEF ThreadReceives, HandleStop, Misaligned, clientVars
<1>9. ~HandleSignal(c)
  BY <1>1, <1>6 DEF HandleSignal, Dead
<1>10. ASSUME NEW a \in Acbs, NEW acb, Submit(c, a, acb) PROVE FALSE
  BY <1>1, <1>10 DEF Submit, Dead
<1>11. ~Progress(c) \/ OpenAssertFails(c)
  BY <1>2, <1>3, <1>4, <1>5 DEF Progress
<1>12. ~BottomHalf(c) /\ (~ReplyThread(c) \/ HandleCompletion(c))
  BY <1>7, <1>8, <1>9 DEF BottomHalf, ReplyThread, handle_co_reply
<1>13. ASSUME Environment(c)
       PROVE  SendMayFail \/ QemuKilled(c) \/ DtorCrashes(c) \/ \E r \in GuestReads[c] \cup GuestWrites[c] : TooLarge(c, r)
  BY <1>2, <1>4, <1>8, <1>10, <1>13 DEF Environment, cvbd_open, cvbd_getlength, cvbd_close, GetLengthThrows,
     SendThrows, cvbd_co_readv, cvbd_co_writev, cvbd_co_rw, cvbd_co_flush_to_disk
<1> QED BY <1>11, <1>12, <1>13 DEF ClientStep

\* The reply thread always finds the CVBDAIOCB.
LEMMA ThreadSurvives ==
  ASSUME Shape, AcbInv, NEW c \in Clients, HandleCompletion(c)
  PROVE  pc' = pc
<1>1. pc[c] \notin Dead /\ thr[c] = "handle" /\ reply_msg_[c] \in Reply /\ reply_msg_[c].type \in RequestType \ {"REQ_OPEN", "REQ_GETSIZE"}
  BY DEF HandleCompletion, Handling, ThreadRuns, Shape, ClientShape
<1>2. reply_msg_[c].type \in {"REQ_READ", "REQ_FSYNC"}
  BY <1>1 DEF Reply, RequestType
<1>3. About(c, reply_msg_[c])
  BY <1>1, <1>2 DEF AcbInv, Flight, AllLive, Tells, Completes
<1>4. AcbAllocated(c)
  BY <1>3, SharedMemAssumption DEF About, Waiting, AcbAllocated, AcbOf
<1> QED BY <1>2, <1>4 DEF HandleCompletion

(***************************************************************************)
(* If no send throws, pthread_cond_wait returns only when signalled and    *)
(* the guest's requests fit a message, no assertion of the client or the   *)
(* driver fails, for any number of clients and coroutines and whatever     *)
(* happens to the server: send_open is woken by the answer to an OPEN, and *)
(* handle_co_reply knows every reply and the CVBDAIOCB it carries.  That   *)
(* the last proviso is needed is what the run async_large shows.           *)
(***************************************************************************)
THEOREM ClientsNeverAbort ==
  ASSUME ~SendMayFail, ~SpuriousWakeups,
         \A c \in Clients : \A r \in GuestReads[c] \cup GuestWrites[c] : is_request_aligned(r) => SizeOf(r) <= max_data_size
  PROVE  Spec => []ClientNeverAborts
<1>1. Shape /\ EarlyInv /\ [Next]_vars => EarlyInv'
  BY EarlyNext
<1>2. Init => ClientNeverAborts
  BY DEF Init, ClientInit, ClientNeverAborts
<1>3. Shape /\ PtrInv /\ AcbInv /\ EarlyInv /\ ClientNeverAborts /\ [Next]_vars => ClientNeverAborts'
  <2> SUFFICES ASSUME Shape, PtrInv, AcbInv, EarlyInv, ClientNeverAborts, [Next]_vars,
                      NEW d \in Clients, pc'[d] = "aborted"
               PROVE  FALSE
    BY DEF ClientNeverAborts
  <2>1. pc[d] # "aborted" /\ pc' # pc
    BY DEF ClientNeverAborts
  <2>2. PICK c \in Clients : ClientStep(c)
    BY <2>1 DEF Next, ServerStep, clientVars, vars
  <2>3. d = c
    BY <2>1, <2>2, ShapeClient DEF Others
  <2>4. pc'[c] \in Dead /\ pc'[c] # pc[c]
    BY <2>1, <2>3 DEF Dead
  <2>5. ~OpenAssertFails(c)
    BY DEF OpenAssertFails, OpenAnswered, EarlyInv, PtrInv, OpenOnly, NotUsing, Opening, Reading
  <2>6. ~HandleCompletion(c)
    BY <2>1, <2>3, ThreadSurvives
  <2>7. ~QemuKilled(c) /\ ~DtorCrashes(c)
    BY <2>3 DEF QemuKilled, DtorCrashes, Perish, Goto, Shape, ClientTypes
  <2>8. \A r \in GuestReads[c] \cup GuestWrites[c] : ~TooLarge(c, r)
    <3>1. ASSUME NEW r \in GuestReads[c] \cup GuestWrites[c], TooLarge(c, r) PROVE FALSE
      <4>1. is_request_aligned(r) /\ SizeOf(r) > max_data_size /\ SizeOf(r) <= max_data_size
        BY <3>1 DEF TooLarge
      <4>2. SizeOf(r) \in Nat /\ max_data_size \in Nat
        BY CvbdAssumption, SharedMemAssumption DEF SizeOf
      <4> QED BY <4>1, <4>2
    <3> QED BY <3>1
  <2> QED BY <2>2, <2>4, <2>5, <2>6, <2>7, <2>8, DeathCauses
<1> QED BY <1>1, <1>2, <1>3, EarlyInit, AcbHolds, PTL DEF Spec

-------------------------------------------------------------------------------
(***************************************************************************)
(* The life of a VolumeState, when a volume has one user at a time, sends  *)
(* do not throw, pthread_cond_wait returns only when signalled and no QEMU *)
(* is killed while its OPEN is unanswered.                                 *)
(***************************************************************************)
CarefulUse == Exclusive /\ ~SendMayFail /\ ~SpuriousWakeups /\ KillPoints \cap Opening = {}

Ending == {"dtor_free", "dtor_stop", "dtor_delete", "closed"}
Naming == {"open"} \cup Opening

\* Only the destructor frees the reply buffer, and a volume has one user.
UserInv ==
  /\ \A c \in Clients : freed[c] => pc[c] \in Ending
  /\ \A c, d \in Clients : c # d /\ VolumeOf[c] = VolumeOf[d] => pc[c] \in Gone \/ pc[d] \in Gone

\* What a step of a client does to its volume's name and its reply buffer.
Names(c) ==
  /\ \A v \in Volumes : reply_name'[v] = reply_name[v]
                        \/ (v = VolumeOf[c] /\ pc'[c] \in {"ctor_open", "dtor_stop"})
                        \/ (v = VolumeOf[c] /\ pc'[c] = "open" /\ reply_name'[v] = c)
  /\ pc'[c] = "open" => pc[c] = "open" \/ reply_name'[VolumeOf[c]] = c
  /\ freed'[c] => pc'[c] = "dtor_stop" \/ (freed[c] /\ (pc'[c] \in Dead => pc[c] \in Dead))
  /\ pc[c] \in Gone /\ pc'[c] \notin Gone => cvbd_open(c)

LEMMA NamesStep ==
  ASSUME Shape, ~SendMayFail, NEW c \in Clients, ClientStep(c)
  PROVE  Names(c)
<1>0. /\ pc \in [Clients -> PC] /\ freed \in [Clients -> BOOLEAN] /\ VolumeOf[c] \in Volumes
      /\ reply_name \in [Volumes -> Clients \cup {Null}]
  BY SharedMemAssumption DEF Shape, ClientTypes, QueuesTypeOK
<1>1. ASSUME UNCHANGED <<reply_name, freed, pc>> PROVE Names(c)
  BY <1>1 DEF Names
<1>2. ASSUME NEW p, UNCHANGED <<reply_name, freed>>, Goto(c, p), p \notin Dead, p # "open",
             pc[c] \notin Gone
      PROVE  Names(c)
  BY <1>0, <1>2 DEF Names, Goto
<1>3. ASSUME NEW how \in Dead, Perish(c, how) PROVE Names(c)
  <2>1. pc'[c] = how /\ freed'[c] = FALSE /\ reply_name' = reply_name
    BY <1>0, <1>3 DEF Perish, Goto, queueVars
  <2> QED BY <1>3, <2>1 DEF Names, Gone, Dead
<1>4. CASE CtorRemove(c) /\ cvbd_open(c)
  BY <1>0, <1>4 DEF CtorRemove, Goto, Names, Dead
<1>5. CASE CtorOpen(c)
  BY <1>0, <1>5 DEF CtorOpen, Goto, queueVars, Names, Dead, Gone
<1>6. CASE CtorCreate(c)
  BY <1>0, <1>6 DEF CtorCreate, Goto, Names, Dead, Gone
<1>7. CASE DtorFree(c)
  BY <1>0, <1>7 DEF DtorFree, Goto, Names, Dead, Gone
<1>8. CASE BeginWait(c) \/ SpuriousWakeup(c) \/ DtorStop(c)
  BY <1>2, <1>8 DEF BeginWait, SpuriousWakeup, DtorStop, queueVars, Dead, Gone
<1>9. CASE OpenReturns(c) \/ DtorDelete(c)
  BY <1>0, <1>9 DEF OpenReturns, DtorDelete, queueVars, Goto, Names, Dead, Gone
<1>10. CASE send_open(c) \/ send_getsize(c) \/ send_close(c) \/ GetLengthReturns(c)
  BY <1>2, <1>10 DEF send_open, send_getsize, send_close, Send, GetLengthReturns, queueVars, Dead, Gone
<1>11. ASSUME NEW a \in Acbs, send_readv(c, a) \/ send_writev(c, a) \/ send_fsync(c, a) \/ Yield(c, a) PROVE Names(c)
  BY <1>2, <1>11 DEF send_readv, send_writev, send_fsync, Send, Yield, queueVars, Dead, Gone
<1>12. ASSUME NEW a \in Acbs, cvbd_complete_aio(c, a) PROVE Names(c)
  BY <1>1, <1>12 DEF cvbd_complete_aio, queueVars
<1>13. CASE ThreadReceives(c) \/ HandleStop(c) \/ \E r : Misaligned(c, r)
  BY <1>1, <1>13 DEF ThreadReceives, HandleStop, Handles, Misaligned, queueVars, clientVars
<1>14. CASE HandleSignal(c)
  BY <1>1, <1>2, <1>14 DEF HandleSignal, Handles, queueVars, Dead, Gone
<1>15. CASE HandleCompletion(c)
  BY <1>1, <1>3, <1>15 DEF HandleCompletion, queueVars, Dead
<1>16. ASSUME NEW a \in Acbs, NEW x, Submit(c, a, x) PROVE Names(c)
  BY <1>2, <1>16 DEF Submit, Call, queueVars, Dead, Gone
<1>17. CASE OpenAssertFails(c) \/ DtorCrashes(c) \/ QemuKilled(c) \/ \E r : TooLarge(c, r)
  BY <1>3, <1>17 DEF OpenAssertFails, DtorCrashes, QemuKilled, TooLarge, Dead
<1>18. CASE Progress(c)
  BY <1>5, <1>6, <1>7, <1>8, <1>9, <1>10, <1>11, <1>17, <1>18 DEF Progress
<1>19. CASE BottomHalf(c) \/ ReplyThread(c)
  BY <1>12, <1>13, <1>14, <1>15, <1>19 DEF BottomHalf, ReplyThread, handle_co_reply
<1>20. CASE Environment(c)
  BY <1>4, <1>8, <1>10, <1>13, <1>16, <1>17, <1>20 DEF Environment, cvbd_open, cvbd_getlength, cvbd_close,
     GetLengthThrows, SendThrows, cvbd_co_readv, cvbd_co_writev, cvbd_co_rw, cvbd_co_flush_to_disk
<1> QED BY <1>18, <1>19, <1>20 DEF ClientStep

\* Where a client's main thread goes.
Paths(c) ==
  /\ pc[c] \in Ending => pc'[c] \in Ending \cup Dead
  /\ pc'[c] \in Calling => \/ pc[c] \in Calling /\ volume_'[c] = volume_[c]
                           \/ Moves(c) /\ pc[c] = "returning" /\ pc'[c] = "idle"
  /\ pc'[c] \in Ending => pc[c] \in Ending \/ \E m : PostsCall(c, m) /\ m.type = "REQ_CLOSE"
  /\ pc'[c] = "failed" => pc[c] = "failed" \/ (Moves(c) /\ pc[c] \in {"ctor_open", "ctor_create", "returning"})
  /\ pc[c] \in Opening /\ pc'[c] \notin Dead =>
       (\E m : Receives(c, m)) \/ (Moves(c) /\ (pc'[c] \in Opening \/ pc[c] = "returning"))

LEMMA PathsStep ==
  ASSUME Shape, ~SendMayFail, NEW c \in Clients, ClientStep(c)
  PROVE  Paths(c)
<1>1. ASSUME NEW m, PostsCall(c, m) PROVE Paths(c)
  BY <1>1 DEF PostsCall, Posts, Paths, Ending, Calling, Opening, Reading
<1>2. ASSUME pc[c] \in Calling, pc'[c] \in Calling, volume_'[c] = volume_[c] PROVE Paths(c)
  BY <1>2 DEF Paths, Ending, Calling, Opening, Reading
<1>3. ASSUME NEW a \in Acbs, NEW x, NEW y, NEW m, PostsRequest(c, a, x, m) \/ PostsWrite(c, a, x, y, m) PROVE Paths(c)
  BY <1>2, <1>3 DEF PostsRequest, PostsWrite, WritesAcb, Posts, Calling
<1>4. ASSUME NEW m, Receives(c, m) PROVE Paths(c)
  BY <1>4 DEF Receives, Paths
<1>5. CASE PostsStop(c)
  BY <1>5 DEF PostsStop, Paths, Ending, Calling, Opening, Reading
<1>6. CASE Moves(c)
  BY <1>6 DEF Moves, Paths, Ending, Calling, Opening, Reading
<1>7. CASE Perished(c)
  BY <1>7 DEF Perished, Paths, Ending, Calling, Dead
<1>8. ASSUME NEW a \in Acbs, NEW x, NEW y, NEW m, CompletesAcb(c, a, x, y, m) PROVE Paths(c)
  <2>1. pc[c] \in Calling /\ pc' = pc /\ volume_' = volume_
    BY <1>8 DEF CompletesAcb, Shape, ClientShape
  <2> QED BY <1>2, <2>1
<1>9. ASSUME NEW a \in Acbs, NEW x, NEW y, YieldsAcb(c, a, x, y) \/ Frees(c, a) \/ Starts(c, a, x) PROVE Paths(c)
  BY <1>2, <1>9 DEF YieldsAcb, Frees, Starts, Calling
<1> QED BY <1>1, <1>3, <1>4, <1>5, <1>6, <1>7, <1>8, <1>9, ClientKinds

LEMMA UserInit == Init => UserInv
  BY DEF Init, ClientInit, UserInv, Gone

LEMMA UserNext == ASSUME CarefulUse, Shape, UserInv, [Next]_vars PROVE UserInv'
<1>1. CASE UNCHANGED vars \/ ServerStep
  <2>1. UNCHANGED <<freed, pc>>
    BY <1>1 DEF vars, ServerStep, clientVars
  <2> QED BY <2>1 DEF UserInv
<1>2. ASSUME NEW c \in Clients, ClientStep(c) PROVE UserInv'
  <2>1. Others(c) /\ Names(c) /\ Paths(c)
    BY <1>2, ShapeClient, NamesStep, PathsStep DEF CarefulUse
  <2>2. freed'[c] => pc'[c] \in Ending
    <3>1. freed[c] => pc[c] \in Ending /\ pc[c] \notin Dead
      BY DEF UserInv, Ending, Dead
    <3> QED BY <2>1, <3>1 DEF Names, Paths, Ending
  <2>3. \A d \in Clients : freed'[d] => pc'[d] \in Ending
    BY <2>1, <2>2 DEF Others, UserInv
  <2>4. ASSUME NEW d \in Clients, d # c, VolumeOf[c] = VolumeOf[d] PROVE pc'[c] \in Gone \/ pc'[d] \in Gone
    <3>1. pc[c] \in Gone /\ pc'[c] \notin Gone => pc[d] \in Gone
      BY <2>1, <2>4 DEF Names, cvbd_open, CarefulUse
    <3> QED BY <2>1, <2>4, <3>1 DEF Others, UserInv
  <2>5. \A d, e \in Clients : d # e /\ VolumeOf[d] = VolumeOf[e] => pc'[d] \in Gone \/ pc'[e] \in Gone
    BY <2>1, <2>4 DEF Others, UserInv
  <2> QED BY <2>3, <2>5 DEF UserInv
<1> QED BY <1>1, <1>2 DEF Next

\* Nobody dies in the open handshake.
LEMMA SafeOpening ==
  ASSUME CarefulUse, Shape, PtrInv, AcbInv, EarlyInv, UserInv, NEW c \in Clients, ClientStep(c), pc[c] \in Opening
  PROVE  pc'[c] \notin Dead
<1> SUFFICES ASSUME pc'[c] \in Dead PROVE FALSE
  OBVIOUS
<1>1. pc'[c] # pc[c] /\ pc[c] \notin {"idle", "dtor_stop", "closed"} \cup Ending
  BY DEF Opening, Reading, Dead, Ending
<1>2. ~OpenAssertFails(c)
  BY DEF OpenAssertFails, OpenAnswered, EarlyInv, PtrInv, OpenOnly, NotUsing, Opening, Reading
<1>3. ~HandleCompletion(c)
  BY <1>1, ThreadSurvives
<1>4. ~QemuKilled(c)
  BY DEF QemuKilled, CarefulUse
<1>5. ~DtorCrashes(c)
  BY <1>1 DEF DtorCrashes, UserInv
<1>6. \A r : ~TooLarge(c, r)
  BY <1>1 DEF TooLarge, Call
<1> QED BY <1>1, <1>2, <1>3, <1>4, <1>5, <1>6, DeathCauses DEF CarefulUse

\* What the answer r to the OPEN of c says.
Granted(c, r) ==
  /\ r.volume = c
  /\ r.err = 0 => (Served(c) => vols[c] # Null)
  /\ r.err # 0 => vols[c] = Null

\* There is one answer, so that it stays in the buffer while send_open reads it.
Promised(c) ==
  /\ \A i \in Places(c) : i = 1 /\ Granted(c, reply_mq[c][i])
  /\ reply_msg_[c] # Null => Granted(c, reply_msg_[c]) /\ Places(c) = {}

Unanswered(c) == Places(c) = {} /\ reply_msg_[c] = Null
Closes(c, i) == Pending[i].from = c /\ Pending[i].type = "REQ_CLOSE"

\* From the constructor to the destructor, how client and VolumeState belong
\* together: the name of the volume leads to the client, the answer it awaits
\* is about its VolumeState, which it then has until the server has its CLOSE.
Life(c) ==
  /\ vols[c] # Null => Served(c) /\ vols[c] = [file |-> VolumeOf[c], reply_mq |-> c]
  /\ pc[c] \in Naming => reply_name[VolumeOf[c]] = c
  /\ pc[c] \in NotOpened => Unanswered(c)
  /\ pc[c] = "failed" => vols[c] = Null
  /\ pc[c] \in Opening => Promised(c)
  /\ pc[c] = "granted" => reply_msg_[c].err = 0
  /\ pc[c] = "returning" /\ reply_msg_[c].err = 0 => volume_[c] = c
  /\ pc[c] \in Calling => volume_[c] = c /\ (Served(c) => vols[c] # Null)
  /\ pc[c] \in Ending /\ vols[c] # Null => \E i \in Todo : Closes(c, i)

\* What the pending request m at place i says of its sender c.
Proper(c, m, i) ==
  /\ Served(c)
  /\ m.type = "REQ_OPEN" => pc[c] \in Opening /\ Unanswered(c)
  /\ m.type # "REQ_OPEN" => m.volume = c /\ vols[c] # Null
  /\ m.type = "REQ_CLOSE" =>
       pc[c] \notin NotUsing \cup Calling /\ \A j \in Todo : j > i => Pending[j].from # c

InOrder(i) == Proper(Pending[i].from, Pending[i], i)

LifeInv == (\A c \in Clients : Life(c)) /\ \A i \in Todo : InOrder(i)

LEMMA LifeInit == Init => LifeInv
<1> SUFFICES ASSUME Init PROVE LifeInv
  OBVIOUS
<1>1. Todo = {}
  BY DEF Init, ServerInit, Todo
<1>2. ASSUME NEW c \in Clients PROVE Life(c)
  <2>1. pc[c] = "none" /\ reply_mq[c] = << >> /\ reply_msg_[c] = Null /\ vols[c] = Null
    BY DEF Init, ServerInit, ClientInit, QueuesInit
  <2>2. Len(<< >>) = 0
    OBVIOUS
  <2>3. Places(c) = 1 .. 0
    BY <2>1, <2>2 DEF Places
  <2>4. Unanswered(c)
    BY <2>1, <2>3 DEF Unanswered
  <2> QED BY <2>1, <2>4 DEF Life, Naming, Opening, Reading, Calling, Ending
<1> QED BY <1>1, <1>2 DEF LifeInv

\* A step of a client takes no request away.
LEMMA TodoGrows ==
  ASSUME NEW c \in Clients, Mail(c)
  PROVE  \A i \in Todo : i \in Todo' /\ Pending'[i] = Pending[i]
  BY DEF Mail, SameTodo, NewTodo

LEMMA LifeOther ==
  ASSUME Shape, UserInv', NEW c \in Clients, ClientStep(c), Names(c), NEW d \in Clients, d # c, Life(d)
  PROVE  Life(d)'
<1>1. Others(c) /\ Mail(c) /\ UNCHANGED serverVars
  BY ClientMail, ShapeClient DEF ClientStep
<1>2. /\ pc'[d] = pc[d] /\ volume_'[d] = volume_[d] /\ reply_msg_'[d] = reply_msg_[d]
      /\ reply_mq'[d] = reply_mq[d] /\ Places(d)' = Places(d) /\ vols' = vols /\ Served(d)' = Served(d)
  BY <1>1 DEF Others, Mail, SameReplies, Places, serverVars, Served
<1>3. pc[d] \in Naming => reply_name'[VolumeOf[d]] = reply_name[VolumeOf[d]]
  <2>1. VolumeOf[d] \in Volumes
    BY SharedMemAssumption
  <2>2. CASE VolumeOf[d] # VolumeOf[c]
    BY <2>1, <2>2 DEF Names
  <2>3. CASE VolumeOf[d] = VolumeOf[c] /\ pc[d] \in Naming
    <3>1. pc'[d] \notin Gone
      BY <1>2, <2>3 DEF Naming, Opening, Reading, Gone, Dead
    <3>2. pc'[c] \in Gone
      BY <2>3, <3>1 DEF UserInv
    <3>3. pc'[c] \notin {"ctor_open", "dtor_stop", "open"}
      BY <3>2 DEF Gone, Dead
    <3> QED BY <2>1, <3>3 DEF Names
  <2> QED BY <2>2, <2>3
<1>4. (\E i \in Todo : Closes(d, i)) => \E i \in Todo' : Closes(d, i)'
  BY <1>1, TodoGrows DEF Closes
<1>5. Promised(d)' = Promised(d)
  BY <1>2 DEF Promised, Granted
<1>6. Unanswered(d)' = Unanswered(d)
  BY <1>2 DEF Unanswered
<1> QED BY <1>2, <1>3, <1>4, <1>5, <1>6 DEF Life

\* The request queue of a client that has a VolumeState is settled.
LEMMA ServedStays ==
  ASSUME Shape, PtrInv, NEW c \in Clients, ClientStep(c)
  PROVE  pc[c] \notin NotOpened \/ vols[c] # Null => Served(c)' = Served(c)
<1>1. UNCHANGED serverVars
  BY DEF ClientStep
<1>2. request_mq_'[c] = request_mq_[c] \/ pc[c] = "ctor_open"
  BY ClientQueue
<1>3. pc[c] \in NotOpened => vols[c] = Null
  BY DEF PtrInv, Pointer, Fresh
<1> QED BY <1>1, <1>2, <1>3 DEF Served, serverVars, NotOpened

LEMMA LifeSelf ==
  ASSUME CarefulUse, Shape, PtrInv, AcbInv, EarlyInv, UserInv, NEW c \in Clients, ClientStep(c), Life(c)
  PROVE  Life(c)'
<1>1. Mail(c) /\ Names(c) /\ Paths(c) /\ vols' = vols
  BY ClientMail, NamesStep, PathsStep DEF CarefulUse, ClientStep, serverVars
<1>2. pc[c] \notin NotOpened \/ vols[c] # Null => Served(c)' = Served(c)
  BY ServedStays
<1>3. pc[c] \in NotOpened => vols[c] = Null
  BY DEF PtrInv, Pointer, Fresh
<1>4. vols'[c] # Null => Served(c)' /\ vols'[c] = [file |-> VolumeOf[c], reply_mq |-> c]
  BY <1>1, <1>2 DEF Life
<1>5. ASSUME pc'[c] \in Naming PROVE reply_name'[VolumeOf[c]] = c
  <2>1. CASE pc[c] \in Naming
    <3>1. reply_name[VolumeOf[c]] = c /\ VolumeOf[c] \in Volumes
      BY <2>1, SharedMemAssumption DEF Life
    <3>2. pc'[c] \notin {"ctor_open", "dtor_stop"}
      BY <1>5 DEF Naming, Opening, Reading
    <3> QED BY <1>1, <3>1, <3>2 DEF Names
  <2>2. CASE pc[c] \notin Naming
    <3>1. pc'[c] \in NotUsing
      BY <1>5 DEF Naming, NotUsing, NotOpened
    <3>2. pc'[c] = "open"
      <4>1. ASSUME NEW m, PostsCall(c, m) PROVE pc[c] \in Naming \/ pc'[c] \notin Naming
        BY <4>1 DEF PostsCall, Naming, Opening, Reading
      <4>2. ASSUME NEW m, Receives(c, m) PROVE pc[c] = pc'[c]
        BY <4>2 DEF Receives
      <4>3. ASSUME Moves(c) PROVE pc'[c] = "open"
        BY <1>5, <2>2, <4>3 DEF Moves, Naming, Opening, Reading
      <4> QED BY <1>5, <2>2, <3>1, <4>1, <4>2, <4>3, EarlyKinds
    <3> QED BY <1>1, <2>2, <3>2 DEF Names, Naming
  <2> QED BY <2>1, <2>2
<1>6. ASSUME NEW m, PostsCall(c, m) PROVE Places(c)' = Places(c) /\ UNCHANGED <<reply_mq, reply_msg_>>
  BY <1>6 DEF PostsCall, Posts, Places
<1>7. ASSUME Moves(c) PROVE Places(c)' = Places(c) /\ UNCHANGED <<reply_mq, reply_msg_>>
  BY <1>7 DEF Moves, Places
<1>8. ASSUME Places(c) = {}, NEW m, Receives(c, m) PROVE FALSE
  <2>1. PICK n : TakenReply(c, m, n)
    BY <1>8, RepliesTaken DEF Receives
  <2>2. 1 \in Places(c)
    BY <2>1 DEF TakenReply, Places
  <2> QED BY <1>8, <2>2
<1>a. pc[c] \in Answered => reply_msg_[c] # Null
  BY ClientASyncAssumption DEF Shape, ClientShape
<1>9. ASSUME pc'[c] \in NotOpened PROVE Unanswered(c)'
  <2>1. pc[c] \in NotOpened /\ pc'[c] \in NotUsing
    BY <1>1, <1>9 DEF Mail, NotUsing
  <2>2. Unanswered(c)
    BY <2>1 DEF Life
  <2> QED BY <1>6, <1>7, <1>8, <2>1, <2>2, EarlyKinds DEF Unanswered
<1>10. ASSUME pc'[c] = "failed" PROVE vols'[c] = Null
  <2>1. CASE pc[c] = "failed" \/ pc[c] \in {"ctor_open", "ctor_create"}
    BY <1>1, <1>3, <2>1 DEF Life, NotOpened
  <2>2. CASE Moves(c) /\ pc[c] = "returning"
    <3>1. reply_msg_[c] # Null /\ reply_msg_[c].err # 0
      BY <1>a, <1>10, <2>2 DEF Moves, Answered
    <3>2. Granted(c, reply_msg_[c])
      BY <2>2, <3>1 DEF Life, Promised, Opening, Reading
    <3> QED BY <1>1, <3>1, <3>2 DEF Granted
  <2> QED BY <1>1, <1>10, <2>1, <2>2 DEF Paths
<1>11. ASSUME pc'[c] \in Opening PROVE Promised(c)'
  <2>1. pc'[c] \in NotUsing
    BY <1>11 DEF NotUsing
  <2>2. CASE pc[c] \in NotOpened
    <3>1. Unanswered(c)
      BY <2>2 DEF Life
    <3> QED BY <1>6, <1>7, <1>8, <2>1, <3>1, EarlyKinds DEF Unanswered, Promised
  <2>3. CASE pc[c] \in Opening
    <3>0. pc[c] \notin NotOpened
      BY <2>3 DEF Opening, Reading, NotOpened
    <3>2. /\ \A i \in Places(c) : i = 1 /\ Granted(c, reply_mq[c][i])
          /\ reply_msg_[c] # Null => Granted(c, reply_msg_[c]) /\ Places(c) = {}
      BY <2>3 DEF Life, Promised
    <3>3. ASSUME NEW m, Receives(c, m)
          PROVE  Places(c)' = {} /\ Granted(c, reply_msg_'[c])
      <4>1. PICK n : TakenReply(c, m, n)
        BY <3>3, RepliesTaken DEF Receives
      <4>2. 1 \in Places(c) /\ reply_mq[c][1] = m /\ reply_msg_'[c] = m
        BY <3>3, <4>1 DEF TakenReply, Places, Receives
      <4>3. \A i \in Places(c)' : i \in Int /\ i >= 1 /\ i + 1 \in Places(c)
        BY <4>1 DEF TakenReply, Places
      <4> QED BY <3>2, <4>2, <4>3
    <3>4. /\ \A i \in Places(c)' : i = 1 /\ Granted(c, reply_mq'[c][i])
          /\ reply_msg_'[c] # Null => Granted(c, reply_msg_'[c]) /\ Places(c)' = {}
      BY <1>6, <1>7, <2>1, <3>2, <3>3, EarlyKinds
    <3> QED BY <1>1, <1>2, <3>0, <3>4 DEF Promised, Granted
  <2> QED BY <2>1, <2>2, <2>3, EarlyKinds DEF NotUsing
<1>12. ASSUME pc'[c] \in Calling PROVE volume_'[c] = c /\ (Served(c)' => vols'[c] # Null)
  <2>1. CASE pc[c] \in Calling /\ volume_'[c] = volume_[c]
    <3>1. Served(c)' = Served(c)
      BY <1>2, <2>1 DEF Calling, NotOpened
    <3> QED BY <1>1, <2>1, <3>1 DEF Life
  <2>2. CASE Moves(c) /\ pc[c] = "returning" /\ pc'[c] = "idle"
    <3>1. reply_msg_[c] # Null /\ reply_msg_[c].err = 0 /\ volume_'[c] = volume_[c]
      BY <1>a, <2>2 DEF Moves, Answered
    <3>2. Granted(c, reply_msg_[c]) /\ volume_[c] = c
      BY <2>2, <3>1 DEF Life, Promised, Opening, Reading
    <3>3. Served(c)' = Served(c)
      BY <1>2, <2>2 DEF NotOpened
    <3> QED BY <1>1, <3>1, <3>2, <3>3 DEF Granted
  <2> QED BY <1>1, <1>12, <2>1, <2>2 DEF Paths
<1>13. ASSUME pc'[c] \in Ending, vols'[c] # Null PROVE \E i \in Todo' : Closes(c, i)'
  <2>1. CASE pc[c] \in Ending
    <3>1. PICK i \in Todo : Closes(c, i)
      BY <1>1, <1>13, <2>1 DEF Life
    <3> QED BY <1>1, <3>1, TodoGrows DEF Closes
  <2>2. ASSUME NEW m, PostsCall(c, m), m.type = "REQ_CLOSE" PROVE \E i \in Todo' : Closes(c, i)'
    <3>1. Served(c) /\ Posts(c, m) /\ m.from = c
      BY <1>1, <1>13, <2>2 DEF Life, PostsCall, Posts
    <3>2. PICK n : NewTodo(m, n)
      BY <3>1, TodoPosts DEF ClientStep
    <3>3. n \in Todo' /\ Pending'[n] = m
      BY <3>2 DEF NewTodo
    <3> QED BY <2>2, <3>1, <3>3 DEF Closes
  <2> QED BY <1>1, <1>13, <2>1, <2>2 DEF Paths
<1>14. ASSUME pc'[c] \in {"granted", "returning"}
       PROVE  /\ pc'[c] = "granted" => reply_msg_'[c].err = 0
              /\ pc'[c] = "returning" /\ reply_msg_'[c].err = 0 => volume_'[c] = c
  <2>1. pc'[c] \in NotUsing
    BY <1>14 DEF NotUsing, Opening, Reading
  <2>2. ASSUME NEW m, PostsCall(c, m), m.type = "REQ_OPEN" PROVE FALSE
    BY <1>14, <2>2 DEF PostsCall
  <2>3. ASSUME NEW m, Receives(c, m) PROVE FALSE
    <3>1. pc[c] \in {"granted", "returning"}
      BY <1>14, <2>3 DEF Receives
    <3>2. pc[c] \in Opening /\ reply_msg_[c] # Null
      BY <1>a, <3>1 DEF Opening, Reading, Answered
    <3>3. Places(c) = {}
      BY <3>2 DEF Life, Promised
    <3> QED BY <1>8, <2>3, <3>3
  <2>4. CASE Moves(c)
    <3>1. reply_msg_' = reply_msg_
      BY <2>4 DEF Moves
    <3>2. CASE pc'[c] = pc[c]
      BY <1>14, <2>4, <3>1, <3>2 DEF Moves, Life
    <3>3. CASE pc[c] = "typed"
      BY <1>14, <2>4, <3>1, <3>3 DEF Moves
    <3>4. CASE pc[c] = "granted" /\ pc'[c] = "returning"
      <4>1. Granted(c, reply_msg_[c])
        BY <1>a, <3>4 DEF Life, Promised, Opening, Reading, Answered
      <4> QED BY <2>4, <3>4, <4>1 DEF Moves, Granted
    <3> QED BY <1>14, <2>4, <3>2, <3>3, <3>4 DEF Moves
  <2> QED BY <2>1, <2>2, <2>3, <2>4, EarlyKinds
<1> QED BY <1>4, <1>5, <1>9, <1>10, <1>11, <1>12, <1>13, <1>14 DEF Life

\* A request that is pending stays as it should be.
LEMMA ProperStays ==
  ASSUME CarefulUse, Shape, PtrInv, AcbInv, EarlyInv, UserInv, LifeInv, NEW c \in Clients, ClientStep(c),
         NEW d \in Clients, NEW m, NEW i \in Todo, Pending[i] = m, m.from = d, Proper(d, m, i)
  PROVE  /\ Served(d)'
         /\ m.type = "REQ_OPEN" => pc'[d] \in Opening /\ Unanswered(d)'
         /\ m.type # "REQ_OPEN" => m.volume = d /\ vols'[d] # Null
         /\ m.type = "REQ_CLOSE" => pc'[d] \notin NotUsing \cup Calling
<1>1. Others(c) /\ Mail(c) /\ UNCHANGED serverVars /\ vols' = vols
  BY ClientMail, ShapeClient DEF ClientStep, serverVars
<1>2. CASE d # c
  <2>1. /\ pc'[d] = pc[d] /\ Unanswered(d)' = Unanswered(d) /\ Served(d)' = Served(d)
    BY <1>1, <1>2 DEF Others, Mail, SameReplies, Places, serverVars, Served, Unanswered
  <2> QED BY <1>1, <2>1 DEF Proper
<1>3. CASE d = c
  <2>1. Paths(c)
    BY PathsStep DEF CarefulUse
  <2>2. Served(c)'
    <3>1. pc[c] \notin NotOpened \/ vols[c] # Null
      BY <1>3 DEF Proper, Opening, Reading, NotOpened
    <3> QED BY <1>3, <3>1, ServedStays DEF Proper
  <2>3. ASSUME m.type = "REQ_OPEN" PROVE pc'[c] \in Opening /\ Unanswered(c)'
    <3>1. pc[c] \in Opening /\ Places(c) = {} /\ reply_msg_[c] = Null
      BY <1>3, <2>3 DEF Proper, Unanswered
    <3>2. pc'[c] \notin Dead
      BY <3>1, SafeOpening
    <3>3. ASSUME NEW r, Receives(c, r) PROVE FALSE
      <4>1. PICK n : TakenReply(c, r, n)
        BY <3>3, RepliesTaken DEF Receives
      <4>2. 1 \in Places(c)
        BY <4>1 DEF TakenReply, Places
      <4> QED BY <3>1, <4>2
    <3>4. Moves(c) /\ (pc'[c] \in Opening \/ pc[c] = "returning")
      BY <2>1, <3>1, <3>2, <3>3 DEF Paths
    <3>6. pc[c] # "returning"
      BY <3>1, ClientASyncAssumption DEF Shape, ClientShape, Answered
    <3>5. Places(c)' = Places(c) /\ reply_msg_' = reply_msg_
      BY <3>4 DEF Moves, Places
    <3> QED BY <3>1, <3>4, <3>5, <3>6 DEF Unanswered
  <2>4. ASSUME m.type = "REQ_CLOSE" PROVE pc'[c] \notin NotUsing \cup Calling
    <3>1. pc[c] \notin NotUsing \cup Calling
      BY <1>3, <2>4 DEF Proper
    <3>2. pc[c] # "returning"
      BY <3>1 DEF NotUsing, Opening, Reading
    <3> QED BY <2>1, <3>1, <3>2, EarlyKinds DEF Paths
  <2> QED BY <1>1, <1>3, <2>2, <2>3, <2>4 DEF Proper
<1> QED BY <1>2, <1>3

\* A request that c sends is as it should be.
LEMMA ProperPosts ==
  ASSUME Shape, LifeInv, NEW c \in Clients, ClientStep(c), Served(c), NEW m, Posts(c, m), Sent(c, m),
         NEW n, NewTodo(m, n), m.type = "REQ_CLOSE" => pc'[c] = "dtor_free"
  PROVE  Proper(c, m, n)'
<1>1. Life(c) /\ vols' = vols /\ Served(c)'
  BY DEF LifeInv, ClientStep, Served, serverVars, Posts
<1>2. ASSUME m.type = "REQ_OPEN" PROVE pc'[c] \in Opening /\ Unanswered(c)'
  <2>1. pc[c] = "open" /\ pc'[c] = "before_wait"
    BY <1>2 DEF Sent
  <2>2. Unanswered(c)
    BY <1>1, <2>1 DEF Life, NotOpened
  <2>3. Places(c)' = Places(c) /\ reply_msg_' = reply_msg_
    BY DEF Posts, Places
  <2> QED BY <2>1, <2>2, <2>3 DEF Unanswered, Opening, Reading
<1>3. ASSUME m.type # "REQ_OPEN" PROVE m.volume = c /\ vols'[c] # Null
  <2>1. m.volume = volume_[c] /\ pc[c] \in Calling
    BY <1>3 DEF Sent, Calling
  <2> QED BY <1>1, <2>1 DEF Life
<1>4. ASSUME m.type = "REQ_CLOSE"
      PROVE  pc'[c] \notin NotUsing \cup Calling /\ \A j \in Todo' : j > n => Pending'[j].from # c
  <2>1. pc'[c] \notin NotUsing \cup Calling
    BY <1>4 DEF NotUsing, NotOpened, Opening, Reading, Calling
  <2>2. \A j \in Todo' : ~(j > n)
    BY DEF NewTodo
  <2> QED BY <2>1, <2>2
<1> QED BY <1>1, <1>2, <1>3, <1>4 DEF Proper

\* The requests of c that come behind a CLOSE: none, since c is done.
LEMMA LifeClient ==
  ASSUME CarefulUse, Shape, PtrInv, AcbInv, EarlyInv, UserInv, UserInv', LifeInv, NEW c \in Clients, ClientStep(c)
  PROVE  LifeInv'
<1>1. ASSUME NEW d \in Clients PROVE Life(d)'
  <2>1. Names(c) /\ Life(d)
    BY NamesStep DEF CarefulUse, LifeInv
  <2> QED BY <2>1, LifeOther, LifeSelf
<1>2. ASSUME NEW i \in Todo, i \in Todo', Pending'[i] = Pending[i],
             \A j \in Todo' : j \in Todo \/ (Pending'[j].from = c /\ pc[c] \in NotUsing \cup Calling),
             \A j \in Todo : Pending'[j] = Pending[j]
      PROVE  InOrder(i)'
  <2>1. PICK m : m = Pending[i]
    OBVIOUS
  <2>2. PICK d \in Clients : d = m.from
    BY <2>1 DEF PtrInv, Addressed, Request
  <2>3. Proper(d, m, i)
    BY <2>1, <2>2 DEF LifeInv, InOrder
  <2>4. /\ Served(d)'
        /\ m.type = "REQ_OPEN" => pc'[d] \in Opening /\ Unanswered(d)'
        /\ m.type # "REQ_OPEN" => m.volume = d /\ vols'[d] # Null
        /\ m.type = "REQ_CLOSE" => pc'[d] \notin NotUsing \cup Calling
    BY <2>1, <2>2, <2>3, ProperStays
  <2>5. ASSUME m.type = "REQ_CLOSE", NEW j \in Todo', j > i PROVE Pending'[j].from # d
    BY <1>2, <2>3, <2>5 DEF Proper
  <2>6. Proper(d, m, i)'
    BY <2>4, <2>5 DEF Proper
  <2> QED BY <1>2, <2>1, <2>2, <2>6 DEF InOrder, Proper
<1>3. ASSUME SameTodo, NEW i \in Todo' PROVE InOrder(i)'
  BY <1>2, <1>3 DEF SameTodo
<1>4. ASSUME NEW m, Posts(c, m), Sent(c, m), m.type = "REQ_CLOSE" => pc'[c] = "dtor_free",
             NEW i \in Todo'
      PROVE  InOrder(i)'
  <2>1. CASE SameTodo
    BY <1>3, <2>1
  <2>2. ASSUME Served(c), NEW n, NewTodo(m, n) PROVE InOrder(i)'
    <3>1. pc[c] \in NotUsing \cup Calling /\ m.from = c
      BY <1>4 DEF Sent, NotUsing, NotOpened, Calling
    <3>2. \A j \in Todo' : j \in Todo \/ j = n
      BY <2>2 DEF NewTodo
    <3>3. CASE i = n
      <4>1. Proper(c, m, n)'
        BY <1>4, <2>2, ProperPosts
      <4> QED BY <2>2, <3>1, <3>3, <4>1 DEF NewTodo, InOrder, Proper
    <3>4. CASE i \in Todo
      BY <1>2, <2>2, <3>1, <3>2, <3>4 DEF NewTodo
    <3> QED BY <3>2, <3>3, <3>4
  <2> QED BY <1>4, <2>1, <2>2, TodoPosts DEF ClientStep
<1>5. ASSUME NEW i \in Todo' PROVE InOrder(i)'
  <2>1. CASE SameTodo
    BY <1>3, <2>1
  <2>2. ASSUME NEW m, PostsCall(c, m) PROVE InOrder(i)'
    <3>1. Posts(c, m) /\ Sent(c, m) /\ (m.type = "REQ_CLOSE" => pc'[c] = "dtor_free")
      BY <2>2 DEF PostsCall, Posts, Sent, NotOpened
    <3> QED BY <1>4, <3>1
  <2>3. ASSUME NEW a \in Acbs, NEW x, NEW m, PostsRequest(c, a, x, m) PROVE InOrder(i)'
    <3>1. Posts(c, m) /\ Sent(c, m) /\ m.type # "REQ_CLOSE"
      BY <2>3 DEF PostsRequest, Posts, Sent, NotOpened
    <3> QED BY <1>4, <3>1
  <2>4. ASSUME NEW a \in Acbs, NEW x, NEW y, NEW m, PostsWrite(c, a, x, y, m) PROVE InOrder(i)'
    <3>1. Posts(c, m) /\ Sent(c, m) /\ m.type # "REQ_CLOSE"
      BY <2>4 DEF PostsWrite, WritesAcb, Posts, Sent, NotOpened
    <3> QED BY <1>4, <3>1
  <2>5. ASSUME request_mq' = request_mq PROVE SameTodo
    BY <2>5, TodoSame DEF ClientStep
  <2>6. CASE PostsStop(c) \/ Moves(c) \/ Perished(c) \/ \E m : Receives(c, m)
    BY <2>1, <2>5, <2>6 DEF PostsStop, Moves, Perished, Receives, queueVars
  <2>7. ASSUME NEW a \in Acbs, NEW x, NEW y, NEW m, CompletesAcb(c, a, x, y, m) PROVE SameTodo
    BY <2>5, <2>7 DEF CompletesAcb, queueVars
  <2>8. ASSUME NEW a \in Acbs, NEW x, NEW y, YieldsAcb(c, a, x, y) \/ Frees(c, a) \/ Starts(c, a, x) PROVE SameTodo
    BY <2>5, <2>8 DEF YieldsAcb, Frees, Starts, queueVars
  <2> QED BY <2>1, <2>2, <2>3, <2>4, <2>6, <2>7, <2>8, ClientKinds
<1>6. \A i \in Todo' : InOrder(i)'
  BY <1>5
<1> QED BY <1>1, <1>6 DEF LifeInv

\* With the server goes all that clients were served with.
LEMMA LifeGone ==
  ASSUME Shape, EpochInv, LifeInv, ServerStep, Stopped \/ Started
  PROVE  LifeInv'
<1>1. /\ UNCHANGED clientVars /\ UNCHANGED <<pc, volume_, reply_msg_, reply_mq, reply_name>>
      /\ \A c \in Clients : Places(c)' = Places(c)
  BY DEF ServerStep, clientVars, Stopped, Started, Places
<1>2. Todo' = {} /\ \A c \in Clients : ~Served(c)'
  BY TodoGone, ServedBefore
<1>3. ASSUME NEW c \in Clients PROVE vols'[c] = Null
  <2>1. CASE vols' = [d \in Clients |-> Null]
    BY <2>1
  <2>2. CASE vols' = vols /\ server # "up"
    <3>1. ~Served(c)
      BY <2>2 DEF Served
    <3> QED BY <2>2, <3>1 DEF LifeInv, Life
  <2> QED BY <2>1, <2>2 DEF Stopped, Started
<1>4. ASSUME NEW c \in Clients PROVE Life(c)'
  <2>1. Life(c) /\ Unanswered(c)' = Unanswered(c)
    BY <1>1 DEF LifeInv, Unanswered
  <2>2. Promised(c) => Promised(c)'
    BY <1>1, <1>2, <1>3 DEF Promised, Granted
  <2> QED BY <1>1, <1>2, <1>3, <2>1, <2>2 DEF Life
<1> QED BY <1>2, <1>4 DEF LifeInv

\* The requests of a client that are left when the server has taken one.
LEMMA ClosesTaken ==
  ASSUME NEW m, Takes(m), NEW c \in Clients, m.from # c \/ m.type # "REQ_CLOSE", NEW i \in Todo, Closes(c, i)
  PROVE  \E j \in Todo' : Closes(c, j)'
<1>1. PICK n : DoneTodo(m, n)
  BY TodoTakes
<1>2. i # 1
  BY <1>1 DEF DoneTodo, Closes
<1>3. PICK j : j = i - 1
  OBVIOUS
<1>4. j \in 1 .. (n - 1) /\ j + 1 = i
  BY <1>1, <1>2, <1>3 DEF DoneTodo
<1>5. j \in Todo' /\ Pending'[j] = Pending[i]
  BY <1>1, <1>4 DEF DoneTodo
<1> QED BY <1>5 DEF Closes

\* A turn of the server that is not about the OPEN or CLOSE of c.
LEMMA LifeTaken ==
  ASSUME NEW m, Takes(m), UNCHANGED clientVars, NEW c \in Clients, Life(c), vols'[c] = vols[c],
         SameReplies(c) \/ pc[c] \notin NotUsing, m.from # c \/ m.type # "REQ_CLOSE"
  PROVE  Life(c)'
<1>1. /\ UNCHANGED <<pc, volume_, reply_msg_, reply_name>> /\ Served(c)' = Served(c)
  BY DEF Takes, clientVars, Served
<1>2. (\E i \in Todo : Closes(c, i)) => \E i \in Todo' : Closes(c, i)'
  BY ClosesTaken
<1>3. SameReplies(c) => Places(c)' = Places(c) /\ reply_mq'[c] = reply_mq[c]
  BY DEF SameReplies, Places
<1>4. pc[c] \in NotOpened /\ Unanswered(c) => Unanswered(c)'
  BY <1>1, <1>3 DEF Unanswered, NotUsing
<1>5. pc[c] \in Opening /\ Promised(c) => Promised(c)'
  BY <1>1, <1>3 DEF Promised, Granted, NotUsing
<1> QED BY <1>1, <1>2, <1>4, <1>5 DEF Life

LEMMA ProperTaken ==
  ASSUME PtrInv, LifeInv, NEW m, Takes(m), UNCHANGED clientVars, NEW i \in Todo', NEW q, q = Pending'[i],
         q.type = "REQ_OPEN" => SameReplies(q.from), q.type # "REQ_OPEN" => vols'[q.from] # Null
  PROVE  InOrder(i)'
<1>1. PICK n : DoneTodo(m, n)
  BY TodoTakes
<1>2. i \in Int /\ i + 1 \in Todo /\ q = Pending[i + 1]
  BY <1>1 DEF DoneTodo
<1>3. PICK e \in Clients : e = q.from
  BY <1>2 DEF PtrInv, Addressed, Request
<1>4. Proper(e, q, i + 1)
  BY <1>2, <1>3 DEF LifeInv, InOrder
<1>5. UNCHANGED <<pc, reply_msg_>> /\ Served(e)' = Served(e)
  BY DEF Takes, clientVars, Served
<1>6. q.type = "REQ_OPEN" => pc'[e] \in Opening /\ Unanswered(e)'
  BY <1>3, <1>4, <1>5 DEF Proper, Unanswered, SameReplies, Places
<1>7. ASSUME q.type = "REQ_CLOSE", NEW j \in Todo', j > i PROVE Pending'[j].from # e
  <2>1. j \in Int /\ j + 1 \in Todo /\ Pending'[j] = Pending[j + 1]
    BY <1>1 DEF DoneTodo
  <2>2. j + 1 > i + 1
    BY <1>2, <1>7, <2>1
  <2> QED BY <1>4, <1>7, <2>1, <2>2 DEF Proper
<1>8. Proper(e, q, i)'
  BY <1>3, <1>4, <1>5, <1>6, <1>7 DEF Proper
<1> QED BY <1>3, <1>8 DEF InOrder, Proper

\* The server takes the OPEN of a client and answers it.
LEMMA LifeOpens ==
  ASSUME Shape, PtrInv, LifeInv, UNCHANGED clientVars, NEW m, NEW d, NEW r, TakesOpen(m, d, r)
  PROVE  LifeInv'
<1>1. Takes(m) /\ m.type = "REQ_OPEN" /\ d = reply_name[m.name] /\ d \in Clients
  BY DEF TakesOpen
<1>2. 1 \in Todo /\ Pending[1] = m /\ \A i \in Todo' : i + 1 \in Todo /\ i + 1 # 1 /\ Pending'[i] = Pending[i + 1]
  BY <1>1, TakenPlaces
<1>3. m.from \in Clients /\ m.name = VolumeOf[m.from] /\ m.name \in Volumes
  BY <1>2 DEF PtrInv, Addressed, Request
<1>4. Proper(m.from, m, 1)
  BY <1>2 DEF LifeInv, InOrder
<1>5. Served(m.from) /\ pc[m.from] \in Opening /\ Unanswered(m.from)
  BY <1>1, <1>4 DEF Proper
<1>6. d = m.from
  BY <1>1, <1>3, <1>5 DEF LifeInv, Life, Naming
<1>7. Opens(d, 1) /\ vols[d] = Null /\ \A j \in Todo : Opens(d, j) => j = 1
  BY <1>1, <1>2, <1>6 DEF Opens, PtrInv, Pointer, Fresh
<1>8. (\E n : NewReply(d, r, n)) /\ \A e \in Clients : e # d => SameReplies(e)
  BY <1>1, RepliesAppended DEF TakesOpen
<1>9. PICK v : v = [file |-> VolumeOf[d], reply_mq |-> d]
  OBVIOUS
<1>10. v # Null
  BY <1>1, <1>3, <1>6, <1>9, SharedMemAssumption DEF VolumeState
<1>11. /\ \A e \in Clients : e # d => vols'[e] = vols[e]
       /\ (r.err = 0 /\ vols'[d] = v) \/ (r.err = -1 /\ vols'[d] = vols[d])
  BY <1>1, <1>3, <1>6, <1>9 DEF TakesOpen, Shape, ServerTypeOK
<1>12. Life(d)'
  <2>1. PICK n : NewReply(d, r, n)
    BY <1>8
  <2>2. UNCHANGED <<pc, volume_, reply_msg_, reply_name>> /\ Served(d)'
    BY <1>1, <1>5, <1>6 DEF Takes, clientVars, Served
  <2>3. \A i \in Places(d)' : i = 1 /\ reply_mq'[d][i] = r
    <3>1. n = 1
      <4>1. Len(reply_mq[d]) \notin Places(d)
        BY <1>5, <1>6 DEF Unanswered
      <4> QED BY <2>1, <4>1 DEF NewReply, Places
    <3> QED BY <2>1, <3>1 DEF NewReply, Places
  <2>4. reply_msg_'[d] = Null
    BY <1>5, <1>6, <2>2 DEF Unanswered
  <2>5. Granted(d, r)'
    <3>1. r.volume = d
      BY <1>6 DEF TakesOpen
    <3> QED BY <1>7, <1>10, <1>11, <3>1 DEF Granted
  <2>6. Promised(d)'
    BY <2>3, <2>4, <2>5 DEF Promised, Granted
  <2>7. vols'[d] # Null => Served(d)' /\ vols'[d] = [file |-> VolumeOf[d], reply_mq |-> d]
    BY <1>7, <1>9, <1>11, <2>2
  <2>8. pc'[d] \in Opening /\ reply_name'[VolumeOf[d]] = d
    BY <1>1, <1>3, <1>5, <1>6, <2>2
  <2>9. /\ pc'[d] = "granted" => reply_msg_'[d].err = 0
        /\ pc'[d] = "returning" /\ reply_msg_'[d].err = 0 => volume_'[d] = d
    BY <1>1, <2>2 DEF LifeInv, Life
  <2> QED BY <2>6, <2>7, <2>8, <2>9 DEF Life, NotOpened, Opening, Reading, Calling, Ending
<1>13. ASSUME NEW c \in Clients, c # d PROVE Life(c)'
  <2>1. Life(c) /\ vols'[c] = vols[c] /\ SameReplies(c)
    BY <1>8, <1>11, <1>13 DEF LifeInv
  <2> QED BY <1>1, <2>1, LifeTaken
<1>14. ASSUME NEW i \in Todo' PROVE InOrder(i)'
  <2>1. PICK q : q = Pending'[i] /\ q = Pending[i + 1] /\ i + 1 \in Todo /\ i + 1 # 1
    BY <1>2
  <2>2. PICK e \in Clients : e = q.from
    BY <2>1 DEF PtrInv, Addressed, Request
  <2>3. Proper(e, q, i + 1)
    BY <2>1, <2>2 DEF LifeInv, InOrder
  <2>4. e # d
    <3>1. q.type # "REQ_OPEN" => vols[e] # Null
      BY <2>3 DEF Proper
    <3>2. q.type = "REQ_OPEN" => Opens(e, i + 1)
      BY <2>1, <2>2 DEF Opens
    <3> QED BY <1>7, <2>1, <3>1, <3>2
  <2>5. SameReplies(e) /\ (q.type # "REQ_OPEN" => vols'[e] # Null)
    BY <1>8, <1>11, <2>3, <2>4 DEF Proper
  <2> QED BY <1>1, <2>1, <2>2, <2>5, ProperTaken
<1> QED BY <1>12, <1>13, <1>14 DEF LifeInv

\* The server answers another request; the answer finds its sender.
LEMMA LifeCalls ==
  ASSUME Shape, PtrInv, LifeInv, UNCHANGED clientVars, NEW m, NEW w, NEW r, TakesCall(m, w, r)
  PROVE  LifeInv'
<1>1. /\ Takes(m) /\ m.type # "REQ_OPEN" /\ m.type # "REQ_CLOSE" /\ vols' = vols
      /\ w \in Clients /\ m.volume = w /\ vols[w] # Null
  BY DEF TakesCall
<1>2. 1 \in Todo /\ Pending[1] = m /\ \A i \in Todo' : i + 1 \in Todo /\ Pending'[i] = Pending[i + 1]
  BY <1>1, TakenPlaces
<1>3. PICK d \in Clients : d = m.from /\ vols[w].reply_mq = d
  BY <1>1, GoesHome
<1>4. pc[d] \notin NotUsing
  BY <1>1, <1>2, <1>3 DEF PtrInv, OpenOnly
<1>5. \A e \in Clients : e # d => SameReplies(e)
  BY <1>3, RepliesAppended DEF TakesCall
<1>6. ASSUME NEW c \in Clients PROVE Life(c)'
  <2>1. Life(c) /\ vols'[c] = vols[c] /\ (SameReplies(c) \/ pc[c] \notin NotUsing)
    BY <1>1, <1>4, <1>5 DEF LifeInv
  <2> QED BY <1>1, <2>1, LifeTaken
<1>7. ASSUME NEW i \in Todo' PROVE InOrder(i)'
  <2>1. PICK q : q = Pending'[i] /\ q = Pending[i + 1] /\ i + 1 \in Todo
    BY <1>2
  <2>2. PICK e \in Clients : e = q.from
    BY <2>1 DEF PtrInv, Addressed, Request
  <2>3. Proper(e, q, i + 1)
    BY <2>1, <2>2 DEF LifeInv, InOrder
  <2>4. (q.type = "REQ_OPEN" => SameReplies(e)) /\ (q.type # "REQ_OPEN" => vols'[e] # Null)
    BY <1>1, <1>4, <1>5, <2>3 DEF Proper, NotUsing
  <2> QED BY <1>1, <2>1, <2>2, <2>4, ProperTaken
<1> QED BY <1>6, <1>7 DEF LifeInv

\* The server takes a request it does not answer; a CLOSE is its sender's last.
LEMMA LifeQuiet ==
  ASSUME Shape, PtrInv, LifeInv, UNCHANGED clientVars, NEW m, TakesQuietly(m)
  PROVE  LifeInv'
<1>1. Takes(m) /\ m.from \in Clients /\ \A e \in Clients : SameReplies(e)
  BY DEF TakesQuietly, SameReplies, Takes, Request
<1>2. /\ 1 \in Todo /\ Pending[1] = m
      /\ \A i \in Todo' : i \in Int /\ i + 1 \in Todo /\ i + 1 # 1 /\ Pending'[i] = Pending[i + 1]
  BY <1>1, TakenPlaces
<1>3. PICK d \in Clients : d = m.from
  BY <1>2 DEF PtrInv, Addressed, Request
<1>4. Proper(d, m, 1)
  BY <1>2, <1>3 DEF LifeInv, InOrder
<1>5. m.type # "REQ_CLOSE" => vols' = vols
  BY DEF TakesQuietly
<1>6. m.type = "REQ_CLOSE" => /\ vols'[d] = Null /\ \A e \in Clients : e # d => vols'[e] = vols[e]
                              /\ pc[d] \notin NotUsing \cup Calling
  BY <1>4 DEF TakesQuietly, Proper
<1>7. ASSUME NEW c \in Clients PROVE Life(c)'
  <2>1. CASE c # d \/ m.type # "REQ_CLOSE"
    <3>1. Life(c) /\ vols'[c] = vols[c] /\ SameReplies(c) /\ (m.from # c \/ m.type # "REQ_CLOSE")
      BY <1>1, <1>3, <1>5, <1>6, <2>1 DEF LifeInv
    <3> QED BY <1>1, <3>1, LifeTaken
  <2>2. CASE c = d /\ m.type = "REQ_CLOSE"
    <3>1. pc' = pc
      BY DEF clientVars
    <3> QED BY <1>6, <2>2, <3>1 DEF Life, Naming, NotUsing, NotOpened, Opening, Reading
  <2> QED BY <2>1, <2>2
<1>8. ASSUME NEW i \in Todo' PROVE InOrder(i)'
  <2>1. PICK q : q = Pending'[i] /\ q = Pending[i + 1] /\ i \in Int /\ i + 1 \in Todo /\ i + 1 # 1
    BY <1>2
  <2>2. PICK e \in Clients : e = q.from
    BY <2>1 DEF PtrInv, Addressed, Request
  <2>3. Proper(e, q, i + 1) /\ SameReplies(e)
    BY <1>1, <2>1, <2>2 DEF LifeInv, InOrder
  <2>4. m.type = "REQ_CLOSE" => e # d
    <3>1. i + 1 > 1
      BY <2>1 DEF Todo
    <3> QED BY <1>4, <2>1, <2>2, <3>1 DEF Proper
  <2>5. q.type # "REQ_OPEN" => vols'[e] # Null
    BY <1>5, <1>6, <2>3, <2>4 DEF Proper
  <2> QED BY <1>1, <2>1, <2>2, <2>3, <2>5, ProperTaken
<1> QED BY <1>7, <1>8 DEF LifeInv

LEMMA LifeServer == ASSUME Shape, PtrInv, EpochInv, LifeInv, ServerStep PROVE LifeInv'
<1>1. UNCHANGED clientVars
  BY DEF ServerStep
<1> QED BY <1>1, ServerKinds, LifeGone, LifeOpens, LifeCalls, LifeQuiet

LEMMA LifeNext ==
  ASSUME CarefulUse, Shape, PtrInv, AcbInv, EpochInv, EarlyInv, UserInv, UserInv', LifeInv, [Next]_vars
  PROVE  LifeInv'
<1>1. CASE UNCHANGED vars
  <2>1. /\ UNCHANGED <<pc, volume_, reply_msg_, reply_mq, reply_name, vols>> /\ Todo' = Todo /\ Pending' = Pending
        /\ \A c \in Clients : Places(c)' = Places(c) /\ Served(c)' = Served(c)
    BY <1>1 DEF vars, queueVars, serverVars, clientVars, Places, Todo, Pending, Served
  <2>2. \A c \in Clients : Promised(c)' = Promised(c) /\ Unanswered(c)' = Unanswered(c)
    BY <2>1 DEF Promised, Granted, Unanswered
  <2>3. \A c \in Clients : Life(c) => Life(c)'
    BY <2>1, <2>2 DEF Life, Closes
  <2>4. \A c \in Clients : \A m, i : Proper(c, m, i) => Proper(c, m, i)'
    BY <2>1, <2>2 DEF Proper
  <2>5. \A i \in Todo : Pending[i].from \in Clients
    BY DEF PtrInv, Addressed, Request
  <2> QED BY <2>1, <2>3, <2>4, <2>5 DEF LifeInv, InOrder
<1> QED BY <1>1, LifeClient, LifeServer DEF Next

\* All that has been shown to hold along the way.
Whole == Shape /\ PtrInv /\ AcbInv /\ EpochInv /\ EarlyInv /\ UserInv /\ LifeInv

LEMMA LifeHolds == ASSUME CarefulUse PROVE Spec => []Whole
<1>1. ~SpuriousWakeups
  BY DEF CarefulUse
<1>2. Init => EpochInv /\ EarlyInv /\ UserInv /\ LifeInv
  BY EpochInit, EarlyInit, UserInit, LifeInit
<1>3. Shape /\ PtrInv /\ AcbInv /\ EpochInv /\ EarlyInv /\ UserInv /\ LifeInv /\ [Next]_vars
        => EpochInv' /\ EarlyInv' /\ UserInv' /\ LifeInv'
  BY <1>1, EpochNext, EarlyNext, UserNext, LifeNext
<1> QED BY <1>2, <1>3, AcbHolds, PTL DEF Spec, Whole

(***************************************************************************)
(* In careful use no request that the server has still to handle carries a *)
(* dangling or foreign pointer: header.volume is the VolumeState that the  *)
(* running process made for the sender's own OPEN, and the destructor's    *)
(* CLOSE is the last request about it, whatever crashes in between.        *)
(***************************************************************************)
THEOREM AsyncHandlesLive == ASSUME CarefulUse PROVE Spec => []HandlesLive
<1>1. ASSUME Whole PROVE HandlesLive
  <2> SUFFICES ASSUME server = "up", NEW i \in 1 .. Len(Pending), Pending[i].type # "REQ_OPEN", NEW c,
                      c = Pending[i].from
               PROVE  /\ Pending[i].volume = c
                      /\ vols[c] = [file |-> VolumeOf[c], reply_mq |-> c]
                      /\ Pending[i].type = "REQ_CLOSE" =>
                           \A j \in (i + 1) .. Len(Pending) : Pending[j].volume # c
    BY DEF HandlesLive
  <2>1. Todo = 1 .. Len(Pending) /\ i \in Todo /\ Len(Pending) \in Nat
    BY <1>1, EpochUp DEF Todo, Whole
  <2>2. c \in Clients
    BY <1>1, <2>1 DEF Whole, PtrInv, Addressed, Request
  <2>3. Proper(c, Pending[i], i) /\ Life(c)
    BY <1>1, <2>1, <2>2 DEF Whole, LifeInv, InOrder
  <2>4. Pending[i].volume = c /\ vols[c] = [file |-> VolumeOf[c], reply_mq |-> c]
    BY <2>3 DEF Proper, Life
  <2>5. ASSUME Pending[i].type = "REQ_CLOSE", NEW j \in (i + 1) .. Len(Pending) PROVE Pending[j].volume # c
    <3>1. j \in Todo /\ j > i
      BY <2>1
    <3>2. Pending[j].from # c /\ Pending[j].from \in Clients /\ Addressed(Pending[j])
      BY <1>1, <2>3, <2>5, <3>1 DEF Proper, Whole, PtrInv, Addressed, Request
    <3>3. Proper(Pending[j].from, Pending[j], j)
      BY <1>1, <3>1 DEF Whole, LifeInv, InOrder
    <3> QED BY <2>2, <3>2, <3>3, SharedMemAssumption DEF Proper, Addressed
  <2> QED BY <2>4, <2>5
<1> QED BY <1>1, LifeHolds, PTL

(***************************************************************************)
(* In careful use no VolumeState is left behind: the server keeps one for  *)
(* a client whose open failed never, and for a client that has closed its  *)
(* volume only while the CLOSE is on its way.                              *)
(***************************************************************************)
THEOREM AsyncVolumesNotLeaked == ASSUME CarefulUse PROVE Spec => []NoVolumeLeak
<1>1. ASSUME Whole PROVE NoVolumeLeak
  <2> SUFFICES ASSUME NEW c \in Clients, vols[c] # Null, pc[c] \in {"closed", "failed"}
               PROVE  \E i \in 1 .. Len(Pending) : Pending[i].from = c /\ Pending[i].type = "REQ_CLOSE"
    BY DEF NoVolumeLeak
  <2>1. Life(c)
    BY <1>1 DEF Whole, LifeInv
  <2>2. PICK i \in Todo : Closes(c, i)
    BY <2>1 DEF Life, Ending
  <2> QED BY <2>2 DEF Todo, Closes
<1> QED BY <1>1, LifeHolds, PTL

(***************************************************************************)
(* What is asked of the file.  No READ reaches past its end if the guest's *)
(* own reads do not: a request is sent as it was submitted.                *)
(***************************************************************************)
Submitted(c, a) ==
  acbs[c][a] # Null /\ acbs[c][a].type = "REQ_READ" /\ ~acbs[c][a].bh => InFile(acbs[c][a])

Reaches(m) == m.type = "REQ_READ" => InFile(m)

ReachInv ==
  /\ \A c \in Clients, a \in Acbs : Submitted(c, a)
  /\ \A i \in Todo : Reaches(Pending[i])

ReadsInFile == \A c \in Clients : \A r \in GuestReads[c] : OffsetOf(r) + SizeOf(r) <= FileSize

LEMMA ReachInit == Init => ReachInv
  BY DEF Init, ServerInit, ClientInit, Todo, ReachInv, Submitted

\* A CVBDAIOCB stays, is new, completed or freed, or only yields.
LEMMA ReachAcbs ==
  ASSUME ReadsInFile, Shape, ReachInv, NEW c \in Clients, ClientStep(c), NEW d \in Clients, NEW b \in Acbs
  PROVE  Submitted(d, b)'
<1>0. Submitted(d, b) /\ acbs \in [Clients -> [Acbs -> AcbState \cup {Null}]]
  BY DEF ReachInv, Shape, ClientTypes
<1>1. ASSUME acbs'[d][b] = acbs[d][b] PROVE Submitted(d, b)'
  BY <1>0, <1>1 DEF Submitted, InFile
<1>2. ASSUME acbs'[d][b] = Null PROVE Submitted(d, b)'
  BY <1>2 DEF Submitted
<1>3. ASSUME NEW a \in Acbs, NEW y, SetAcb(c, a, y) PROVE acbs'[d][b] = acbs[d][b] \/ (d = c /\ b = a /\ acbs'[d][b] = y)
  BY <1>0, <1>3 DEF SetAcb
<1>4. ASSUME NEW a \in Acbs, NEW y, SetAcb(c, a, y), y.bh \/ (y.type = "REQ_READ" => InFile(y)) PROVE Submitted(d, b)'
  BY <1>1, <1>3, <1>4 DEF Submitted, InFile
<1>5. ASSUME NEW m, PostsCall(c, m) \/ Receives(c, m) PROVE Submitted(d, b)'
  BY <1>1, <1>5 DEF PostsCall, Receives
<1>6. ASSUME NEW a \in Acbs, NEW x, NEW m, PostsRequest(c, a, x, m) PROVE Submitted(d, b)'
  BY <1>1, <1>6 DEF PostsRequest
<1>7. ASSUME NEW a \in Acbs, NEW x, NEW y, NEW m, PostsWrite(c, a, x, y, m) \/ CompletesAcb(c, a, x, y, m)
      PROVE  Submitted(d, b)'
  BY <1>4, <1>7 DEF PostsWrite, WritesAcb, CompletesAcb
<1>8. CASE PostsStop(c) \/ Moves(c)
  BY <1>1, <1>8 DEF PostsStop, Moves
<1>9. CASE Perished(c)
  <2>1. acbs'[c][b] = Null /\ Others(c)
    BY <1>9, ShapeClient DEF Perished
  <2> QED BY <1>1, <1>2, <2>1 DEF Others
<1>10. ASSUME NEW a \in Acbs, NEW x, NEW y, YieldsAcb(c, a, x, y) PROVE Submitted(d, b)'
  <2>1. /\ SetAcb(c, a, y) /\ x = acbs[c][a] /\ x # Null
        /\ y.bh = x.bh /\ y.type = x.type /\ y.offset = x.offset /\ y.size = x.size
    BY <1>10 DEF YieldsAcb
  <2>2. Submitted(c, a)
    BY DEF ReachInv
  <2>3. y.bh \/ (y.type = "REQ_READ" => InFile(y))
    BY <2>1, <2>2 DEF Submitted, InFile
  <2> QED BY <1>4, <2>1, <2>3
<1>11. ASSUME NEW a \in Acbs, Frees(c, a) PROVE Submitted(d, b)'
  BY <1>1, <1>2, <1>3, <1>11 DEF Frees
<1>12. ASSUME NEW a \in Acbs, NEW x, Starts(c, a, x) PROVE Submitted(d, b)'
  <2>1. SetAcb(c, a, x) /\ (x.type = "REQ_READ" => GuestRead(c, x))
    BY <1>12 DEF Starts, NewRequest, Submit
  <2>2. x.type = "REQ_READ" => InFile(x)
    BY <2>1 DEF GuestRead, ReadsInFile, InFile
  <2> QED BY <1>4, <2>1, <2>2
<1> QED BY <1>5, <1>6, <1>7, <1>8, <1>9, <1>10, <1>11, <1>12, ClientKinds

LEMMA ReachTodo ==
  ASSUME Shape, AcbInv, ReachInv, NEW c \in Clients, ClientStep(c), NEW i \in Todo'
  PROVE  Reaches(Pending'[i])
<1>1. CASE SameTodo
  BY <1>1 DEF SameTodo, ReachInv
<1>2. ASSUME request_mq' = request_mq PROVE SameTodo
  BY <1>2, TodoSame DEF ClientStep
<1>3. ASSUME NEW m, Posts(c, m), Reaches(m) PROVE Reaches(Pending'[i])
  <2>1. ASSUME NEW n, NewTodo(m, n) PROVE Reaches(Pending'[i])
    <3>1. i = n \/ i \in Todo
      BY <2>1 DEF NewTodo
    <3> QED BY <1>3, <2>1, <3>1 DEF NewTodo, ReachInv
  <2> QED BY <1>1, <1>3, <2>1, TodoPosts DEF ClientStep
<1>4. ASSUME NEW m, PostsCall(c, m) PROVE Reaches(Pending'[i])
  BY <1>3, <1>4 DEF PostsCall, Reaches
<1>5. ASSUME NEW a \in Acbs, NEW x, NEW m, PostsRequest(c, a, x, m) PROVE Reaches(Pending'[i])
  <2>1. ~acbs[c][a].bh /\ acbs[c][a] # Null
    <3>1. pc[c] = "sending" /\ pc[c] \notin Dead /\ Running(c, a)
      BY <1>5 DEF PostsRequest, Dead
    <3> QED BY <3>1 DEF AcbInv, Flight, Unsent, Running
  <2>2. Submitted(c, a)
    BY DEF ReachInv
  <2>3. Posts(c, m) /\ Reaches(m)
    BY <1>5, <2>1, <2>2 DEF PostsRequest, Submitted, Reaches, InFile
  <2> QED BY <1>3, <2>3
<1>6. ASSUME NEW a \in Acbs, NEW x, NEW y, NEW m, PostsWrite(c, a, x, y, m) PROVE Reaches(Pending'[i])
  BY <1>3, <1>6 DEF PostsWrite, WritesAcb, Reaches
<1>7. CASE PostsStop(c) \/ Moves(c) \/ Perished(c) \/ \E m : Receives(c, m)
  BY <1>1, <1>2, <1>7 DEF PostsStop, Moves, Perished, Receives, queueVars
<1>8. ASSUME NEW a \in Acbs, NEW x, NEW y, NEW m, CompletesAcb(c, a, x, y, m) PROVE SameTodo
  BY <1>2, <1>8 DEF CompletesAcb, queueVars
<1>9. ASSUME NEW a \in Acbs, NEW x, NEW y, YieldsAcb(c, a, x, y) \/ Frees(c, a) \/ Starts(c, a, x) PROVE SameTodo
  BY <1>2, <1>9 DEF YieldsAcb, Frees, Starts, queueVars
<1> QED BY <1>1, <1>4, <1>5, <1>6, <1>7, <1>8, <1>9, ClientKinds

LEMMA ReachNext == ASSUME ReadsInFile, Shape, AcbInv, ReachInv, [Next]_vars PROVE ReachInv'
<1>1. CASE UNCHANGED vars \/ ServerStep
  <2>1. \A c \in Clients, a \in Acbs : Submitted(c, a)'
    BY <1>1 DEF vars, ServerStep, clientVars, ReachInv, Submitted, InFile
  <2>2. CASE UNCHANGED vars
    <3>1. Todo' = Todo /\ Pending' = Pending
      BY <2>2 DEF vars, queueVars, serverVars, Todo, Pending
    <3> QED BY <2>1, <3>1 DEF ReachInv
  <2>3. CASE ServerStep
    <3>1. CASE Todo' = {}
      BY <2>1, <3>1 DEF ReachInv
    <3>2. ASSUME NEW m, Takes(m) PROVE ReachInv'
      <4>1. PICK n : DoneTodo(m, n)
        BY <3>2, TodoTakes
      <4> QED BY <2>1, <4>1 DEF ReachInv, DoneTodo
    <3> QED BY <2>3, <3>1, <3>2, TodoGone, ServerKinds DEF TakesOpen, TakesCall, TakesQuietly
  <2> QED BY <1>1, <2>2, <2>3
<1>2. ASSUME NEW c \in Clients, ClientStep(c) PROVE ReachInv'
  BY <1>2, ReachAcbs, ReachTodo DEF ReachInv
<1> QED BY <1>1, <1>2 DEF Next

(***************************************************************************)
(* If, besides, opening, reading and writing the files does not fail and   *)
(* the guests read inside them, no client brings the server down, however  *)
(* many there are and whenever they are killed: IOHandler::open finds the  *)
(* reply queue it was told of, and no handler asserts or meets a pointer   *)
(* to nothing.  That the last proviso is needed, the length QEMU checks    *)
(* requests against being no guard, is what the run async_length shows.    *)
(***************************************************************************)
THEOREM AsyncServerSurvives ==
  ASSUME CarefulUse, ReadsInFile, Faults \cap {"open", "io"} = {}
  PROVE  Spec => []ServerNeverAborts
<1>1. Init => ReachInv /\ ServerNeverAborts
  BY ReachInit DEF Init, ServerInit, ServerNeverAborts
<1>2. ASSUME Whole, NEW type, Receive(type), NEW m, m = Msg
      PROVE  1 \in Todo /\ Pending[1] = m /\ m.type = type /\ m.from \in Clients /\ Addressed(m) /\ Proper(m.from, m, 1)
  <2>1. server = "up" /\ Pending \in Seq(Request) /\ Pending # << >> /\ m = Head(Pending) /\ m.type = type
    BY <1>2, EpochUp DEF Receive, Whole, Msg
  <2>2. Len(Pending) \in Nat \ {0} /\ Pending[1] = Head(Pending)
    BY <2>1, TailFacts
  <2>3. 1 \in Todo /\ Pending[1] = m
    BY <2>1, <2>2 DEF Todo
  <2> QED BY <1>2, <2>1, <2>3 DEF Whole, PtrInv, LifeInv, InOrder, Addressed, Request
<1>3. Whole => ~OpenAborts
  <2> SUFFICES ASSUME Whole, OpenAborts PROVE FALSE
    OBVIOUS
  <2>1. PICK m : m = Msg /\ Receive("REQ_OPEN") /\ reply_name[m.name] = Null
    BY DEF OpenAborts
  <2>2. m.type = "REQ_OPEN" /\ m.from \in Clients /\ m.name = VolumeOf[m.from] /\ pc[m.from] \in Opening
    BY <1>2, <2>1 DEF Addressed, Proper
  <2>3. pc[m.from] \in Naming
    BY <2>2 DEF Naming
  <2>4. Life(m.from)
    BY <2>2 DEF Whole, LifeInv
  <2>5. reply_name[m.name] = m.from
    BY <2>2, <2>3, <2>4 DEF Life
  <2> QED BY <2>1, <2>2, <2>5, SharedMemAssumption
<1>4. Whole /\ ReachInv => ~IoAborts
  <2> SUFFICES ASSUME Whole, ReachInv, IoAborts PROVE FALSE
    OBVIOUS
  <2>1. PICK m : m = Msg
    OBVIOUS
  <2>2. PICK type \in RequestType \ {"REQ_OPEN"} : Receive(type)
    BY DEF IoAborts
  <2>3. 1 \in Todo /\ Pending[1] = m /\ m.type = type /\ m.from \in Clients /\ Proper(m.from, m, 1)
    BY <1>2, <2>1, <2>2
  <2>4. Allocated(m.volume)
    BY <2>2, <2>3, SharedMemAssumption DEF Proper, Allocated
  <2>5. m.type = "REQ_READ" => InFile(m)
    BY <2>3 DEF ReachInv, Reaches
  <2> QED BY <2>1, <2>4, <2>5 DEF IoAborts, BadPointer, ReadFails
<1>5. Whole /\ ReachInv /\ ServerNeverAborts /\ [Next]_vars => ReachInv' /\ ServerNeverAborts'
  <2> SUFFICES ASSUME Whole, ReachInv, ServerNeverAborts, [Next]_vars PROVE ReachInv' /\ ServerNeverAborts'
    OBVIOUS
  <2>1. ReachInv'
    BY ReachNext DEF Whole
  <2>2. CASE UNCHANGED vars \/ \E c \in Clients : ClientStep(c)
    BY <2>1, <2>2 DEF vars, serverVars, ClientStep, ServerNeverAborts
  <2>3. CASE ServerNext
    <3>1. server' # "aborted"
      BY <1>3, <1>4, <2>3 DEF ServerNext, handle_requests, open, OpenOk, OpenTruncateFails, OpenCreateFails,
         close, getsize, fsync, write, read, StartRemove, StartCreate, Kill, Exit, serverVars, ServerNeverAborts
    <3> QED BY <2>1, <3>1 DEF ServerNeverAborts
  <2> QED BY <2>2, <2>3 DEF Next, ServerStep
<1> QED BY <1>1, <1>5, LifeHolds, PTL DEF Spec
================================================================================
