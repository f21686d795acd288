------------------------- MODULE SharedMemServerProofs -------------------------
(***************************************************************************)
(* What both stacks need about the server, for every value of the          *)
(* constants: its messages are well formed, a turn of its loop keeps its   *)
(* types, and what a byte of a volume will be after a number of queued     *)
(* requests.                                                               *)
(***************************************************************************)
EXTENDS SharedMemServer, TLAPS

\* Filling a message from a buffer or a file that has the bytes asked for.
LEMMA SliceType ==
  ASSUME NEW n \in Nat, NEW f \in [0 .. n - 1 -> Val],
         NEW offset \in Nat, NEW size \in Nat, offset + size <= n
  PROVE  Slice(f, offset, size) \in Data
<1> SUFFICES ASSUME NEW k \in 0 .. max_data_size - 1, k < size PROVE f[offset + k] \in Val
  BY SharedMemAssumption DEF Slice, Data
<1>1. offset + k \in 0 .. n - 1
  BY SharedMemAssumption
<1> QED BY <1>1

LEMMA NoDataType == NoData \in Data
  BY SharedMemAssumption DEF NoData, Data

\* Copying a message's bytes into a buffer or a file.
LEMMA OverwriteType ==
  ASSUME NEW S, NEW T, T \subseteq S, NEW n \in Nat, NEW f \in [0 .. n - 1 -> S],
         NEW offset \in Nat, NEW size \in 0 .. max_data_size,
         NEW data \in [0 .. max_data_size - 1 -> T]
  PROVE  Overwrite(f, offset, data, size) \in [0 .. n - 1 -> S]
<1> SUFFICES ASSUME NEW p \in 0 .. n - 1, p \in offset .. (offset + size - 1)
             PROVE  data[p - offset] \in T
  BY DEF Overwrite
<1>1. p - offset \in 0 .. max_data_size - 1
  BY SharedMemAssumption
<1> QED BY <1>1

LEMMA RequestTypes ==
  ASSUME NEW c \in Clients, NEW volume \in Clients \cup {Null},
         NEW offset \in Nat, NEW size \in 0 .. max_data_size, NEW data \in Data
  PROVE  /\ OpenRequest(c) \in Request
         /\ CloseRequest(c, volume) \in Request
         /\ GetSizeRequest(c, volume) \in Request
         /\ ReadRequest(c, volume, offset, size) \in Request
         /\ WriteRequest(c, volume, offset, size, data) \in Request
<1>1. VolumeOf[c] \in Volumes /\ 0 \in 0 .. max_data_size
  BY SharedMemAssumption
<1> QED
  BY <1>1, NoDataType DEF OpenRequest, CloseRequest, GetSizeRequest, ReadRequest,
     WriteRequest, Header, Request, RequestType

\* Queues: what Append and Tail do to their contents and their order.
LEMMA AppendFacts ==
  ASSUME NEW S, NEW q \in Seq(S), NEW m
  PROVE  LET p == Append(q, m) IN
         /\ Len(p) = Len(q) + 1 /\ Len(q) \in Nat /\ p[Len(q) + 1] = m
         /\ \A i \in 1 .. Len(q) : p[i] = q[i]
OBVIOUS

LEMMA TailFacts ==
  ASSUME NEW S, NEW q \in Seq(S), q # << >>
  PROVE  LET p == Tail(q) IN
         /\ Len(p) = Len(q) - 1 /\ Len(q) \in Nat \ {0} /\ q[1] = Head(q) /\ Len(p) \in Nat
         /\ \A i \in 1 .. Len(p) : p[i] = q[i + 1]
OBVIOUS

-------------------------------------------------------------------------------
\* Receiving leaves a well-formed message to the handler.
LEMMA ReceiveType ==
  ASSUME QueuesTypeOK, ServerTypeOK, NEW type, Receive(type)
  PROVE  /\ epoch \in Epochs
         /\ Msg \in Request /\ Msg.type = type
         /\ request_mq' \in [Epochs -> Seq(Request)]
<1>1. epoch \in Epochs
  BY SharedMemAssumption DEF ServerTypeOK, Receive, Epochs
<1>2. Pending \in Seq(Request) /\ Pending # << >>
  BY <1>1 DEF QueuesTypeOK, Receive, Pending
<1>3. Msg \in Request /\ Tail(Pending) \in Seq(Request)
  BY <1>2 DEF Msg
<1> QED
  BY <1>1, <1>3 DEF QueuesTypeOK, Receive, Pending

LEMMA SendReplyType ==
  ASSUME QueuesTypeOK, ServerTypeOK, NEW d \in Clients, NEW m \in Reply, send_reply(d, m)
  PROVE  reply_mq' \in [Clients -> Seq(Reply)]
<1>1. reply_mq[d] \in Seq(Reply)
  BY DEF QueuesTypeOK
<1>2. Append(reply_mq[d], m) \in Seq(Reply)
  BY <1>1
<1> QED
  BY <1>2 DEF QueuesTypeOK, send_reply

\* A whole pwrite, and one that is cut short, leave files of the same size.
LEMMA WrittenType ==
  ASSUME ServerTypeOK, Msg \in Request, Allocated(Msg.volume), NEW n \in 0 .. max_data_size
  PROVE  Written(n) \in [Volumes -> [0 .. FileSize - 1 -> Val]]
<1> DEFINE v == vols[Msg.volume].file
<1>1. v \in Volumes
  BY DEF Allocated, Request, VolumeState, ServerTypeOK
<1>2. disk[v] \in [0 .. FileSize - 1 -> Val]
  BY <1>1 DEF ServerTypeOK
<1>3. Msg.offset \in Nat /\ Msg.data \in [0 .. max_data_size - 1 -> Val]
  BY DEF Request, Data
<1>4. Overwrite(disk[v], Msg.offset, Msg.data, n) \in [0 .. FileSize - 1 -> Val]
  BY <1>2, <1>3, OverwriteType, SharedMemAssumption
<1> QED BY <1>1, <1>4 DEF Written, ServerTypeOK

LEMMA WrittenInPartType ==
  ASSUME QueuesTypeOK, ServerTypeOK, server = "up", Writing, NEW f \in WrittenInPart
  PROVE  f \in [Volumes -> [0 .. FileSize - 1 -> Val]]
<1>1. epoch \in Epochs
  BY SharedMemAssumption DEF ServerTypeOK, Epochs
<1>2. Pending \in Seq(Request) /\ Pending # << >>
  BY <1>1 DEF QueuesTypeOK, Writing, Pending
<1>3. Msg \in Request
  BY <1>2 DEF Msg
<1>4. PICK n \in {0} \cup 0 .. (Msg.size - 1) : f = Written(n)
  BY DEF WrittenInPart
<1>5. n \in 0 .. max_data_size
  <2>1. Msg.size \in 0 .. max_data_size
    BY <1>3 DEF Request
  <2> QED BY <2>1, SharedMemAssumption
<1> QED BY <1>3, <1>4, <1>5, WrittenType DEF Writing

LEMMA TypeServerNext == ASSUME QueuesTypeOK, ServerTypeOK, ServerNext PROVE QueuesTypeOK' /\ ServerTypeOK'
<1>1. CASE StartRemove
  BY <1>1 DEF StartRemove, QueuesTypeOK, ServerTypeOK
<1>2. CASE StartCreate
  <2>1. epoch + 1 \in Epochs /\ epoch \in Nat
    BY <1>2, SharedMemAssumption DEF StartCreate, ServerTypeOK, Epochs
  <2>2. QueuesTypeOK'
    BY <1>2, <2>1 DEF StartCreate, QueuesTypeOK
  <2>3. ServerTypeOK'
    BY <1>2, <2>1, SharedMemAssumption DEF StartCreate, ServerTypeOK, Epochs
  <2> QED BY <2>2, <2>3
<1>3. CASE Kill
  <2>1. disk' \in [Volumes -> [0 .. FileSize - 1 -> Val]]
    BY <1>3, WrittenInPartType DEF Kill, ServerTypeOK
  <2> QED BY <1>3, <2>1 DEF Kill, Exit, QueuesTypeOK, ServerTypeOK
<1>4. CASE OpenOk
  <2>1. Msg \in Request /\ request_mq' \in [Epochs -> Seq(Request)]
    BY <1>4, ReceiveType DEF OpenOk
  <2>2. Msg.from \in Clients /\ Msg.name \in Volumes /\ reply_name[Msg.name] \in Clients
    BY <2>1, <1>4 DEF OpenOk, Request, QueuesTypeOK
  <2>3. OpenReply(Msg.from, 0) \in Reply
    BY <2>2, NoDataType, SharedMemAssumption DEF OpenReply, Reply
  <2>4. reply_mq' \in [Clients -> Seq(Reply)]
    BY <1>4, <2>2, <2>3, SendReplyType DEF OpenOk
  <2> QED
    BY <1>4, <2>1, <2>2, <2>4 DEF OpenOk, VolumeState, QueuesTypeOK, ServerTypeOK
<1>5. CASE OpenTruncateFails
  <2>1. Msg \in Request /\ request_mq' \in [Epochs -> Seq(Request)]
    BY <1>5, ReceiveType DEF OpenTruncateFails
  <2>2. Msg.from \in Clients /\ reply_name[Msg.name] \in Clients
    BY <2>1, <1>5 DEF OpenTruncateFails, Request, QueuesTypeOK
  <2>3. OpenReply(Msg.from, -1) \in Reply
    BY <2>2, NoDataType, SharedMemAssumption DEF OpenReply, Reply
  <2>4. reply_mq' \in [Clients -> Seq(Reply)]
    BY <1>5, <2>2, <2>3, SendReplyType DEF OpenTruncateFails
  <2> QED
    BY <1>5, <2>1, <2>4 DEF OpenTruncateFails, serverVars, QueuesTypeOK, ServerTypeOK
<1>6. CASE OpenCreateFails
  <2>1. request_mq' \in [Epochs -> Seq(Request)]
    BY <1>6, ReceiveType DEF OpenCreateFails
  <2> QED
    BY <1>6, <2>1 DEF OpenCreateFails, serverVars, QueuesTypeOK, ServerTypeOK
<1>7. CASE OpenAborts
  <2>1. request_mq' \in [Epochs -> Seq(Request)]
    BY <1>7, ReceiveType DEF OpenAborts
  <2> QED
    BY <1>7, <2>1 DEF OpenAborts, Exit, QueuesTypeOK, ServerTypeOK
<1>8. CASE close
  <2>1. request_mq' \in [Epochs -> Seq(Request)]
    BY <1>8, ReceiveType DEF close
  <2> QED
    BY <1>8, <2>1 DEF close, QueuesTypeOK, ServerTypeOK
<1>9. CASE getsize
  <2>1. Msg \in Request /\ Msg.type = "REQ_GETSIZE" /\ request_mq' \in [Epochs -> Seq(Request)]
    BY <1>9, ReceiveType DEF getsize
  <2>2. Msg.volume \in Clients /\ vols[Msg.volume].reply_mq \in Clients
    BY <2>1, <1>9 DEF getsize, Allocated, Request, VolumeState, ServerTypeOK
  <2>3. PICK size \in {0, FileSize} : send_reply(vols[Msg.volume].reply_mq, GetSizeReply(Msg, size))
    BY <1>9 DEF getsize
  <2>4. GetSizeReply(Msg, size) \in Reply
    BY <2>1, <2>2, NoDataType DEF GetSizeReply, Reply, Request
  <2>5. reply_mq' \in [Clients -> Seq(Reply)]
    BY <2>2, <2>3, <2>4, SendReplyType
  <2> QED
    BY <1>9, <2>1, <2>5 DEF getsize, serverVars, QueuesTypeOK, ServerTypeOK
<1>10. CASE write
  <2>1. Msg \in Request /\ request_mq' \in [Epochs -> Seq(Request)]
    BY <1>10, ReceiveType DEF write
  <2>2. disk' \in [Volumes -> [0 .. FileSize - 1 -> Val]]
    <3>1. CASE Msg.volume = Null
      BY <1>10, <3>1 DEF write, ServerTypeOK
    <3>2. CASE Msg.volume # Null
      <4>1. Allocated(Msg.volume) /\ disk' = Written(Msg.size)
        BY <1>10, <3>2 DEF write
      <4>2. Msg.size \in 0 .. max_data_size
        BY <2>1 DEF Request
      <4> QED BY <2>1, <4>1, <4>2, WrittenType
    <3> QED BY <3>1, <3>2
  <2> QED
    BY <1>10, <2>1, <2>2 DEF write, QueuesTypeOK, ServerTypeOK
<1>11. CASE read
  <2> DEFINE vol == vols[Msg.volume]
             data == Slice(disk[vol.file], Msg.offset, Msg.size)
  <2>1. Msg \in Request /\ Msg.type = "REQ_READ" /\ request_mq' \in [Epochs -> Seq(Request)]
    BY <1>11, ReceiveType DEF read
  <2>2. Msg.volume \in Clients /\ vol.reply_mq \in Clients /\ vol.file \in Volumes
    BY <2>1, <1>11 DEF read, Allocated, Request, VolumeState, ServerTypeOK
  <2>3. data \in Data
    <3>1. Msg.offset \in Nat /\ Msg.size \in Nat /\ Msg.offset + Msg.size <= FileSize
      BY <1>11, <2>1, SharedMemAssumption DEF read, InFile, Request
    <3>2. disk[vol.file] \in [0 .. FileSize - 1 -> Val]
      BY <2>2 DEF ServerTypeOK
    <3> QED BY <3>1, <3>2, SliceType, SharedMemAssumption
  <2>4. ReadReply(Msg, Msg.size, data) \in Reply
    <3> HIDE DEF data
    <3> QED BY <2>1, <2>2, <2>3 DEF ReadReply, Reply, Request
  <2>5. send_reply(vol.reply_mq, ReadReply(Msg, Msg.size, data))
    BY <1>11 DEF read
  <2>6. reply_mq' \in [Clients -> Seq(Reply)]
    BY <2>2, <2>4, <2>5, SendReplyType
  <2> QED
    BY <1>11, <2>1, <2>6 DEF read, serverVars, QueuesTypeOK, ServerTypeOK
<1>12. CASE IoAborts
  <2>1. request_mq' \in [Epochs -> Seq(Request)]
    BY <1>12, ReceiveType DEF IoAborts
  <2>2. disk' \in [Volumes -> [0 .. FileSize - 1 -> Val]]
    BY <1>12, WrittenInPartType DEF IoAborts, Receive, ServerTypeOK
  <2> QED
    BY <1>12, <2>1, <2>2 DEF IoAborts, Exit, QueuesTypeOK, ServerTypeOK
<1>13. CASE fsync
  <2>1. Msg \in Request /\ Msg.type = "REQ_FSYNC" /\ request_mq' \in [Epochs -> Seq(Request)]
    BY <1>13, ReceiveType DEF fsync
  <2>2. Msg.volume \in Clients /\ vols[Msg.volume].reply_mq \in Clients
    BY <2>1, <1>13 DEF fsync, Allocated, Request, VolumeState, ServerTypeOK
  <2>3. PICK err \in {0, -1} : send_reply(vols[Msg.volume].reply_mq, FsyncReply(Msg, err))
    BY <1>13 DEF fsync
  <2>4. FsyncReply(Msg, err) \in Reply
    BY <2>1, <2>2, NoDataType, SharedMemAssumption DEF FsyncReply, Reply, Request
  <2>5. reply_mq' \in [Clients -> Seq(Reply)]
    BY <2>2, <2>3, <2>4, SendReplyType
  <2> QED
    BY <1>13, <2>1, <2>5 DEF fsync, serverVars, QueuesTypeOK, ServerTypeOK
<1> QED
  BY <1>1, <1>2, <1>3, <1>4, <1>5, <1>6, <1>7, <1>8, <1>9, <1>10, <1>11, <1>12, <1>13
  DEF ServerNext, handle_requests, open

-------------------------------------------------------------------------------
(***************************************************************************)
(* What a queue makes of a byte.  If b is byte p of volume v now, then x   *)
(* is that byte after the first n requests of q: the data of the last of   *)
(* them that writes the byte, or b if none does.                           *)
(***************************************************************************)
Covers(m, v, p) == m.type = "REQ_WRITE" /\ m.name = v /\ p \in m.offset .. (m.offset + m.size - 1)

ByteOf(m, v, p, b) == IF Covers(m, v, p) THEN m.data[p - m.offset] ELSE b

ByteAfter(b, q, n, v, p, x) ==
  \/ x = b /\ \A i \in 1 .. n : ~Covers(q[i], v, p)
  \/ \E i \in 1 .. n :
       /\ Covers(q[i], v, p) /\ x = q[i].data[p - q[i].offset]
       /\ \A j \in (i + 1) .. n : ~Covers(q[j], v, p)

LEMMA ByteAtOnce ==
  ASSUME NEW b, NEW q, NEW v, NEW p, NEW x
  PROVE  ByteAfter(b, q, 0, v, p, x) <=> x = b
BY DEF ByteAfter

\* A request that is queued acts after the others, and on nothing before it.
LEMMA ByteAppend ==
  ASSUME NEW q \in Seq(Request), NEW m \in Request, NEW b, NEW v, NEW p, NEW x,
         NEW n \in 0 .. Len(q), ByteAfter(b, q, n, v, p, x)
  PROVE  /\ ByteAfter(b, Append(q, m), n, v, p, x)
         /\ n = Len(q) => ByteAfter(b, Append(q, m), n + 1, v, p, ByteOf(m, v, p, x))
<1> DEFINE r == Append(q, m)
<1>1. /\ Len(q) \in Nat /\ r[Len(q) + 1] = m
      /\ \A i \in 1 .. Len(q) : r[i] = q[i]
  BY AppendFacts
<1> HIDE DEF r
<1>2. \A i \in 1 .. n : i \in Int /\ r[i] = q[i]
  BY <1>1
<1>3. ByteAfter(b, r, n, v, p, x)
  <2>1. CASE x = b /\ \A i \in 1 .. n : ~Covers(q[i], v, p)
    BY <1>2, <2>1 DEF ByteAfter
  <2>2. CASE \E i \in 1 .. n :
               /\ Covers(q[i], v, p) /\ x = q[i].data[p - q[i].offset]
               /\ \A j \in (i + 1) .. n : ~Covers(q[j], v, p)
    <3>1. PICK i \in 1 .. n :
            /\ Covers(q[i], v, p) /\ x = q[i].data[p - q[i].offset]
            /\ \A j \in (i + 1) .. n : ~Covers(q[j], v, p)
      BY <2>2
    <3>2. \A j \in (i + 1) .. n : j \in 1 .. n
      OBVIOUS
    <3> QED BY <1>2, <3>1, <3>2 DEF ByteAfter
  <2> QED BY <2>1, <2>2 DEF ByteAfter
<1>4. ASSUME n = Len(q) PROVE ByteAfter(b, r, n + 1, v, p, ByteOf(m, v, p, x))
  <2>1. r[n + 1] = m /\ n + 1 \in 1 .. (n + 1) /\ \A j \in (n + 1 + 1) .. (n + 1) : FALSE
    BY <1>1, <1>4
  <2>2. CASE Covers(m, v, p)
    BY <2>1, <2>2 DEF ByteAfter, ByteOf
  <2>3. CASE ~Covers(m, v, p)
    <3>1. ByteOf(m, v, p, x) = x
      BY <2>3 DEF ByteOf
    <3>2. \A i \in 1 .. (n + 1) : i \in 1 .. n \/ i = n + 1
      OBVIOUS
    <3>3. CASE x = b /\ \A i \in 1 .. n : ~Covers(r[i], v, p)
      BY <2>1, <2>3, <3>1, <3>2, <3>3 DEF ByteAfter
    <3>4. CASE \E i \in 1 .. n :
                 /\ Covers(r[i], v, p) /\ x = r[i].data[p - r[i].offset]
                 /\ \A j \in (i + 1) .. n : ~Covers(r[j], v, p)
      <4>1. PICK i \in 1 .. n :
              /\ Covers(r[i], v, p) /\ x = r[i].data[p - r[i].offset]
              /\ \A j \in (i + 1) .. n : ~Covers(r[j], v, p)
        BY <3>4
      <4>2. i \in 1 .. (n + 1) /\ \A j \in (i + 1) .. (n + 1) : j \in (i + 1) .. n \/ j = n + 1
        OBVIOUS
      <4> QED BY <2>1, <2>3, <3>1, <4>1, <4>2 DEF ByteAfter
    <3> QED BY <1>3, <3>3, <3>4 DEF ByteAfter
  <2> QED BY <2>2, <2>3
<1> QED BY <1>3, <1>4 DEF r

\* Doing the first request changes the byte, not what it will be.
LEMMA ByteTail ==
  ASSUME NEW q \in Seq(Request), q # << >>, NEW b, NEW v, NEW p, NEW x,
         NEW n \in 1 .. Len(q), ByteAfter(b, q, n, v, p, x)
  PROVE  ByteAfter(ByteOf(Head(q), v, p, b), Tail(q), n - 1, v, p, x)
<1> DEFINE r == Tail(q)
<1>1. /\ Len(q) \in Nat \ {0} /\ q[1] = Head(q)
      /\ \A i \in 1 .. (Len(q) - 1) : r[i] = q[i + 1]
  BY TailFacts
<1> HIDE DEF r
<1>2. \A i \in 1 .. (n - 1) : i + 1 \in 1 .. n /\ r[i] = q[i + 1]
  BY <1>1
<1>3. 1 \in 1 .. n
  OBVIOUS
<1>4. CASE x = b /\ \A i \in 1 .. n : ~Covers(q[i], v, p)
  <2>1. ByteOf(Head(q), v, p, b) = x
    BY <1>1, <1>3, <1>4 DEF ByteOf
  <2> QED BY <1>2, <1>4, <2>1 DEF ByteAfter, r
<1>5. CASE \E i \in 1 .. n :
             /\ Covers(q[i], v, p) /\ x = q[i].data[p - q[i].offset]
             /\ \A j \in (i + 1) .. n : ~Covers(q[j], v, p)
  <2>1. PICK i \in 1 .. n :
          /\ Covers(q[i], v, p) /\ x = q[i].data[p - q[i].offset]
          /\ \A j \in (i + 1) .. n : ~Covers(q[j], v, p)
    BY <1>5
  <2>2. CASE i = 1
    <3>1. x = ByteOf(Head(q), v, p, b)
      BY <1>1, <2>1, <2>2 DEF ByteOf
    <3>2. \A j \in 1 .. (n - 1) : j + 1 \in (i + 1) .. n
      BY <2>2
    <3> QED BY <1>2, <2>1, <3>1, <3>2 DEF ByteAfter, r
  <2>3. CASE i # 1
    <3>1. /\ i - 1 \in 1 .. (n - 1) /\ r[i - 1] = q[i]
          /\ \A j \in (i - 1 + 1) .. (n - 1) : j \in 1 .. (n - 1) /\ j + 1 \in (i + 1) .. n
      BY <1>2, <2>3
    <3> QED BY <1>2, <2>1, <3>1 DEF ByteAfter, r
  <2> QED BY <2>2, <2>3
<1> QED BY <1>4, <1>5 DEF ByteAfter
================================================================================
