-------------------------- MODULE CvbdSyncDataProofs --------------------------
(***************************************************************************)
(* Pointers and data of the synchronous stack, for every value of the      *)
(* constants and without any proviso: several clients may use one volume   *)
(* at a time, any system call may fail, any send or receive of a client    *)
(* may throw, and clients and server may be killed at any moment.          *)
(* Whatever answers then end up with whom, a pointer is only ever used by  *)
(* one client and while it is valid, and reads and writes of a volume act  *)
(* on its contents in queue order.                                         *)
(***************************************************************************)
EXTENDS CvbdSyncProofs

(***************************************************************************)
(* The pointers.  Without exclusive use a client may take the answer to    *)
(* the OPEN of another one, and with it that one's VolumeState: it is the  *)
(* one whose reply queue the VolumeState has.  What is invariant is that   *)
(* the pointer to a VolumeState is in one place: nowhere before the OPEN   *)
(* is sent, then in the OPEN, in its answer, or with the client that took  *)
(* the answer.                                                             *)
(***************************************************************************)
NotNamed == {"none", "ctor_open", "ctor_create"}
NotAsked == NotNamed \cup {"open"}
Opened == Using \cup After \cup {"aborted"}
ReadOver == {"wait_read", "killed", "aborted"}

OwnVolume(c) == [file |-> VolumeOf[c], reply_mq |-> c]
Replies(c) == {reply_mq[c][k] : k \in 1 .. Len(reply_mq[c])}
Unheld(d) == \A b \in Clients : volume_[b] # d
HandsOut(r, d) == r.type = "REQ_OPEN" /\ r.volume = d

\* The name of a volume denotes the queue of a client of that volume.
NamesInv ==
  \A v \in Volumes : reply_name[v] # Null =>
    VolumeOf[reply_name[v]] = v /\ pc[reply_name[v]] \notin NotNamed

\* The pointer a client has, and that it uses.
HeldInv(c) ==
  /\ volume_[c] # Null =>
       /\ pc[c] \in Opened /\ pc[volume_[c]] \notin NotAsked
       /\ \A b \in Clients : volume_[b] = volume_[c] => b = c
  /\ pc[c] \in Using /\ volume_[c] # Null /\ Served(c) => vols[volume_[c]] = OwnVolume(c)

(***************************************************************************)
(* A client that took an exception of create_volume for success has no     *)
(* pointer.  It is never told a length, for a GETSIZE without a pointer is *)
(* not answered; so QEMU admits no request but empty ones, for which the   *)
(* driver sends nothing.                                                   *)
(***************************************************************************)
Unset(c) ==
  /\ length[c] = 0 /\ pc[c] # "wait_read"
  /\ pc[c] = "io" => ~NonAlignedCopyIsValid(io[c].a)
UnsetInv == \A c \in Clients : volume_[c] = Null => Unset(c)

\* A reply r on its way to c.
ReplyPtr(c, r) ==
  /\ pc[c] \notin NotNamed
  /\ r.type = "REQ_OPEN" =>
       /\ r.volume \in Clients /\ pc[r.volume] \notin NotAsked /\ Unheld(r.volume)
       /\ r.err = 0 /\ Served(c) => vols[r.volume] = OwnVolume(c)
  /\ r.type = "REQ_GETSIZE" => volume_[c] # Null
  /\ r.type = "REQ_READ" =>
       /\ pc[c] \in ReadOver
       /\ server = "up" => \A m \in Requests : m.from = c => m.type # "REQ_READ"

\* No two replies hand out one pointer, and a client is sent one READ reply at a time.
RepliesOnce ==
  \A b, c \in Clients : \A k \in 1 .. Len(reply_mq[b]), l \in 1 .. Len(reply_mq[c]) :
    b # c \/ k # l =>
      /\ \A d \in Clients : HandsOut(reply_mq[b][k], d) => ~HandsOut(reply_mq[c][l], d)
      /\ b = c => ~(reply_mq[b][k].type = "REQ_READ" /\ reply_mq[c][l].type = "REQ_READ")

\* A request m the running server has yet to handle.
RequestPtr(m) ==
  LET c == m.from IN
  /\ request_mq_[c] = epoch /\ m.name = VolumeOf[c] /\ m.type # "REQ_FSYNC"
  /\ pc[c] \notin NotAsked
  /\ m.type = "REQ_OPEN" =>
       Unheld(c) /\ \A b \in Clients : \A r \in Replies(b) : ~HandsOut(r, c)
  /\ m.type # "REQ_OPEN" =>
       /\ pc[c] \in Opened /\ m.volume = volume_[c]
       /\ IF volume_[c] = Null THEN m.type \in {"REQ_GETSIZE", "REQ_CLOSE"}
                               ELSE vols[volume_[c]] = OwnVolume(c)
  /\ m.type = "REQ_READ" => InFile(m) /\ pc[c] \in ReadOver
  /\ m.type = "REQ_CLOSE" => pc[c] \in After

\* A client's OPEN comes first; nothing of it follows its CLOSE, or a READ.
OrderInv(q) ==
  \A i \in 1 .. Len(q) : \A j \in (i + 1) .. Len(q) :
    q[i].from = q[j].from => q[i].type \notin {"REQ_READ", "REQ_CLOSE"} /\ q[j].type # "REQ_OPEN"

PtrInv ==
  /\ TypeOK /\ EpochInv /\ NamesInv /\ RepliesOnce /\ UnsetInv
  /\ \A c \in Clients : HeldInv(c) /\ \A r \in Replies(c) : ReplyPtr(c, r)
  /\ server = "up" => (\A m \in Requests : RequestPtr(m)) /\ OrderInv(Pending)

LEMMA PtrInit == Init => PtrInv
<1> SUFFICES ASSUME Init PROVE PtrInv
  OBVIOUS
<1>1. TypeOK
  BY TypeInit
<1>2. EpochInv /\ NamesInv /\ RepliesOnce /\ UnsetInv
  BY DEF Init, QueuesInit, ClientInit, EpochInv, NamesInv, RepliesOnce, UnsetInv, Unset
<1>3. \A c \in Clients : HeldInv(c)
  BY DEF Init, ClientInit, HeldInv, Using
<1>4. ASSUME NEW c \in Clients PROVE Replies(c) = {}
  <2>1. reply_mq[c] = << >>
    BY DEF Init, QueuesInit
  <2> QED BY <2>1 DEF Replies
<1> QED BY <1>1, <1>2, <1>3, <1>4 DEF PtrInv, Init, ServerInit

-------------------------------------------------------------------------------
LEMMA PtrTypes ==
  ASSUME PtrInv
  PROVE  /\ TypeOK
         /\ \A c \in Clients : reply_mq[c] \in Seq(Reply) /\ Replies(c) \subseteq Reply
         /\ server = "up" => /\ epoch \in Epochs /\ Pending \in Seq(Request)
                             /\ Requests \subseteq Request /\ \A m \in Requests : m.from \in Clients
<1>1. TypeOK
  BY DEF PtrInv
<1>2. \A c \in Clients : reply_mq[c] \in Seq(Reply)
  BY <1>1 DEF TypeOK, QueuesTypeOK
<1>3. ASSUME NEW c \in Clients PROVE Replies(c) \subseteq Reply
  <2>1. reply_mq[c] \in Seq(Reply)
    BY <1>2
  <2> QED BY <2>1 DEF Replies
<1> QED BY <1>1, <1>2, <1>3, RequestsTypes

\* A request that is sent to the running server, or to one that is gone.
LEMMA Sent ==
  ASSUME PtrInv, NEW c \in Clients, NEW m, NEW p, Send(c, m, p),
         pc[c] \notin {"ctor_open"} \cup Gone, UNCHANGED serverVars, server = "up"
  PROVE  IF Served(c) THEN Pending' = Append(Pending, m) /\ Requests' = Requests \cup {m}
                      ELSE Pending' = Pending /\ Requests' = Requests
<1>1. epoch \in Epochs /\ Pending \in Seq(Request) /\ request_mq_[c] \in Epochs /\ UNCHANGED epoch
  BY PtrTypes DEF TypeOK, ClientTypeOK, serverVars
<1>2. CASE Served(c)
  <2>1. Pending' = Append(Pending, m)
    BY <1>1, <1>2 DEF Pending, Send, send_request, Served, PtrInv, TypeOK, QueuesTypeOK
  <2>2. /\ Len(Pending') = Len(Pending) + 1 /\ Len(Pending) \in Nat
        /\ Pending'[Len(Pending) + 1] = m
        /\ \A i \in 1 .. Len(Pending) : Pending'[i] = Pending[i]
    BY <1>1, <2>1, AppendFacts
  <2>3. Requests' = Requests \cup {m}
    BY <2>2 DEF Requests
  <2> QED BY <1>2, <2>1, <2>3
<1>3. CASE ~Served(c)
  <2>1. Pending' = Pending
    BY <1>1, <1>3 DEF Pending, Send, send_request, Served, PtrInv, TypeOK, QueuesTypeOK
  <2> QED BY <1>3, <2>1 DEF Requests
<1> QED BY <1>2, <1>3

LEMMA OrderAppend ==
  ASSUME NEW q \in Seq(Request), OrderInv(q), NEW m \in Request,
         \A i \in 1 .. Len(q) :
           q[i].from = m.from => q[i].type \notin {"REQ_READ", "REQ_CLOSE"} /\ m.type # "REQ_OPEN"
  PROVE  OrderInv(Append(q, m))
<1> DEFINE p == Append(q, m)
<1>1. /\ Len(p) = Len(q) + 1 /\ Len(q) \in Nat /\ p[Len(q) + 1] = m
      /\ \A i \in 1 .. Len(q) : p[i] = q[i]
  BY AppendFacts
<1> HIDE DEF p
<1>2. ASSUME NEW i \in 1 .. Len(p), NEW j \in (i + 1) .. Len(p), p[i].from = p[j].from
      PROVE  p[i].type \notin {"REQ_READ", "REQ_CLOSE"} /\ p[j].type # "REQ_OPEN"
  <2>1. i \in 1 .. Len(q) /\ p[i] = q[i]
    BY <1>1
  <2>2. CASE j = Len(q) + 1
    BY <1>1, <1>2, <2>1, <2>2
  <2>3. CASE j # Len(q) + 1
    <3>1. j \in (i + 1) .. Len(q) /\ p[j] = q[j]
      BY <1>1, <2>1, <2>3
    <3> QED BY <1>2, <2>1, <3>1 DEF OrderInv
  <2> QED BY <2>2, <2>3
<1>3. OrderInv(p)
  BY <1>2 DEF OrderInv
<1> QED BY <1>3 DEF p

LEMMA OrderTail ==
  ASSUME NEW q \in Seq(Request), q # << >>, OrderInv(q)
  PROVE  /\ OrderInv(Tail(q))
         /\ \A i \in 1 .. Len(Tail(q)) : Tail(q)[i].from = Head(q).from =>
              Head(q).type \notin {"REQ_READ", "REQ_CLOSE"} /\ Tail(q)[i].type # "REQ_OPEN"
<1> DEFINE p == Tail(q)
<1>1. /\ Len(p) = Len(q) - 1 /\ Len(q) \in Nat \ {0} /\ q[1] = Head(q) /\ Len(p) \in Nat
      /\ \A i \in 1 .. Len(p) : p[i] = q[i + 1]
  BY TailFacts
<1> HIDE DEF p
<1>2. ASSUME NEW i \in 1 .. Len(p), NEW j \in (i + 1) .. Len(p), p[i].from = p[j].from
      PROVE  p[i].type \notin {"REQ_READ", "REQ_CLOSE"} /\ p[j].type # "REQ_OPEN"
  <2>1. /\ i + 1 \in 1 .. Len(q) /\ j + 1 \in (i + 1 + 1) .. Len(q)
        /\ p[i] = q[i + 1] /\ p[j] = q[j + 1]
    BY <1>1
  <2> QED BY <1>2, <2>1 DEF OrderInv
<1>3. ASSUME NEW i \in 1 .. Len(p), p[i].from = Head(q).from
      PROVE  Head(q).type \notin {"REQ_READ", "REQ_CLOSE"} /\ p[i].type # "REQ_OPEN"
  <2>1. 1 \in 1 .. Len(q) /\ i + 1 \in (1 + 1) .. Len(q) /\ p[i] = q[i + 1]
    BY <1>1
  <2> QED BY <1>1, <1>3, <2>1 DEF OrderInv
<1>4. OrderInv(p)
  BY <1>2 DEF OrderInv
<1> QED BY <1>3, <1>4 DEF p

\* What the server takes from its queue, and what is behind it.
LEMMA Taken ==
  ASSUME PtrInv, NEW type, Receive(type), UNCHANGED <<server, epoch>>, NEW m, m = Msg
  PROVE  /\ server = "up" /\ m \in Requests /\ m \in Request /\ m.from \in Clients /\ m.type = type
         /\ RequestPtr(m)
         /\ Pending \in Seq(Request) /\ Pending # << >> /\ Pending' = Tail(Pending)
         /\ Requests' \subseteq Requests /\ OrderInv(Pending)'
         /\ \A n \in Requests' : n.from = m.from =>
              type \notin {"REQ_READ", "REQ_CLOSE"} /\ n.type # "REQ_OPEN"
<1>1. server = "up" /\ Pending # << >> /\ m.type = type
  BY DEF Receive
<1>2. epoch \in Epochs /\ Pending \in Seq(Request) /\ Requests \subseteq Request
  BY <1>1, PtrTypes
<1>3. Pending' = Tail(Pending)
  BY <1>2 DEF Receive, Pending, PtrInv, TypeOK, QueuesTypeOK
<1>4. /\ Len(Pending') = Len(Pending) - 1 /\ Len(Pending) \in Nat \ {0} /\ Pending[1] = m
      /\ \A i \in 1 .. Len(Pending') : i + 1 \in 1 .. Len(Pending) /\ Pending'[i] = Pending[i + 1]
  BY <1>1, <1>2, <1>3, TailFacts DEF Msg
<1>5. m \in Requests /\ Requests' \subseteq Requests
  BY <1>4 DEF Requests
<1>6. OrderInv(Pending)
  BY <1>1 DEF PtrInv
<1>7. OrderInv(Tail(Pending))
  BY <1>1, <1>2, <1>6, OrderTail
<1>8. OrderInv(Pending)'
  BY <1>3, <1>7 DEF OrderInv
<1>9. ASSUME NEW n \in Requests', n.from = m.from
      PROVE  type \notin {"REQ_READ", "REQ_CLOSE"} /\ n.type # "REQ_OPEN"
  <2>1. PICK i \in 1 .. Len(Tail(Pending)) : n = Tail(Pending)[i]
    BY <1>3 DEF Requests
  <2> QED BY <1>1, <1>2, <1>6, <1>9, <2>1, OrderTail DEF Msg
<1>10. RequestPtr(m) /\ m.from \in Clients
  BY <1>1, <1>5, PtrTypes DEF PtrInv
<1> QED BY <1>1, <1>2, <1>3, <1>5, <1>8, <1>9, <1>10

\* What a client takes from its reply queue, and what is behind it.
LEMMA ReplyTaken ==
  ASSUME PtrInv, NEW c \in Clients, NEW p, Receives(c, p), NEW r, r = Answer(c)
  PROVE  /\ r \in Replies(c) /\ r \in Reply /\ ReplyPtr(c, r) /\ pc[c] = p
         /\ Replies(c)' \subseteq Replies(c)
         /\ \A b \in Clients \ {c} : Replies(b)' = Replies(b) /\ reply_mq'[b] = reply_mq[b]
         /\ RepliesOnce'
         /\ \A d \in Clients : HandsOut(r, d) =>
              \A b \in Clients : \A s \in Replies(b)' : ~HandsOut(s, d)
         /\ r.type = "REQ_READ" => \A s \in Replies(c)' : s.type # "REQ_READ"
<1>1. reply_mq[c] \in Seq(Reply) /\ reply_mq[c] # << >> /\ pc[c] = p
  BY PtrTypes DEF Receives
<1>2. reply_mq'[c] = Tail(reply_mq[c]) /\ \A b \in Clients \ {c} : reply_mq'[b] = reply_mq[b]
  BY DEF Receives, PtrInv, TypeOK, QueuesTypeOK
<1>3. /\ Len(reply_mq[c]) \in Nat \ {0} /\ 1 \in 1 .. Len(reply_mq[c]) /\ reply_mq[c][1] = r
      /\ \A k \in 1 .. Len(reply_mq'[c]) :
           /\ k + 1 \in 1 .. Len(reply_mq[c]) /\ k + 1 # 1
           /\ reply_mq'[c][k] = reply_mq[c][k + 1]
  BY <1>1, <1>2, TailFacts DEF Answer
<1>4. r \in Replies(c) /\ Replies(c)' \subseteq Replies(c)
  BY <1>3 DEF Replies
<1>5. \A b \in Clients \ {c} : Replies(b)' = Replies(b)
  BY <1>2 DEF Replies
<1>6. RepliesOnce'
  <2> SUFFICES ASSUME NEW b \in Clients, NEW e \in Clients, NEW k \in 1 .. Len(reply_mq'[b]),
                      NEW l \in 1 .. Len(reply_mq'[e]), b # e \/ k # l
               PROVE  /\ \A d \in Clients : HandsOut(reply_mq'[b][k], d) => ~HandsOut(reply_mq'[e][l], d)
                      /\ b = e => ~(reply_mq'[b][k].type = "REQ_READ" /\ reply_mq'[e][l].type = "REQ_READ")
    BY DEF RepliesOnce, HandsOut
  <2>1. PICK i \in 1 .. Len(reply_mq[b]) :
          reply_mq'[b][k] = reply_mq[b][i] /\ i = IF b = c THEN k + 1 ELSE k
    BY <1>2, <1>3
  <2>2. PICK j \in 1 .. Len(reply_mq[e]) :
          reply_mq'[e][l] = reply_mq[e][j] /\ j = IF e = c THEN l + 1 ELSE l
    BY <1>2, <1>3
  <2>3. k \in Int /\ l \in Int
    OBVIOUS
  <2>4. b # e \/ i # j
    BY <2>1, <2>2, <2>3
  <2> QED BY <2>1, <2>2, <2>4 DEF PtrInv, RepliesOnce
<1>7. ASSUME NEW d \in Clients, HandsOut(r, d), NEW b \in Clients, NEW s \in Replies(b)'
      PROVE  ~HandsOut(s, d)
  <2>1. PICK k \in 1 .. Len(reply_mq'[b]) : s = reply_mq'[b][k]
    BY DEF Replies
  <2>2. PICK i \in 1 .. Len(reply_mq[b]) : s = reply_mq[b][i] /\ (b # c \/ i # 1)
    BY <1>2, <1>3, <2>1
  <2> QED BY <1>3, <1>7, <2>2 DEF PtrInv, RepliesOnce
<1>8. ASSUME r.type = "REQ_READ", NEW s \in Replies(c)' PROVE s.type # "REQ_READ"
  <2>1. PICK k \in 1 .. Len(reply_mq'[c]) : s = reply_mq'[c][k]
    BY DEF Replies
  <2>2. PICK i \in 1 .. Len(reply_mq[c]) : s = reply_mq[c][i] /\ i # 1
    BY <1>3, <2>1
  <2> QED BY <1>3, <1>8, <2>2 DEF PtrInv, RepliesOnce
<1>9. r \in Reply /\ ReplyPtr(c, r)
  BY <1>4, PtrTypes DEF PtrInv
<1> QED BY <1>1, <1>2, <1>4, <1>5, <1>6, <1>7, <1>8, <1>9

\* What a reply of the server does to the queue of c.
LEMMA ReplySent ==
  ASSUME PtrInv, NEW c \in Clients, NEW r, send_reply(c, r),
         \A d \in Clients : HandsOut(r, d) =>
           \A b \in Clients : \A s \in Replies(b) : ~HandsOut(s, d),
         r.type = "REQ_READ" => \A s \in Replies(c) : s.type # "REQ_READ"
  PROVE  /\ Replies(c)' = Replies(c) \cup {r}
         /\ \A b \in Clients \ {c} : Replies(b)' = Replies(b) /\ reply_mq'[b] = reply_mq[b]
         /\ RepliesOnce'
<1>1. reply_mq[c] \in Seq(Reply)
  BY PtrTypes
<1>2. reply_mq'[c] = Append(reply_mq[c], r) /\ \A b \in Clients \ {c} : reply_mq'[b] = reply_mq[b]
  BY DEF send_reply, PtrInv, TypeOK, QueuesTypeOK
<1>3. /\ Len(reply_mq'[c]) = Len(reply_mq[c]) + 1 /\ Len(reply_mq[c]) \in Nat
      /\ reply_mq'[c][Len(reply_mq[c]) + 1] = r
      /\ \A k \in 1 .. Len(reply_mq[c]) : reply_mq'[c][k] = reply_mq[c][k]
  BY <1>1, <1>2, AppendFacts
<1>4. Replies(c)' = Replies(c) \cup {r}
  BY <1>3 DEF Replies
<1>5. \A b \in Clients \ {c} : Replies(b)' = Replies(b)
  BY <1>2 DEF Replies
<1>6. RepliesOnce'
  <2> DEFINE New(b, k) == b = c /\ k = Len(reply_mq[c]) + 1
  <2> SUFFICES ASSUME NEW b \in Clients, NEW e \in Clients, NEW k \in 1 .. Len(reply_mq'[b]),
                      NEW l \in 1 .. Len(reply_mq'[e]), b # e \/ k # l
               PROVE  /\ \A d \in Clients : HandsOut(reply_mq'[b][k], d) => ~HandsOut(reply_mq'[e][l], d)
                      /\ b = e => ~(reply_mq'[b][k].type = "REQ_READ" /\ reply_mq'[e][l].type = "REQ_READ")
    BY DEF RepliesOnce, HandsOut
  <2>1. \/ New(b, k) /\ reply_mq'[b][k] = r
        \/ k \in 1 .. Len(reply_mq[b]) /\ reply_mq'[b][k] = reply_mq[b][k]
    <3>1. CASE b = c
      BY <1>3, <3>1
    <3>2. CASE b # c
      BY <1>2, <3>2
    <3> QED BY <3>1, <3>2
  <2>2. \/ New(e, l) /\ reply_mq'[e][l] = r
        \/ l \in 1 .. Len(reply_mq[e]) /\ reply_mq'[e][l] = reply_mq[e][l]
    <3>1. CASE e = c
      BY <1>3, <3>1
    <3>2. CASE e # c
      BY <1>2, <3>2
    <3> QED BY <3>1, <3>2
  <2>3. CASE New(b, k) /\ reply_mq'[b][k] = r
    <3>1. reply_mq'[e][l] \in Replies(e)
      BY <2>2, <2>3 DEF Replies
    <3> QED BY <2>3, <3>1
  <2>4. CASE New(e, l) /\ reply_mq'[e][l] = r
    <3>1. reply_mq'[b][k] \in Replies(b)
      BY <2>1, <2>4 DEF Replies
    <3> QED BY <2>4, <3>1
  <2>5. CASE /\ k \in 1 .. Len(reply_mq[b]) /\ reply_mq'[b][k] = reply_mq[b][k]
             /\ l \in 1 .. Len(reply_mq[e]) /\ reply_mq'[e][l] = reply_mq[e][l]
    BY <2>5 DEF PtrInv, RepliesOnce
  <2> HIDE DEF New
  <2> QED BY <2>1, <2>2, <2>3, <2>4, <2>5
<1> QED BY <1>2, <1>4, <1>5, <1>6

-------------------------------------------------------------------------------
\* Steps of a client.  A client moves forward only.
Forward(c) ==
  /\ pc'[c] \in NotAsked => pc[c] \in NotAsked
  /\ pc'[c] \in NotNamed => pc[c] \in NotNamed
  /\ pc[c] \in Opened => pc'[c] \in Opened
  /\ pc[c] \in After => pc'[c] \in After

\* A client with a name, or that has sent something, is past the constructor.
LEMMA NothingYet ==
  ASSUME PtrInv, NEW c \in Clients, pc[c] \in NotAsked
  PROVE  /\ volume_[c] = Null /\ Unheld(c)
         /\ \A b \in Clients : \A r \in Replies(b) : ~HandsOut(r, c)
         /\ server = "up" => \A m \in Requests : m.from # c
         /\ pc[c] \in NotNamed => Replies(c) = {}
<1>1. volume_[c] = Null
  BY DEF PtrInv, HeldInv, Opened, Using, After, NotAsked, NotNamed
<1>2. Unheld(c)
  BY SharedMemAssumption DEF PtrInv, HeldInv, Unheld
<1>3. \A b \in Clients : \A r \in Replies(b) : ~HandsOut(r, c)
  BY DEF PtrInv, ReplyPtr, HandsOut
<1>4. ASSUME server = "up", NEW m \in Requests, m.from = c PROVE FALSE
  BY <1>4 DEF PtrInv, RequestPtr
<1>5. pc[c] \in NotNamed => Replies(c) = {}
  BY DEF PtrInv, ReplyPtr
<1> QED BY <1>1, <1>2, <1>3, <1>4, <1>5

\* Steps that neither send nor receive.
LEMMA QuietStep ==
  ASSUME PtrInv, TypeOK', UnsetInv', NEW c \in Clients, ClientFrame(c), Forward(c), NamesInv',
         UNCHANGED <<request_mq, request_name, reply_mq, volume_>>,
         \/ request_mq_'[c] = request_mq_[c]
         \/ pc[c] = "ctor_open" /\ request_mq_'[c] = request_name,
         pc'[c] \in Using => pc[c] \in Using \/ volume_[c] = Null,
         pc[c] \in ReadOver => pc'[c] \in ReadOver
  PROVE  PtrInv'
<1>1. Requests' = Requests /\ Pending' = Pending /\ \A b \in Clients : Replies(b)' = Replies(b)
  BY DEF ClientFrame, serverVars, Requests, Pending, Replies
<1>2. \A d \in Clients : pc'[d] \in NotAsked => pc[d] \in NotAsked
  BY DEF ClientFrame, Forward
<1>3. ASSUME NEW b \in Clients, pc[b] \notin NotNamed PROVE Served(b)' = Served(b)
  BY <1>3 DEF ClientFrame, serverVars, Served, NotNamed
<1>4. ASSUME NEW b \in Clients PROVE HeldInv(b)'
  <2>1. HeldInv(b)
    BY DEF PtrInv
  <2>2. volume_[b] \in Clients \cup {Null} /\ volume_'[b] = volume_[b] /\ vols' = vols
    BY DEF PtrInv, TypeOK, ClientTypeOK, ClientFrame, serverVars
  <2>3. pc[b] \in Opened => pc'[b] \in Opened
    BY DEF ClientFrame, Forward
  <2>4. pc'[b] \in Using /\ volume_[b] # Null => pc[b] \in Using /\ pc[b] \notin NotNamed
    BY DEF ClientFrame, Using, NotNamed
  <2>5. pc'[b] \in Using /\ volume_[b] # Null /\ Served(b)' => vols[volume_[b]] = OwnVolume(b)
    BY <1>3, <2>1, <2>4 DEF HeldInv
  <2> QED BY <1>2, <2>1, <2>2, <2>3, <2>5 DEF HeldInv
<1>5. ASSUME NEW b \in Clients, NEW r \in Replies(b) PROVE ReplyPtr(b, r)'
  <2>1. ReplyPtr(b, r)
    BY DEF PtrInv
  <2>2. pc'[b] \notin NotNamed /\ Served(b)' = Served(b)
    BY <1>3, <2>1 DEF ReplyPtr, ClientFrame, Forward
  <2>3. pc[b] \in ReadOver => pc'[b] \in ReadOver
    BY DEF ClientFrame
  <2> QED
    BY <1>1, <1>2, <2>1, <2>2, <2>3 DEF ReplyPtr, Unheld, ClientFrame, serverVars
<1>6. ASSUME server = "up", NEW m \in Requests PROVE RequestPtr(m)'
  <2>1. RequestPtr(m) /\ m.from \in Clients
    BY <1>6, PtrTypes DEF PtrInv
  <2>2. pc[m.from] \notin NotAsked
    BY <1>6, <2>1, NothingYet
  <2>3. request_mq_'[m.from] = request_mq_[m.from]
    BY <2>1, <2>2 DEF ClientFrame, NotAsked, NotNamed
  <2>4. /\ pc'[m.from] \notin NotAsked
        /\ pc[m.from] \in ReadOver => pc'[m.from] \in ReadOver
        /\ pc[m.from] \in After => pc'[m.from] \in After
        /\ pc[m.from] \in Opened => pc'[m.from] \in Opened
    BY <2>1, <2>2 DEF ClientFrame, Forward
  <2> QED
    BY <1>1, <2>1, <2>3, <2>4 DEF RequestPtr, Unheld, InFile, ClientFrame, serverVars
<1>7. EpochInv'
  BY DEF PtrInv, EpochInv, ClientFrame, serverVars
<1>8. RepliesOnce'
  BY DEF PtrInv, RepliesOnce, HandsOut
<1>9. server' = "up" => OrderInv(Pending)'
  BY <1>1 DEF PtrInv, OrderInv, ClientFrame, serverVars
<1> QED
  BY <1>1, <1>4, <1>5, <1>6, <1>7, <1>8, <1>9 DEF PtrInv, ClientFrame, serverVars

\* Steps that send a request.
LEMMA SendStep ==
  ASSUME PtrInv, TypeOK', UnsetInv', NEW c \in Clients, ClientFrame(c),
         NEW m \in Request, NEW p, Send(c, m, p), pc[c] \in {"open", "idle", "io"},
         m.from = c, m.name = VolumeOf[c], m.type # "REQ_FSYNC",
         IF pc[c] = "open" THEN p = "wait_open" /\ m.type = "REQ_OPEN"
                           ELSE p \in Opened /\ m.type # "REQ_OPEN" /\ m.volume = volume_[c],
         volume_[c] = Null => m.type \in {"REQ_OPEN", "REQ_GETSIZE", "REQ_CLOSE"},
         m.type = "REQ_READ" => InFile(m) /\ p = "wait_read",
         m.type = "REQ_CLOSE" => p = "destroy"
  PROVE  PtrInv'
<1>1. pc'[c] = p /\ UNCHANGED <<request_name, reply_mq, reply_name, request_mq_, volume_>>
  BY DEF Send, Goto, PtrInv, TypeOK, ClientTypeOK
<1>2. \A b \in Clients : Replies(b)' = Replies(b) /\ Served(b)' = Served(b)
  BY <1>1 DEF Replies, Served, ClientFrame, serverVars
<1>3. Forward(c) /\ \A d \in Clients : pc'[d] \in NotAsked => pc[d] \in NotAsked
  BY <1>1 DEF Forward, ClientFrame, Opened, After, Using, NotAsked, NotNamed
<1>4. /\ pc[c] = "open" => volume_[c] = Null /\ p \notin Using
      /\ pc[c] # "open" /\ volume_[c] # Null /\ Served(c) => vols[volume_[c]] = OwnVolume(c)
  BY NothingYet DEF PtrInv, HeldInv, Using, NotAsked
<1>5. ASSUME NEW b \in Clients PROVE HeldInv(b)'
  <2>1. HeldInv(b) /\ volume_[b] \in Clients \cup {Null} /\ vols' = vols
    BY DEF PtrInv, TypeOK, ClientTypeOK, ClientFrame, serverVars
  <2>2. pc[b] \in Opened => pc'[b] \in Opened
    BY <1>3 DEF ClientFrame, Forward
  <2>3. pc'[b] \in Using /\ volume_[b] # Null /\ Served(b) => vols[volume_[b]] = OwnVolume(b)
    BY <1>1, <1>4, <2>1 DEF HeldInv, ClientFrame
  <2> QED BY <1>1, <1>2, <1>3, <2>1, <2>2, <2>3 DEF HeldInv
<1>6. ASSUME server = "up", NEW n \in Requests, n.from = c
      PROVE  n.type \notin {"REQ_READ", "REQ_CLOSE"} /\ m.type # "REQ_OPEN"
  <2>1. RequestPtr(n) /\ pc[c] # "open"
    BY <1>6, NothingYet DEF PtrInv, NotAsked
  <2> QED BY <1>6, <2>1 DEF RequestPtr, ReadOver, After
<1>7. server = "up" => Requests' \subseteq Requests \cup {m} /\ (~Served(c) => Requests' = Requests)
  BY Sent DEF Gone, ClientFrame
<1>8. ASSUME NEW b \in Clients, NEW r \in Replies(b) PROVE ReplyPtr(b, r)'
  <2>1. ReplyPtr(b, r)
    BY DEF PtrInv
  <2>2. pc'[b] \notin NotNamed /\ (r.type = "REQ_READ" => b # c /\ pc'[b] \in ReadOver)
    BY <1>3, <2>1 DEF ReplyPtr, ClientFrame, Forward, ReadOver
  <2>3. r.type = "REQ_READ" /\ server = "up" => \A n \in Requests' : n.from = b => n.type # "REQ_READ"
    BY <1>7, <2>1, <2>2 DEF ReplyPtr
  <2> QED
    BY <1>1, <1>2, <1>3, <2>1, <2>2, <2>3 DEF ReplyPtr, Unheld, ClientFrame, serverVars
<1>9. ASSUME server = "up", NEW n \in Requests PROVE RequestPtr(n)'
  <2>1. RequestPtr(n) /\ n.from \in Clients
    BY <1>9, PtrTypes DEF PtrInv
  <2>2. /\ pc[n.from] \notin NotAsked => pc'[n.from] \notin NotAsked
        /\ n.type = "REQ_READ" => pc'[n.from] \in ReadOver
        /\ n.type = "REQ_CLOSE" => pc'[n.from] \in After
        /\ pc[n.from] \in Opened => pc'[n.from] \in Opened
    BY <1>3, <1>6, <1>9, <2>1 DEF ClientFrame, RequestPtr, Forward
  <2> QED
    BY <1>1, <1>2, <2>1, <2>2 DEF RequestPtr, Unheld, InFile, ClientFrame, serverVars
<1>10. Served(c) => RequestPtr(m)'
  <2>1. CASE pc[c] = "open"
    <3>1. Unheld(c) /\ \A b \in Clients : \A r \in Replies(b) : ~HandsOut(r, c)
      BY <2>1, NothingYet DEF NotAsked
    <3> QED
      BY <1>1, <1>2, <2>1, <3>1 DEF RequestPtr, Unheld, Served, NotAsked, NotNamed, ClientFrame,
         serverVars
  <2>2. CASE pc[c] # "open"
    BY <1>1, <1>4, <2>2 DEF RequestPtr, Served, InFile, ReadOver, After, Opened, Using, NotAsked,
       NotNamed, ClientFrame, serverVars
  <2> QED BY <2>1, <2>2
<1>11. server' = "up" => (\A n \in Requests' : RequestPtr(n)') /\ OrderInv(Pending)'
  <2> SUFFICES ASSUME server = "up" PROVE (\A n \in Requests' : RequestPtr(n)') /\ OrderInv(Pending)'
    BY DEF ClientFrame, serverVars
  <2>1. Pending \in Seq(Request) /\ OrderInv(Pending)
    BY PtrTypes DEF PtrInv
  <2>2. CASE Served(c)
    <3>1. Pending' = Append(Pending, m)
      BY <2>2, Sent DEF Gone, ClientFrame
    <3>2. \A i \in 1 .. Len(Pending) : Pending[i].from = m.from =>
            Pending[i].type \notin {"REQ_READ", "REQ_CLOSE"} /\ m.type # "REQ_OPEN"
      BY <1>6 DEF Requests
    <3>3. OrderInv(Append(Pending, m))
      BY <2>1, <3>2, OrderAppend
    <3>4. OrderInv(Pending)'
      BY <3>1, <3>3 DEF OrderInv
    <3> QED BY <1>7, <1>9, <1>10, <2>2, <3>4
  <2>3. CASE ~Served(c)
    <3>1. Pending' = Pending
      BY <2>3, Sent DEF Gone, ClientFrame
    <3>2. OrderInv(Pending)'
      BY <2>1, <3>1 DEF OrderInv
    <3> QED BY <1>7, <1>9, <2>3, <3>2
  <2> QED BY <2>2, <2>3
<1>12. EpochInv' /\ NamesInv' /\ RepliesOnce'
  <2>1. EpochInv' /\ RepliesOnce'
    BY <1>1 DEF PtrInv, EpochInv, RepliesOnce, HandsOut, ClientFrame, serverVars
  <2>2. ASSUME NEW v \in Volumes, reply_name[v] # Null PROVE pc'[reply_name[v]] \notin NotNamed
    <3>1. reply_name[v] \in Clients /\ pc[reply_name[v]] \notin NotNamed
      BY <2>2 DEF PtrInv, NamesInv, TypeOK, QueuesTypeOK
    <3> QED BY <1>3, <3>1 DEF Forward, ClientFrame
  <2> QED BY <1>1, <2>1, <2>2 DEF PtrInv, NamesInv
<1> QED BY <1>2, <1>5, <1>8, <1>11, <1>12 DEF PtrInv

\* Steps that take a reply.  Only an answer to OPEN changes the pointer.
LEMMA TakeStep ==
  ASSUME PtrInv, TypeOK', UnsetInv', NEW c \in Clients, ClientFrame(c), NEW q \in Waiting, Receives(c, q),
         UNCHANGED volume_, pc'[c] \in {"idle", "io", "failed", "aborted"},
         pc'[c] = "io" => Answer(c).type = "REQ_READ" /\ q = "wait_read",
         pc'[c] = "idle" => q = "wait_getsize",
         pc'[c] = "failed" => q = "wait_open"
  PROVE  PtrInv'
<1>r. PICK r : r = Answer(c)
  OBVIOUS
<1>1. /\ r \in Reply /\ ReplyPtr(c, r) /\ pc[c] = q
      /\ \A b \in Clients : Replies(b)' \subseteq Replies(b)
      /\ RepliesOnce'
      /\ r.type = "REQ_READ" => \A s \in Replies(c)' : s.type # "REQ_READ"
  BY <1>r, ReplyTaken
<1>2. UNCHANGED <<request_mq, request_name, reply_name, request_mq_>>
  BY DEF Receives
<1>3. Requests' = Requests /\ Pending' = Pending /\ \A b \in Clients : Served(b)' = Served(b)
  BY <1>2 DEF ClientFrame, serverVars, Requests, Pending, Served
<1>4. Forward(c) /\ \A d \in Clients : pc'[d] \in NotAsked => pc[d] \in NotAsked
  BY <1>1 DEF Forward, ClientFrame, Opened, After, Using, NotAsked, NotNamed, Waiting
<1>5. pc'[c] \in Using => pc[c] \in Using
  BY <1>1 DEF Using
<1>6. ASSUME NEW b \in Clients PROVE HeldInv(b)'
  <2>1. HeldInv(b) /\ volume_[b] \in Clients \cup {Null} /\ vols' = vols
    BY DEF PtrInv, TypeOK, ClientTypeOK, ClientFrame, serverVars
  <2>2. pc[b] \in Opened => pc'[b] \in Opened
    BY <1>4 DEF ClientFrame, Forward
  <2>3. pc'[b] \in Using => pc[b] \in Using
    BY <1>5 DEF ClientFrame
  <2> QED BY <1>3, <1>4, <2>1, <2>2, <2>3 DEF HeldInv
<1>7. pc[c] \in ReadOver => pc'[c] \in ReadOver \/ (r.type = "REQ_READ" /\ pc'[c] = "io")
  <2>1. pc[c] \in ReadOver => q = "wait_read"
    BY <1>1 DEF ReadOver, Waiting
  <2>2. q = "wait_read" => pc'[c] \in {"io", "aborted"}
    OBVIOUS
  <2>3. pc'[c] = "io" => r.type = "REQ_READ"
    BY <1>r
  <2>4. "aborted" \in ReadOver
    BY DEF ReadOver
  <2> QED BY <2>1, <2>2, <2>3, <2>4
<1>8. ASSUME NEW b \in Clients, NEW s \in Replies(b)' PROVE ReplyPtr(b, s)'
  <2>1. ReplyPtr(b, s)
    BY <1>1 DEF PtrInv
  <2>2. pc'[b] \notin NotNamed
    BY <1>4, <2>1 DEF ReplyPtr, ClientFrame, Forward
  <2>3. s.type = "REQ_READ" => pc'[b] \in ReadOver
    BY <1>1, <1>7, <1>8, <2>1 DEF ReplyPtr, ClientFrame
  <2> QED
    BY <1>3, <1>4, <2>1, <2>2, <2>3 DEF ReplyPtr, Unheld, ClientFrame, serverVars
<1>9. ASSUME server = "up", NEW m \in Requests PROVE RequestPtr(m)'
  <2>1. RequestPtr(m) /\ m.from \in Clients
    BY <1>9, PtrTypes DEF PtrInv
  <2>2. /\ pc[m.from] \notin NotAsked => pc'[m.from] \notin NotAsked
        /\ m.type = "REQ_CLOSE" => pc'[m.from] \in After
        /\ pc[m.from] \in Opened => pc'[m.from] \in Opened
    BY <1>4, <2>1 DEF ClientFrame, Forward, RequestPtr
  <2>3. m.type = "REQ_READ" => pc'[m.from] \in ReadOver
    <3>1. m.from = c /\ m.type = "REQ_READ" => r.type # "REQ_READ"
      BY <1>1, <1>9 DEF ReplyPtr
    <3> QED BY <1>7, <2>1, <3>1 DEF ClientFrame, RequestPtr
  <2>4. m.type = "REQ_OPEN" => \A b \in Clients : \A s \in Replies(b)' : ~HandsOut(s, m.from)
    BY <1>1, <2>1 DEF RequestPtr
  <2> QED
    BY <1>2, <2>1, <2>2, <2>3, <2>4 DEF RequestPtr, Unheld, InFile, ClientFrame, serverVars
<1>10. EpochInv' /\ NamesInv'
  <2>1. EpochInv'
    BY <1>2 DEF PtrInv, EpochInv, ClientFrame, serverVars
  <2>2. ASSUME NEW v \in Volumes, reply_name[v] # Null PROVE pc'[reply_name[v]] \notin NotNamed
    <3>1. reply_name[v] \in Clients /\ pc[reply_name[v]] \notin NotNamed
      BY <2>2 DEF PtrInv, NamesInv, TypeOK, QueuesTypeOK
    <3> QED BY <1>4, <3>1 DEF Forward, ClientFrame
  <2> QED BY <1>2, <2>1, <2>2 DEF PtrInv, NamesInv
<1>11. server' = "up" => OrderInv(Pending)'
  BY <1>3 DEF PtrInv, OrderInv, ClientFrame, serverVars
<1> QED
  BY <1>1, <1>3, <1>6, <1>8, <1>9, <1>10, <1>11 DEF PtrInv, ClientFrame, serverVars

\* The answer to an OPEN hands its pointer to the client that takes it.
LEMMA OpenStep ==
  ASSUME PtrInv, TypeOK', UnsetInv', NEW c \in Clients, ClientFrame(c), Receives(c, "wait_open"),
         Answer(c).type = "REQ_OPEN", Answer(c).err = 0, pc'[c] = "idle",
         volume_'[c] = Answer(c).volume
  PROVE  PtrInv'
<1>r. PICK r : r = Answer(c)
  OBVIOUS
<1>d. PICK d : d = r.volume
  OBVIOUS
<1>1. /\ ReplyPtr(c, r) /\ pc[c] = "wait_open"
      /\ \A b \in Clients : Replies(b)' \subseteq Replies(b)
      /\ RepliesOnce'
      /\ \A e \in Clients : HandsOut(r, e) =>
           \A b \in Clients : \A s \in Replies(b)' : ~HandsOut(s, e)
      /\ r \in Replies(c)
  BY <1>r, ReplyTaken
<1>2. UNCHANGED <<request_mq, request_name, reply_name, request_mq_>>
  BY DEF Receives
<1>3. Requests' = Requests /\ Pending' = Pending /\ \A b \in Clients : Served(b)' = Served(b)
  BY <1>2 DEF ClientFrame, serverVars, Requests, Pending, Served
<1>4. Forward(c) /\ \A e \in Clients : pc'[e] \in NotAsked => pc[e] \in NotAsked
  BY <1>1 DEF Forward, ClientFrame, Opened, After, Using, NotAsked, NotNamed
<1>5. /\ d \in Clients /\ pc[d] \notin NotAsked /\ Unheld(d) /\ HandsOut(r, d)
      /\ Served(c) => vols[d] = OwnVolume(c)
  BY <1>r, <1>d, <1>1 DEF ReplyPtr, HandsOut
<1>6. volume_[c] = Null /\ volume_'[c] = d /\ d # Null /\ \A b \in Clients \ {c} : volume_'[b] = volume_[b]
  BY <1>r, <1>d, <1>1, <1>5, SharedMemAssumption DEF PtrInv, HeldInv, Opened, Using, After,
     ClientFrame
<1>7. ASSUME NEW b \in Clients PROVE HeldInv(b)'
  <2>1. CASE b = c
    <3>1. \A e \in Clients : volume_'[e] = d => e = c
      BY <1>5, <1>6 DEF Unheld
    <3>2. pc'[c] \in Opened /\ pc'[d] \notin NotAsked /\ vols' = vols
      BY <1>4, <1>5 DEF Opened, Using, ClientFrame, serverVars
    <3> QED BY <1>3, <1>5, <1>6, <2>1, <3>1, <3>2 DEF HeldInv
  <2>2. CASE b # c
    <3>1. HeldInv(b) /\ volume_[b] \in Clients \cup {Null} /\ vols' = vols /\ volume_'[b] = volume_[b]
      BY <1>6, <2>2 DEF PtrInv, TypeOK, ClientTypeOK, ClientFrame, serverVars
    <3>2. pc'[b] = pc[b]
      BY <2>2 DEF ClientFrame
    <3>3. volume_[b] # Null => \A e \in Clients : volume_'[e] = volume_[b] => e = b
      BY <1>5, <1>6, <3>1 DEF HeldInv, Unheld
    <3> QED BY <1>3, <1>4, <3>1, <3>2, <3>3 DEF HeldInv
  <2> QED BY <2>1, <2>2
<1>8. ASSUME NEW b \in Clients, NEW s \in Replies(b)' PROVE ReplyPtr(b, s)'
  <2>1. ReplyPtr(b, s)
    BY <1>1 DEF PtrInv
  <2>2. pc'[b] \notin NotNamed
    BY <1>4, <2>1 DEF ReplyPtr, ClientFrame, Forward
  <2>3. s.type = "REQ_READ" => pc'[b] \in ReadOver
    BY <1>1, <2>1 DEF ReplyPtr, ClientFrame, ReadOver
  <2>4. s.type = "REQ_OPEN" => Unheld(s.volume)'
    <3>1. s.type = "REQ_OPEN" => s.volume # d
      BY <1>1, <1>5, <1>8 DEF HandsOut
    <3> QED BY <1>6, <2>1, <3>1 DEF ReplyPtr, Unheld
  <2> QED
    BY <1>3, <1>4, <1>6, <2>1, <2>2, <2>3, <2>4 DEF ReplyPtr, ClientFrame, serverVars
<1>9. ASSUME server = "up", NEW m \in Requests PROVE RequestPtr(m)'
  <2>1. RequestPtr(m) /\ m.from \in Clients
    BY <1>9, PtrTypes DEF PtrInv
  <2>2. pc[m.from] \notin NotAsked => pc'[m.from] \notin NotAsked
    BY <1>4, <2>1
  <2>3. CASE m.type = "REQ_OPEN"
    <3>1. m.from # d
      BY <1>1, <1>5, <2>1, <2>3 DEF RequestPtr
    <3>2. Unheld(m.from)'
      BY <1>6, <2>1, <2>3, <3>1 DEF RequestPtr, Unheld
    <3> QED
      BY <1>1, <1>2, <2>1, <2>2, <2>3, <3>2 DEF RequestPtr, ClientFrame, serverVars
  <2>4. CASE m.type # "REQ_OPEN"
    <3>1. m.from # c
      BY <1>1, <2>1, <2>4 DEF RequestPtr, Opened, Using, After
    <3>2. pc'[m.from] = pc[m.from] /\ volume_'[m.from] = volume_[m.from]
      BY <2>1, <3>1 DEF ClientFrame
    <3> QED
      BY <1>2, <2>1, <2>4, <3>2 DEF RequestPtr, InFile, ClientFrame, serverVars
  <2> QED BY <2>3, <2>4
<1>10. EpochInv' /\ NamesInv'
  <2>1. EpochInv'
    BY <1>2 DEF PtrInv, EpochInv, ClientFrame, serverVars
  <2>2. ASSUME NEW v \in Volumes, reply_name[v] # Null PROVE pc'[reply_name[v]] \notin NotNamed
    <3>1. reply_name[v] \in Clients /\ pc[reply_name[v]] \notin NotNamed
      BY <2>2 DEF PtrInv, NamesInv, TypeOK, QueuesTypeOK
    <3> QED BY <1>4, <3>1 DEF Forward, ClientFrame
  <2> QED BY <1>2, <2>1, <2>2 DEF PtrInv, NamesInv
<1>11. server' = "up" => OrderInv(Pending)'
  BY <1>3 DEF PtrInv, OrderInv, ClientFrame, serverVars
<1> QED
  BY <1>1, <1>3, <1>7, <1>8, <1>9, <1>10, <1>11 DEF PtrInv, ClientFrame, serverVars

\* The constructor and the destructor, which change what a name denotes.
LEMMA PtrNames ==
  ASSUME PtrInv, TypeOK', UnsetInv', NEW c \in Clients, UNCHANGED <<serverVars, driverVars>>,
         CtorRemove(c) \/ CtorOpen(c) \/ CtorCreate(c) \/ Destroy(c)
  PROVE  PtrInv'
<1>1. /\ UNCHANGED <<request_mq, request_name, reply_mq, volume_>>
      /\ \/ pc[c] = "none" /\ pc'[c] = "ctor_open"
         \/ pc[c] = "ctor_open" /\ pc'[c] \in {"ctor_create", "failed"}
         \/ pc[c] = "ctor_create" /\ pc'[c] \in {"open", "failed"}
         \/ pc[c] = "destroy" /\ pc'[c] = "closed"
  BY DEF CtorRemove, CtorOpen, CtorCreate, Destroy, Goto, queueVars, PtrInv, TypeOK, ClientTypeOK
<1>2. ClientFrame(c)
  BY DEF CtorRemove, CtorOpen, CtorCreate, Destroy, Goto, queueVars, PtrInv, TypeOK, ClientTypeOK,
     ClientFrame, driverVars
<1>3. Forward(c)
  BY <1>1 DEF Forward, NotAsked, NotNamed, Opened, Using, After
<1>4. \/ request_mq_'[c] = request_mq_[c]
      \/ pc[c] = "ctor_open" /\ request_mq_'[c] = request_name
  BY DEF CtorRemove, CtorOpen, CtorCreate, Destroy, PtrInv, TypeOK, ClientTypeOK
<1>5. ASSUME NEW v \in Volumes
      PROVE  \/ reply_name'[v] \in {reply_name[v], Null}
             \/ v = VolumeOf[c] /\ reply_name'[v] = c /\ pc'[c] = "open"
  BY SharedMemAssumption DEF CtorRemove, CtorOpen, CtorCreate, Destroy, Goto, queueVars, PtrInv,
     TypeOK, ClientTypeOK, QueuesTypeOK
<1>6. ASSUME NEW v \in Volumes, reply_name'[v] # Null
      PROVE  VolumeOf[reply_name'[v]] = v /\ pc'[reply_name'[v]] \notin NotNamed
  <2>1. CASE reply_name'[v] = reply_name[v]
    <3>1. reply_name[v] \in Clients /\ VolumeOf[reply_name[v]] = v /\ pc[reply_name[v]] \notin NotNamed
      BY <1>6, <2>1 DEF PtrInv, NamesInv, TypeOK, QueuesTypeOK
    <3> QED BY <1>2, <1>3, <2>1, <3>1 DEF ClientFrame, Forward
  <2>2. CASE v = VolumeOf[c] /\ reply_name'[v] = c /\ pc'[c] = "open"
    BY <2>2 DEF NotNamed
  <2> QED BY <1>5, <1>6, <2>1, <2>2
<1>7. NamesInv'
  BY <1>6 DEF NamesInv
<1>8. pc'[c] \notin Using /\ pc[c] \notin ReadOver
  BY <1>1 DEF Using, ReadOver
<1> QED BY <1>1, <1>2, <1>3, <1>4, <1>7, <1>8, QuietStep

\* Steps that only move pc and the locals of the driver.
LEMMA PtrLocal ==
  ASSUME PtrInv, TypeOK', UnsetInv', NEW c \in Clients, UNCHANGED serverVars,
         \/ \E r, isWrite, buffer : StartIo(c, r, isWrite, buffer)
         \/ \E r : Misaligned(c, r)
         \/ IoReturns(c)
         \/ QemuKilled(c)
         \/ (OpenThrows(c) \/ CloseThrows(c)) /\ UNCHANGED driverVars
         \/ GetLengthThrows(c)
         \/ IoThrows(c)
  PROVE  PtrInv'
<1>1. /\ UNCHANGED <<queueVars, request_mq_, volume_>>
      /\ \A d \in Clients \ {c} : pc'[d] = pc[d] /\ io'[d] = io[d]
      /\ \/ pc[c] \in {"idle", "io", "wait_getsize"} /\ pc'[c] \in {"idle", "io"}
         \/ pc[c] \notin Gone /\ pc'[c] = "killed"
         \/ pc[c] \in {"open", "wait_open"} /\ pc'[c] \in {"failed", "idle"}
         \/ pc[c] = "idle" /\ pc'[c] = "destroy"
         \/ pc[c] \in {"io", "wait_read"} /\ pc'[c] = "aborted"
  <2>1. CASE \E r, isWrite, buffer : StartIo(c, r, isWrite, buffer)
    BY <2>1 DEF StartIo, Call, Goto, PtrInv, TypeOK, ClientTypeOK
  <2>2. CASE \E r : Misaligned(c, r)
    BY <2>2 DEF Misaligned, Call, clientVars
  <2>3. CASE IoReturns(c)
    BY <2>3 DEF IoReturns, Goto, PtrInv, TypeOK, ClientTypeOK
  <2>4. CASE QemuKilled(c)
    BY <2>4, CvbdAssumption DEF QemuKilled, Die, Goto, PtrInv, TypeOK, ClientTypeOK
  <2>5. CASE (OpenThrows(c) \/ CloseThrows(c)) /\ UNCHANGED driverVars
    BY <2>5 DEF OpenThrows, CloseThrows, Throws, Goto, driverVars, PtrInv, TypeOK, ClientTypeOK
  <2>6. CASE GetLengthThrows(c)
    BY <2>6 DEF GetLengthThrows, GetSizeThrows, Throws, Goto, PtrInv, TypeOK, ClientTypeOK
  <2>7. CASE IoThrows(c)
    BY <2>7 DEF IoThrows, ReadWriteThrows, Throws, Goto, PtrInv, TypeOK, ClientTypeOK
  <2> QED BY <2>1, <2>2, <2>3, <2>4, <2>5, <2>6, <2>7
<1>2. ClientFrame(c) /\ UNCHANGED <<request_mq, request_name, reply_name, reply_mq>>
  BY <1>1 DEF ClientFrame, queueVars
<1>3. Forward(c)
  BY <1>1 DEF Forward, NotAsked, NotNamed, Opened, Using, After
<1>4. /\ pc'[c] \in Using => pc[c] \in Using \/ volume_[c] = Null
      /\ pc[c] \in ReadOver => pc'[c] \in ReadOver
  <2>1. pc[c] \in {"open", "wait_open"} => volume_[c] = Null
    BY DEF PtrInv, HeldInv, Opened, Using, After
  <2> QED BY <1>1, <2>1 DEF Using, ReadOver, Gone
<1>5. ASSUME NEW v \in Volumes, reply_name[v] # Null PROVE pc'[reply_name[v]] \notin NotNamed
  <2>1. reply_name[v] \in Clients /\ pc[reply_name[v]] \notin NotNamed
    BY <1>5 DEF PtrInv, NamesInv, TypeOK, QueuesTypeOK
  <2> QED BY <1>2, <1>3, <2>1 DEF ClientFrame, Forward
<1>6. NamesInv'
  BY <1>2, <1>5 DEF PtrInv, NamesInv
<1> QED BY <1>1, <1>2, <1>3, <1>4, <1>6, QuietStep

\* What the driver and the client send.
LEMMA PtrSend ==
  ASSUME PtrInv, TypeOK', UnsetInv', NEW c \in Clients, UNCHANGED serverVars,
         \/ send_open(c) /\ UNCHANGED driverVars
         \/ cvbd_getlength(c)
         \/ cvbd_close(c)
  PROVE  PtrInv'
<1>1. volume_[c] \in Clients \cup {Null} /\ 0 \in Nat /\ 0 \in 0 .. max_data_size
  BY SharedMemAssumption DEF PtrInv, TypeOK, ClientTypeOK
<1>2. PICK m, p :
        /\ Send(c, m, p)
        /\ \/ m = OpenRequest(c) /\ p = "wait_open" /\ pc[c] = "open"
           \/ m = GetSizeRequest(c, volume_[c]) /\ p = "wait_getsize" /\ pc[c] = "idle"
           \/ m = CloseRequest(c, volume_[c]) /\ p = "destroy" /\ pc[c] = "idle"
  BY DEF send_open, cvbd_getlength, send_getsize, cvbd_close, send_close
<1>3. m \in Request
  BY <1>1, <1>2, NoDataType, RequestTypes
<1>4. /\ m.from = c /\ m.name = VolumeOf[c]
      /\ IF pc[c] = "open" THEN m.type = "REQ_OPEN" /\ p = "wait_open"
                           ELSE /\ m.volume = volume_[c] /\ p \in {"wait_getsize", "destroy"}
                                /\ m.type \in {"REQ_GETSIZE", "REQ_CLOSE"}
                                /\ m.type = "REQ_CLOSE" => p = "destroy"
  BY <1>2 DEF OpenRequest, GetSizeRequest, CloseRequest, Header
<1>5. ClientFrame(c)
  BY <1>2 DEF cvbd_getlength, cvbd_close, Send, Goto, PtrInv, TypeOK, ClientTypeOK, ClientFrame,
     driverVars
<1>6. pc[c] \in {"open", "idle"} /\ "wait_getsize" \in Opened /\ "destroy" \in Opened
  BY <1>2 DEF Opened, Using, After
<1> QED BY <1>2, <1>3, <1>4, <1>5, <1>6, SendStep

\* The message a chunk of a write is sent in.
LEMMA ChunkWritten ==
  ASSUME TypeOK, NEW c \in Clients, WriteChunk(c), NEW a, a = io[c].a, NEW data,
         data = Slice(io[c].buf, RelativeOff(a), RetSize(a))
  PROVE  /\ data \in Data /\ WriteRequest(c, volume_[c], a.cur, RetSize(a), data) \in Request
         /\ a.cur \in Nat /\ RetSize(a) \in 1 .. max_data_size /\ a.cur + RetSize(a) <= FileSize
<1>1. pc[c] = "io" /\ io[c].write /\ NonAlignedCopyIsValid(a)
  BY DEF WriteChunk
<1>2. /\ a.cur \in Nat /\ a.len \in Nat /\ RelativeOff(a) \in Nat
      /\ RetSize(a) \in 1 .. max_data_size
      /\ RelativeOff(a) + RetSize(a) <= a.len /\ a.cur + RetSize(a) <= FileSize
  BY <1>1, ChunkBounds
<1>3. RetSize(a) \in Nat /\ RetSize(a) \in 0 .. max_data_size /\ volume_[c] \in Clients \cup {Null}
  BY <1>2, SharedMemAssumption DEF TypeOK, ClientTypeOK
<1>4. io[c].buf \in [0 .. a.len - 1 -> Val]
  BY <1>1 DEF TypeOK, IoTypeOK
<1>5. data \in Data
  BY <1>2, <1>3, <1>4, SliceType
<1> QED BY <1>2, <1>3, <1>5, RequestTypes

LEMMA PtrWriteChunk ==
  ASSUME PtrInv, TypeOK', UnsetInv', NEW c \in Clients, UNCHANGED serverVars, WriteChunk(c)
  PROVE  PtrInv'
<1>a. PICK a : a = io[c].a
  OBVIOUS
<1>m. PICK m : m = WriteRequest(c, volume_[c], a.cur, RetSize(a),
                                Slice(io[c].buf, RelativeOff(a), RetSize(a)))
  OBVIOUS
<1>1. Send(c, m, "io") /\ pc[c] = "io"
  BY <1>a, <1>m DEF WriteChunk, send_write
<1>2. ClientFrame(c)
  BY <1>1 DEF WriteChunk, Send, Goto, PtrInv, TypeOK, ClientTypeOK, ClientFrame
<1>3. m.from = c /\ m.type = "REQ_WRITE" /\ m.volume = volume_[c] /\ m.name = VolumeOf[c]
  BY <1>m DEF WriteRequest, Header
<1>4. m \in Request
  BY <1>a, <1>m, ChunkWritten DEF PtrInv
<1>5. volume_[c] # Null
  BY <1>1 DEF WriteChunk, PtrInv, UnsetInv, Unset
<1> QED BY <1>1, <1>2, <1>3, <1>4, <1>5, SendStep DEF Opened, Using

LEMMA PtrReadChunk ==
  ASSUME PtrInv, TypeOK', UnsetInv', NEW c \in Clients, UNCHANGED serverVars, ReadChunk(c)
  PROVE  PtrInv'
<1>a. PICK a : a = io[c].a
  OBVIOUS
<1>m. PICK m : m = ReadRequest(c, volume_[c], a.cur, RetSize(a))
  OBVIOUS
<1>1. Send(c, m, "wait_read") /\ pc[c] = "io" /\ io' = io
  BY <1>a, <1>m DEF ReadChunk, send_read, driverVars
<1>2. ClientFrame(c)
  BY <1>1 DEF Send, Goto, PtrInv, TypeOK, ClientTypeOK, ClientFrame
<1>3. /\ m.from = c /\ m.type = "REQ_READ" /\ m.volume = volume_[c] /\ m.name = VolumeOf[c]
      /\ m.offset = a.cur /\ m.size = RetSize(a)
  BY <1>m DEF ReadRequest, Header
<1>4. a.cur \in Nat /\ RetSize(a) \in 1 .. max_data_size /\ a.cur + RetSize(a) <= FileSize
  BY <1>a, <1>1, ChunkBounds DEF PtrInv, ReadChunk
<1>5. RetSize(a) \in 0 .. max_data_size /\ volume_[c] \in Clients \cup {Null}
  BY <1>4, SharedMemAssumption DEF PtrInv, TypeOK, ClientTypeOK
<1>6. m \in Request /\ InFile(m)
  BY <1>m, <1>3, <1>4, <1>5, NoDataType, RequestTypes DEF InFile
<1>7. volume_[c] # Null
  BY <1>1 DEF ReadChunk, PtrInv, UnsetInv, Unset
<1> QED BY <1>1, <1>2, <1>3, <1>6, <1>7, SendStep DEF Opened, Using

\* What they take.
LEMMA PtrTake ==
  ASSUME PtrInv, TypeOK', UnsetInv', NEW c \in Clients, UNCHANGED serverVars,
         \/ OpenReturns(c) /\ UNCHANGED driverVars
         \/ GetLengthReturns(c)
         \/ ReadChunkReturns(c)
         \/ ClientAborts(c)
  PROVE  PtrInv'
<1>1. CASE OpenReturns(c) /\ UNCHANGED driverVars
  <2>1. Receives(c, "wait_open") /\ ClientFrame(c) /\ pc[c] = "wait_open"
    BY <1>1 DEF OpenReturns, Receives, Goto, PtrInv, TypeOK, ClientTypeOK, QueuesTypeOK,
       ClientFrame, driverVars
  <2>2. Answer(c).type = "REQ_OPEN"
    BY <1>1, <2>1 DEF OpenReturns, AnswerFits, Awaited
  <2>3. CASE Answer(c).err = 0
    <3>1. pc'[c] = "idle" /\ volume_'[c] = Answer(c).volume
      BY <1>1, <2>3 DEF OpenReturns, Goto, PtrInv, TypeOK, ClientTypeOK
    <3> QED BY <2>1, <2>2, <2>3, <3>1, OpenStep
  <2>4. CASE Answer(c).err # 0
    <3>1. pc'[c] = "failed" /\ UNCHANGED volume_
      BY <1>1, <2>4 DEF OpenReturns, Goto, PtrInv, TypeOK, ClientTypeOK
    <3> QED BY <2>1, <3>1, TakeStep DEF Waiting
  <2> QED BY <2>3, <2>4
<1>2. CASE GetLengthReturns(c)
  <2>1. Receives(c, "wait_getsize") /\ ClientFrame(c) /\ pc'[c] = "idle" /\ UNCHANGED volume_
    BY <1>2 DEF GetLengthReturns, GetSizeReturns, Receives, Goto, PtrInv, TypeOK, ClientTypeOK,
       QueuesTypeOK, ClientFrame
  <2> QED BY <2>1, TakeStep DEF Waiting
<1>3. CASE ReadChunkReturns(c)
  <2>1. Receives(c, "wait_read") /\ ClientFrame(c) /\ pc'[c] = "io" /\ UNCHANGED volume_
    BY <1>3 DEF ReadChunkReturns, ReadReturns, Receives, Goto, PtrInv, TypeOK, ClientTypeOK,
       QueuesTypeOK, ClientFrame
  <2>2. Answer(c).type = "REQ_READ"
    BY <1>3 DEF ReadChunkReturns, ReadReturns, AnswerFits, Awaited
  <2> QED BY <2>1, <2>2, TakeStep DEF Waiting
<1>4. CASE ClientAborts(c)
  <2>1. PICK q \in Waiting : Receives(c, q)
    BY <1>4 DEF ClientAborts, AssertFails, Waiting
  <2>2. ClientFrame(c) /\ pc'[c] = "aborted" /\ UNCHANGED volume_
    BY <1>4 DEF ClientAborts, AssertFails, Receives, Goto, PtrInv, TypeOK, ClientTypeOK,
       QueuesTypeOK, ClientFrame
  <2> QED BY <2>1, <2>2, TakeStep
<1> QED BY <1>1, <1>2, <1>3, <1>4

LEMMA UnsetStep ==
  ASSUME PtrInv, NEW c \in Clients, ClientStep(c), volume_'[c] = Null
  PROVE  Unset(c)'
<1>1. ASSUME OpenReturns(c), Answer(c).err = 0 PROVE FALSE
  <2>1. Receives(c, "wait_open") /\ volume_'[c] = Answer(c).volume /\ Answer(c).type = "REQ_OPEN"
    BY <1>1 DEF OpenReturns, AnswerFits, Awaited, Receives, PtrInv, TypeOK, ClientTypeOK
  <2>r. PICK r : r = Answer(c)
    OBVIOUS
  <2>2. ReplyPtr(c, r)
    BY <2>r, <2>1, ReplyTaken
  <2> QED BY <2>r, <2>1, <2>2, SharedMemAssumption DEF ReplyPtr
<1>2. volume_[c] = Null
  <2>1. CASE OpenReturns(c)
    BY <1>1, <2>1 DEF OpenReturns
  <2>2. CASE ~OpenReturns(c)
    BY <2>2 DEF ClientStep, Progress, Environment, CtorOpen, CtorCreate, send_open, Send,
       GetLengthReturns, GetSizeReturns, ReadChunkReturns, ReadReturns, Destroy, WriteChunk,
       send_write, ReadChunk, send_read, IoReturns, ClientAborts, AssertFails, cvbd_open, CtorRemove,
       cvbd_getlength, send_getsize, Misaligned, clientVars, cvbd_write, cvbd_read, StartIo,
       cvbd_close, send_close, OpenThrows, CloseThrows, GetLengthThrows, GetSizeThrows, IoThrows,
       ReadWriteThrows, Throws, QemuKilled, Die
  <2> QED BY <2>1, <2>2
<1>3. Unset(c)
  BY <1>2 DEF PtrInv, UnsetInv
<1>4. ~GetLengthReturns(c)
  <2> SUFFICES ASSUME GetLengthReturns(c) PROVE FALSE
    OBVIOUS
  <2>1. Receives(c, "wait_getsize") /\ Answer(c).type = "REQ_GETSIZE"
    BY DEF GetLengthReturns, GetSizeReturns, AnswerFits, Awaited, Receives
  <2>r. PICK r : r = Answer(c)
    OBVIOUS
  <2>2. ReplyPtr(c, r)
    BY <2>r, <2>1, ReplyTaken
  <2> QED BY <1>2, <2>r, <2>1, <2>2 DEF ReplyPtr
<1>5. ~WriteChunk(c) /\ ~ReadChunk(c) /\ ~ReadChunkReturns(c)
  BY <1>3 DEF Unset, WriteChunk, ReadChunk, ReadChunkReturns
<1>6. CASE \E r, isWrite, buffer :
             (r \in GuestReads[c] \/ r \in GuestWrites[c]) /\ StartIo(c, r, isWrite, buffer)
  <2>1. PICK r, isWrite, buffer :
          (r \in GuestReads[c] \/ r \in GuestWrites[c]) /\ StartIo(c, r, isWrite, buffer)
    BY <1>6
  <2>n. PICK n, o : n = SizeOf(r) /\ o = OffsetOf(r)
    OBVIOUS
  <2>2. n \in Nat /\ o \in Nat
    <3>1. r.sector_num \in Nat /\ r.nb_sectors \in Nat /\ BDRV_SECTOR_SIZE \in Nat
      BY <2>1, CvbdAssumption
    <3> QED BY <2>n, <3>1 DEF SizeOf, OffsetOf
  <2>3. n = 0
    BY <1>3, <2>1, <2>2, <2>n DEF StartIo, Admitted, Unset
  <2>a. PICK a : a = NonAlignedCopyInit(o, n, MSGQ_MAX_SIZE)
    OBVIOUS
  <2>4. ~NonAlignedCopyIsValid(a)
    BY <2>2, <2>3, <2>a DEF NonAlignedCopyIsValid, NonAlignedCopyInit, Remaining
  <2>5. pc'[c] = "io" /\ length' = length /\ io'[c].a = a
    BY <2>1, <2>n, <2>a DEF StartIo, Goto, PtrInv, TypeOK, ClientTypeOK
  <2> QED BY <1>3, <2>4, <2>5 DEF Unset
<1>7. CASE /\ length'[c] = 0 /\ pc'[c] \notin {"io", "wait_read"}
  BY <1>7 DEF Unset
<1>8. CASE \E r : Misaligned(c, r)
  BY <1>3, <1>8 DEF Unset, Misaligned, clientVars
<1> QED
  BY <1>3, <1>4, <1>5, <1>6, <1>7, <1>8
  DEF Unset, PtrInv, TypeOK, ClientTypeOK, ClientStep, Progress, Environment, CtorOpen, CtorCreate,
      send_open, Send, OpenReturns, Goto, Destroy, IoReturns, ClientAborts, AssertFails, cvbd_open,
      CtorRemove, cvbd_getlength, send_getsize, cvbd_write, cvbd_read, cvbd_close, send_close,
      OpenThrows, CloseThrows, GetLengthThrows, GetSizeThrows, IoThrows, ReadWriteThrows, Throws,
      QemuKilled, Die, driverVars

LEMMA UnsetClient == ASSUME PtrInv, NEW c \in Clients, ClientStep(c) PROVE UnsetInv'
<1>1. ASSUME NEW d \in Clients \ {c}
      PROVE  volume_'[d] = volume_[d] /\ length'[d] = length[d] /\ pc'[d] = pc[d] /\ io'[d] = io[d]
  BY DEF PtrInv, TypeOK, ClientTypeOK, ClientStep, Progress, Environment, CtorOpen, CtorCreate,
      send_open, Send, OpenReturns, Goto, Destroy, IoReturns, ClientAborts, AssertFails, cvbd_open,
      CtorRemove, cvbd_getlength, send_getsize, cvbd_write, cvbd_read, cvbd_close, send_close,
      OpenThrows, CloseThrows, GetLengthThrows, GetSizeThrows, IoThrows, ReadWriteThrows, Throws,
      QemuKilled, Die, driverVars, GetLengthReturns, GetSizeReturns, ReadChunkReturns, ReadReturns,
      WriteChunk, send_write, ReadChunk, send_read, Misaligned, clientVars, StartIo
<1>2. ASSUME NEW d \in Clients, volume_'[d] = Null PROVE Unset(d)'
  <2>1. CASE d = c
    BY <1>2, <2>1, UnsetStep
  <2>2. CASE d # c
    BY <1>1, <1>2, <2>2 DEF PtrInv, UnsetInv, Unset
  <2> QED BY <2>1, <2>2
<1> QED BY <1>2 DEF UnsetInv

LEMMA PtrClient == ASSUME PtrInv, TypeOK', NEW c \in Clients, ClientStep(c) PROVE PtrInv'
<1>u. UnsetInv'
  BY UnsetClient
<1>1. CASE Progress(c)
  BY <1>u, <1>1, PtrNames, PtrLocal, PtrSend, PtrWriteChunk, PtrReadChunk, PtrTake DEF ClientStep, Progress
<1>2. CASE Environment(c)
  BY <1>u, <1>2, PtrNames, PtrLocal, PtrSend
  DEF ClientStep, Environment, cvbd_open, cvbd_read, cvbd_write
<1> QED BY <1>1, <1>2 DEF ClientStep

-------------------------------------------------------------------------------
\* Steps of the server.  The clients stand still, and so does the name table.
Standing == UNCHANGED <<server, epoch, request_name, reply_name, clientVars>>

LEMMA StandingFacts ==
  ASSUME PtrInv, Standing
  PROVE  EpochInv' /\ NamesInv' /\ \A c \in Clients : Served(c)' = Served(c)
BY DEF PtrInv, Standing, EpochInv, NamesInv, Served, clientVars

\* A turn of the loop that answers the sender of m, or nobody.
LEMMA PlainTurn ==
  ASSUME PtrInv, TypeOK', UnsetInv', Standing, UNCHANGED vols, NEW type, Receive(type), NEW m, m = Msg,
         \/ UNCHANGED reply_mq
         \/ /\ type \in {"REQ_GETSIZE", "REQ_READ"} /\ m.volume # Null
            /\ \E r : send_reply(m.from, r) /\ r.type = type
  PROVE  PtrInv'
<1>1. /\ server = "up" /\ m \in Requests /\ m.from \in Clients /\ m.type = type
      /\ RequestPtr(m) /\ Requests' \subseteq Requests /\ OrderInv(Pending)'
      /\ \A n \in Requests' : n.from = m.from =>
           type \notin {"REQ_READ", "REQ_CLOSE"} /\ n.type # "REQ_OPEN"
  BY Taken DEF Standing
<1>2. UNCHANGED <<server, epoch, request_name, reply_name, pc, request_mq_, volume_>>
  BY DEF Standing, clientVars
<1>3. EpochInv' /\ NamesInv' /\ \A c \in Clients : Served(c)' = Served(c)
  BY StandingFacts
<1>4. \A c \in Clients : HeldInv(c)'
  BY <1>2, <1>3 DEF PtrInv, HeldInv
<1>5. /\ RepliesOnce'
      /\ \A b \in Clients : \A s \in Replies(b)' : s \in Replies(b) \/
           (b = m.from /\ s.type = type /\ type \in {"REQ_GETSIZE", "REQ_READ"} /\ m.volume # Null)
  <2>1. CASE UNCHANGED reply_mq
    BY <2>1 DEF PtrInv, RepliesOnce, HandsOut, Replies
  <2>2. CASE /\ type \in {"REQ_GETSIZE", "REQ_READ"} /\ m.volume # Null
             /\ \E r : send_reply(m.from, r) /\ r.type = type
    <3>1. PICK r : send_reply(m.from, r) /\ r.type = type
      BY <2>2
    <3>2. \A d \in Clients : ~HandsOut(r, d)
      BY <2>2, <3>1 DEF HandsOut
    <3>3. r.type = "REQ_READ" => \A s \in Replies(m.from) : s.type # "REQ_READ"
      BY <1>1, <3>1 DEF PtrInv, ReplyPtr
    <3>4. /\ Replies(m.from)' = Replies(m.from) \cup {r}
          /\ \A b \in Clients \ {m.from} : Replies(b)' = Replies(b)
          /\ RepliesOnce'
      BY <1>1, <3>1, <3>2, <3>3, ReplySent
    <3> QED BY <2>2, <3>1, <3>4
  <2> QED BY <2>1, <2>2
<1>6. ASSUME NEW b \in Clients, NEW s \in Replies(b)' PROVE ReplyPtr(b, s)'
  <2>1. CASE s \in Replies(b)
    <3>1. ReplyPtr(b, s)
      BY <2>1 DEF PtrInv
    <3> QED BY <1>1, <1>2, <1>3, <3>1 DEF ReplyPtr, Unheld
  <2>2. CASE b = m.from /\ s.type = type /\ type \in {"REQ_GETSIZE", "REQ_READ"} /\ m.volume # Null
    <3>1. volume_[b] # Null /\ (s.type = "REQ_READ" => pc[b] \in ReadOver)
      BY <1>1, <2>2 DEF RequestPtr
    <3>2. pc[b] \notin NotNamed
      BY <1>1, <2>2 DEF RequestPtr, NotAsked
    <3> QED BY <1>1, <1>2, <2>2, <3>1, <3>2 DEF ReplyPtr
  <2> QED BY <1>5, <2>1, <2>2
<1>7. ASSUME NEW n \in Requests' PROVE RequestPtr(n)'
  <2>1. RequestPtr(n)
    BY <1>1 DEF PtrInv
  <2>2. n.type = "REQ_OPEN" => \A b \in Clients : \A s \in Replies(b)' : ~HandsOut(s, n.from)
    BY <1>5, <2>1 DEF RequestPtr, HandsOut
  <2> QED BY <1>2, <2>1, <2>2 DEF RequestPtr, Unheld, InFile
<1> QED BY <1>1, <1>3, <1>4, <1>5, <1>6, <1>7 DEF PtrInv

LEMMA PtrPlain ==
  ASSUME PtrInv, TypeOK', UnsetInv', UNCHANGED <<clientVars, driverVars>>,
         OpenCreateFails \/ write \/ getsize \/ read
  PROVE  PtrInv'
<1>m. PICK m : m = Msg
  OBVIOUS
<1>1. Standing /\ UNCHANGED vols
  BY DEF Standing, OpenCreateFails, write, getsize, read, serverVars
<1>2. CASE OpenCreateFails \/ write
  <2>1. UNCHANGED reply_mq /\ \E type : Receive(type)
    BY <1>2 DEF OpenCreateFails, write
  <2> QED BY <1>m, <1>1, <2>1, PlainTurn
<1>3. CASE getsize \/ read
  <2>1. PICK type \in {"REQ_GETSIZE", "REQ_READ"} : Receive(type)
    BY <1>3 DEF getsize, read
  <2>2. m.from \in Clients /\ m.type = type /\ RequestPtr(m)
    BY <1>m, <1>1, <2>1, Taken DEF Standing
  <2>3. m.volume # Null /\ vols[m.volume] = OwnVolume(m.from)
    BY <1>m, <1>3, <2>2 DEF RequestPtr, getsize, read, Allocated
  <2>4. vols[m.volume].reply_mq = m.from
    BY <2>3 DEF OwnVolume
  <2>5. \E r : send_reply(m.from, r) /\ r.type = type
    <3>1. CASE getsize
      <4>1. PICK size : send_reply(m.from, GetSizeReply(m, size))
        BY <1>m, <2>4, <3>1 DEF getsize
      <4>2. GetSizeReply(m, size).type = type
        BY <2>2 DEF GetSizeReply
      <4> QED BY <4>1, <4>2
    <3>2. CASE read
      <4>1. PICK data : send_reply(m.from, ReadReply(m, m.size, data))
        BY <1>m, <2>4, <3>2 DEF read
      <4>2. ReadReply(m, m.size, data).type = type
        BY <2>2 DEF ReadReply
      <4> QED BY <4>1, <4>2
    <3> QED BY <1>3, <3>1, <3>2
  <2> QED BY <1>m, <1>1, <2>1, <2>3, <2>5, PlainTurn
<1> QED BY <1>2, <1>3

\* The answer to an OPEN goes to whoever has the name, with the pointer that
\* was in nobody's hands.
LEMMA PtrOpen ==
  ASSUME PtrInv, TypeOK', UnsetInv', UNCHANGED <<clientVars, driverVars>>, OpenOk \/ OpenTruncateFails
  PROVE  PtrInv'
<1>m. PICK m : m = Msg
  OBVIOUS
<1>c. PICK c : c = m.from
  OBVIOUS
<1>b. PICK b : b = reply_name[m.name]
  OBVIOUS
<1>1. Receive("REQ_OPEN") /\ Standing
  BY DEF OpenOk, OpenTruncateFails, Standing, serverVars
<1>2. /\ server = "up" /\ c \in Clients /\ m.type = "REQ_OPEN" /\ m \in Requests
      /\ RequestPtr(m) /\ Requests' \subseteq Requests /\ OrderInv(Pending)'
      /\ \A n \in Requests' : n.from = c => n.type # "REQ_OPEN"
  BY <1>m, <1>c, <1>1, Taken DEF Standing
<1>3. /\ m.name = VolumeOf[c] /\ pc[c] \notin NotAsked /\ Unheld(c)
      /\ \A e \in Clients : \A r \in Replies(e) : ~HandsOut(r, c)
  BY <1>c, <1>2 DEF RequestPtr
<1>4. b \in Clients /\ VolumeOf[b] = m.name /\ pc[b] \notin NotNamed
  <2>1. m.name \in Volumes /\ b # Null
    BY <1>m, <1>b, <1>2, <1>3, SharedMemAssumption DEF OpenOk, OpenTruncateFails
  <2> QED BY <1>b, <2>1 DEF PtrInv, NamesInv, TypeOK, QueuesTypeOK
<1>5. PICK err : /\ send_reply(b, OpenReply(c, err))
                 /\ err = 0 => vols'[c] = OwnVolume(b)
                 /\ \A d \in Clients \ {c} : vols'[d] = vols[d]
  BY <1>m, <1>c, <1>b, <1>2, <1>4 DEF OpenOk, OpenTruncateFails, OwnVolume, serverVars, PtrInv, TypeOK,
     ServerTypeOK
<1>r. PICK r : r = OpenReply(c, err)
  OBVIOUS
<1>6. r.type = "REQ_OPEN" /\ r.volume = c /\ r.err = err
  BY <1>r DEF OpenReply
<1>7. /\ Replies(b)' = Replies(b) \cup {r}
      /\ \A e \in Clients \ {b} : Replies(e)' = Replies(e)
      /\ RepliesOnce'
  BY <1>3, <1>4, <1>5, <1>6, <1>r, ReplySent DEF HandsOut
<1>8. UNCHANGED <<server, epoch, request_name, reply_name, pc, request_mq_, volume_>>
  BY <1>1 DEF Standing, clientVars
<1>9. EpochInv' /\ NamesInv' /\ \A d \in Clients : Served(d)' = Served(d)
  BY <1>1, StandingFacts
<1>10. ASSUME NEW d \in Clients PROVE HeldInv(d)'
  <2>1. HeldInv(d) /\ volume_[d] \in Clients \cup {Null} /\ volume_[d] # c
    BY <1>3 DEF PtrInv, Unheld, TypeOK, ClientTypeOK
  <2>2. volume_[d] # Null => vols'[volume_[d]] = vols[volume_[d]]
    BY <1>5, <2>1
  <2> QED BY <1>8, <1>9, <2>1, <2>2 DEF HeldInv
<1>11. ASSUME NEW d \in Clients, NEW s \in Replies(d)' PROVE ReplyPtr(d, s)'
  <2>1. CASE s \in Replies(d)
    <3>1. ReplyPtr(d, s) /\ (s.type = "REQ_OPEN" => s.volume # c)
      BY <1>3, <2>1 DEF PtrInv, HandsOut
    <3>2. s.type = "REQ_OPEN" => s.volume \in Clients /\ vols'[s.volume] = vols[s.volume]
      BY <1>5, <3>1 DEF ReplyPtr
    <3> QED BY <1>2, <1>8, <1>9, <3>1, <3>2 DEF ReplyPtr, Unheld
  <2>2. CASE d = b /\ s = r
    BY <1>2, <1>3, <1>4, <1>5, <1>6, <1>8, <2>2 DEF ReplyPtr, Unheld
  <2> QED BY <1>7, <2>1, <2>2
<1>12. ASSUME NEW n \in Requests' PROVE RequestPtr(n)'
  <2>1. RequestPtr(n) /\ n.from \in Clients
    BY <1>2, PtrTypes DEF PtrInv
  <2>2. CASE n.type = "REQ_OPEN"
    <3>1. n.from # c
      BY <1>2, <2>2
    <3>2. \A e \in Clients : \A s \in Replies(e)' : ~HandsOut(s, n.from)
      BY <1>6, <1>7, <2>1, <2>2, <3>1 DEF RequestPtr, HandsOut
    <3> QED BY <1>8, <2>1, <2>2, <3>2 DEF RequestPtr, Unheld
  <2>3. CASE n.type # "REQ_OPEN"
    <3>1. volume_[n.from] \in (Clients \cup {Null}) \ {c}
      BY <1>3, <2>1, <2>3 DEF Unheld, PtrInv, TypeOK, ClientTypeOK
    <3> QED BY <1>5, <1>8, <2>1, <2>3, <3>1 DEF RequestPtr, InFile
  <2> QED BY <2>2, <2>3
<1> QED BY <1>2, <1>9, <1>7, <1>10, <1>11, <1>12 DEF PtrInv

\* The VolumeState a CLOSE frees is nobody else's, and no request of its
\* client follows.
LEMMA PtrClose ==
  ASSUME PtrInv, TypeOK', UnsetInv', UNCHANGED <<clientVars, driverVars>>, close
  PROVE  PtrInv'
<1>m. PICK m : m = Msg
  OBVIOUS
<1>c. PICK c : c = m.from
  OBVIOUS
<1>d. PICK d : d = m.volume
  OBVIOUS
<1>1. /\ Receive("REQ_CLOSE") /\ Standing /\ UNCHANGED reply_mq
      /\ vols' = [e \in Clients |-> IF e = d THEN Null ELSE vols[e]]
  BY <1>m, <1>d DEF close, Standing
<1>2. /\ server = "up" /\ c \in Clients /\ m.type = "REQ_CLOSE"
      /\ RequestPtr(m) /\ Requests' \subseteq Requests /\ OrderInv(Pending)'
      /\ \A n \in Requests' : n.from # c
  BY <1>m, <1>c, <1>1, Taken DEF Standing
<1>3. d = volume_[c] /\ d \in Clients \cup {Null} /\ pc[c] \in After
  BY <1>c, <1>d, <1>2 DEF RequestPtr, PtrInv, TypeOK, ClientTypeOK
<1>4. d # Null => \A e \in Clients : volume_[e] = d => e = c
  <2>1. HeldInv(c)
    BY <1>2 DEF PtrInv
  <2> QED BY <1>3, <2>1 DEF HeldInv
<1>5. UNCHANGED <<server, epoch, request_name, reply_name, pc, request_mq_, volume_>>
  BY <1>1 DEF Standing, clientVars
<1>6. EpochInv' /\ NamesInv' /\ \A e \in Clients : Served(e)' = Served(e)
  BY <1>1, StandingFacts
<1>7. RepliesOnce' /\ \A e \in Clients : Replies(e)' = Replies(e)
  BY <1>1 DEF PtrInv, RepliesOnce, HandsOut, Replies
<1>8. ASSUME NEW e \in Clients PROVE HeldInv(e)'
  <2>1. HeldInv(e) /\ volume_[e] \in Clients \cup {Null}
    BY DEF PtrInv, TypeOK, ClientTypeOK
  <2>2. pc[e] \in Using /\ volume_[e] # Null => vols'[volume_[e]] = vols[volume_[e]]
    <3>1. pc[e] \in Using => e # c
      BY <1>3 DEF Using, After
    <3> QED BY <1>1, <1>4, <2>1, <3>1
  <2> QED BY <1>5, <1>6, <2>1, <2>2 DEF HeldInv
<1>9. ASSUME NEW e \in Clients, NEW s \in Replies(e) PROVE ReplyPtr(e, s)'
  <2>1. ReplyPtr(e, s)
    BY DEF PtrInv
  <2>2. s.type = "REQ_OPEN" => s.volume \in Clients /\ vols'[s.volume] = vols[s.volume]
    <3>1. s.type = "REQ_OPEN" => s.volume \in Clients /\ s.volume # d
      BY <1>2, <1>3, <2>1 DEF ReplyPtr, Unheld
    <3> QED BY <1>1, <3>1
  <2> QED BY <1>2, <1>5, <1>6, <2>1, <2>2 DEF ReplyPtr, Unheld
<1>10. ASSUME NEW n \in Requests' PROVE RequestPtr(n)'
  <2>1. RequestPtr(n) /\ n.from \in Clients /\ n.from # c
    BY <1>2, PtrTypes DEF PtrInv
  <2>2. volume_[n.from] # Null => vols'[volume_[n.from]] = vols[volume_[n.from]]
    <3>1. volume_[n.from] # Null => volume_[n.from] # d /\ volume_[n.from] \in Clients
      BY <1>4, <2>1 DEF PtrInv, TypeOK, ClientTypeOK
    <3> QED BY <1>1, <3>1
  <2> QED BY <1>5, <1>7, <2>1, <2>2 DEF RequestPtr, Unheld, InFile
<1> QED BY <1>2, <1>6, <1>7, <1>8, <1>9, <1>10 DEF PtrInv

\* The server stops or starts: nobody is served.
LEMMA PtrRestart ==
  ASSUME PtrInv, TypeOK', UnsetInv', UNCHANGED <<clientVars, driverVars>>,
         StartRemove \/ StartCreate \/ Kill \/ OpenAborts \/ IoAborts
  PROVE  PtrInv'
<1>1. UNCHANGED <<reply_mq, reply_name, pc, request_mq_, volume_>>
  BY DEF StartRemove, StartCreate, Kill, OpenAborts, IoAborts, Exit, clientVars
<1>2. /\ \A c \in Clients : Replies(c)' = Replies(c)
      /\ NamesInv' /\ RepliesOnce'
  BY <1>1 DEF PtrInv, NamesInv, RepliesOnce, HandsOut, Replies
<1>3. ASSUME \A c \in Clients : pc[c] \notin NotNamed => ~Served(c)', EpochInv',
             server' = "up" => Pending' = << >>
      PROVE  PtrInv'
  <2>1. server' = "up" => Requests' = {} /\ OrderInv(Pending)'
    BY <1>3 DEF Requests, OrderInv
  <2>2. ASSUME NEW c \in Clients PROVE HeldInv(c)'
    <3>1. HeldInv(c) /\ (pc[c] \in Using => ~Served(c)')
      BY <1>3 DEF PtrInv, Using, NotNamed
    <3> QED BY <1>1, <3>1 DEF HeldInv
  <2>3. ASSUME NEW c \in Clients, NEW s \in Replies(c) PROVE ReplyPtr(c, s)'
    <3>1. ReplyPtr(c, s) /\ ~Served(c)'
      BY <1>3 DEF PtrInv, ReplyPtr
    <3> QED BY <1>1, <2>1, <3>1 DEF ReplyPtr, Unheld
  <2> QED BY <1>2, <1>3, <2>1, <2>2, <2>3 DEF PtrInv
<1>4. CASE StartCreate
  <2>1. epoch' = epoch + 1 /\ epoch \in Nat /\ epoch + 1 \in Epochs /\ request_name' = epoch + 1
    BY <1>4, SharedMemAssumption DEF StartCreate, PtrInv, TypeOK, ServerTypeOK, Epochs
  <2>2. Pending' = << >>
    BY <1>4, <2>1 DEF StartCreate, Pending, PtrInv, TypeOK, QueuesTypeOK
  <2>3. ASSUME NEW c \in Clients
        PROVE  request_mq_[c] # Null => request_mq_[c] \in Int /\ request_mq_[c] <= epoch
    BY DEF PtrInv, TypeOK, ClientTypeOK, EpochInv, Epochs
  <2>4. EpochInv'
    BY <1>1, <2>1, <2>3 DEF EpochInv
  <2>5. ASSUME NEW c \in Clients PROVE ~(request_mq_'[c] = epoch')
    <3>1. Null # epoch + 1
      BY <2>1, SharedMemAssumption DEF Epochs
    <3> QED BY <1>1, <2>1, <2>3, <3>1
  <2> QED BY <1>3, <2>2, <2>4, <2>5 DEF Served
<1>5. CASE ~StartCreate
  <2>1. server' # "up" /\ UNCHANGED epoch /\ request_name' \in {request_name, Null}
    BY <1>5 DEF StartRemove, Kill, OpenAborts, IoAborts, Exit
  <2>2. EpochInv'
    BY <1>1, <2>1 DEF PtrInv, EpochInv
  <2> QED BY <1>3, <2>1, <2>2 DEF Served
<1> QED BY <1>4, <1>5

LEMMA PtrServer == ASSUME PtrInv, TypeOK', ServerStep PROVE PtrInv'
<1>1. UNCHANGED <<clientVars, driverVars>> /\ UnsetInv'
  BY DEF ServerStep, PtrInv, UnsetInv, Unset, clientVars, driverVars
<1>2. ~fsync
  <2> SUFFICES ASSUME fsync PROVE FALSE
    OBVIOUS
  <2>1. Receive("REQ_FSYNC") /\ UNCHANGED <<server, epoch>>
    BY DEF fsync, serverVars
  <2> QED BY <2>1, Taken DEF RequestPtr
<1> QED
  BY <1>1, <1>2, PtrPlain, PtrOpen, PtrClose, PtrRestart DEF ServerStep, ServerNext,
     handle_requests, open

LEMMA PtrNext == ASSUME PtrInv, [Next]_vars PROVE PtrInv'
<1>1. TypeOK'
  BY TypeNext DEF PtrInv
<1>2. CASE Next
  BY <1>1, <1>2, PtrServer, PtrClient DEF Next
<1>3. CASE UNCHANGED vars
  BY <1>1, <1>3 DEF vars, queueVars, serverVars, clientVars, driverVars, PtrInv, UnsetInv, Unset, EpochInv, NamesInv, RepliesOnce,
     HandsOut, HeldInv, Replies, ReplyPtr, Unheld, Requests, Pending, RequestPtr, OrderInv, Served,
     InFile
<1> QED BY <1>2, <1>3

LEMMA PtrHolds == Spec => []PtrInv
<1>1. PtrInv /\ [Next]_vars => PtrInv'
  BY PtrNext
<1> QED BY PtrInit, <1>1, PTL DEF Spec

(***************************************************************************)
(* Every request the running server has yet to handle carries a pointer to *)
(* a VolumeState that it has allocated and not freed, of the volume the    *)
(* sender opened: the casts of header.volume in IOHandler never meet a     *)
(* dangling pointer.  Without any proviso: also when several QEMUs open    *)
(* one volume and take each other's answers, when system calls fail, when  *)
(* a send or receive of a client throws, and when clients and server die   *)
(* at any moment.  The one client without a pointer is that whose          *)
(* create_volume threw and returned -errno = 0; what it sends is a GETSIZE *)
(* or a CLOSE, never a READ or a WRITE.                                    *)
(***************************************************************************)
THEOREM HandlesAlwaysResolve == Spec => []HandlesResolve
<1>1. PtrInv => HandlesResolve
  <2> SUFFICES ASSUME PtrInv, server = "up", NEW i \in 1 .. Len(Pending),
                      Pending[i].type # "REQ_OPEN"
               PROVE  IF Pending[i].volume = Null
                      THEN Pending[i].type \in {"REQ_GETSIZE", "REQ_CLOSE"}
                      ELSE /\ Allocated(Pending[i].volume)
                           /\ vols[Pending[i].volume].file = VolumeOf[Pending[i].from]
    BY DEF HandlesResolve
  <2>m. PICK m : m = Pending[i] /\ m \in Requests
    BY DEF Requests
  <2>1. RequestPtr(m) /\ m.from \in Clients
    BY <2>m, PtrTypes DEF PtrInv
  <2>2. CASE m.volume = Null
    BY <2>m, <2>1, <2>2 DEF RequestPtr
  <2>3. CASE m.volume # Null
    <3>1. vols[m.volume] = OwnVolume(m.from)
      BY <2>m, <2>1, <2>3 DEF RequestPtr
    <3>2. OwnVolume(m.from) \in VolumeState /\ OwnVolume(m.from).file = VolumeOf[m.from]
      BY <2>1, SharedMemAssumption DEF OwnVolume, VolumeState
    <3> QED BY <2>m, <2>3, <3>1, <3>2, SharedMemAssumption DEF Allocated
  <2> QED BY <2>2, <2>3
<1> QED BY <1>1, PtrHolds, PTL

-------------------------------------------------------------------------------
(***************************************************************************)
(* The data.  The history variable view is what the files will be once the *)
(* queue is done (ViewInv); a chunk that was asked for will be, or was,    *)
(* read as it stood in view when it was asked for (Asked, Delivered).      *)
(***************************************************************************)
ViewInv ==
  IF server = "up"
  THEN \A v \in Volumes : \A p \in 0 .. FileSize - 1 :
         ByteAfter(disk[v][p], Pending, Len(Pending), v, p, view[v][p])
  ELSE view = disk

\* The i-th request of the queue, if it is the READ its sender waits for.
Asked(i) ==
  LET m == Pending[i]
      c == m.from
      a == io[c].a
  IN  m.type = "REQ_READ" /\ pc[c] = "wait_read" =>
        /\ m.offset = a.cur /\ m.size = RetSize(a)
        /\ \A k \in 0 .. RetSize(a) - 1 :
             ByteAfter(disk[VolumeOf[c]][a.cur + k], Pending, i, VolumeOf[c], a.cur + k,
                       want[c][RelativeOff(a) + k])

\* A reply r to c, if it is the data c waits for.
Delivered(c, r) ==
  LET a == io[c].a
  IN  r.type = "REQ_READ" /\ pc[c] = "wait_read" =>
        \A k \in 0 .. RetSize(a) - 1 : r.data[k] = want[c][RelativeOff(a) + k]

\* What a read has copied out so far.
BufferInv(c) ==
  pc[c] \in {"io", "wait_read"} /\ ~io[c].write =>
    \A k \in 0 .. (RelativeOff(io[c].a) - 1) : io[c].buf[k] = want[c][k]

DataInv ==
  /\ PtrInv /\ ViewInv
  /\ server = "up" => \A i \in 1 .. Len(Pending) : Asked(i)
  /\ \A c \in Clients : BufferInv(c) /\ \A r \in Replies(c) : Delivered(c, r)

LEMMA DataInit == Init => DataInv
<1> SUFFICES ASSUME Init PROVE DataInv
  OBVIOUS
<1>1. PtrInv /\ ViewInv
  BY PtrInit DEF Init, ServerInit, ViewInv
<1>2. ASSUME NEW c \in Clients PROVE BufferInv(c) /\ Replies(c) = {}
  <2>1. reply_mq[c] = << >> /\ pc[c] = "none"
    BY DEF Init, QueuesInit, ClientInit
  <2> QED BY <2>1 DEF Replies, BufferInv
<1> QED BY <1>1, <1>2 DEF DataInv, Init, ServerInit

\* What a step of c leaves to the other clients.
OthersWant(c) == \A d \in Clients \ {c} : want'[d] = want[d]

\* Steps that send nothing: the queue and the files are as they were.
LEMMA DataQuiet ==
  ASSUME DataInv, PtrInv', NEW c \in Clients, ClientFrame(c), OthersWant(c),
         UNCHANGED <<request_mq, view>>, \A b \in Clients : Replies(b)' \subseteq Replies(b),
         pc'[c] # "wait_read" \/ (pc'[c] = pc[c] /\ io'[c] = io[c] /\ want'[c] = want[c]),
         BufferInv(c)'
  PROVE  DataInv'
<1>1. Pending' = Pending /\ UNCHANGED <<server, disk>>
  BY DEF ClientFrame, serverVars, Pending
<1>2. ViewInv'
  BY <1>1 DEF DataInv, ViewInv
<1>3. ASSUME NEW b \in Clients, pc'[b] = "wait_read"
      PROVE  pc[b] = "wait_read" /\ io'[b] = io[b] /\ want'[b] = want[b]
  BY <1>3 DEF ClientFrame, OthersWant
<1>4. ASSUME server = "up", NEW i \in 1 .. Len(Pending) PROVE Asked(i)'
  <2>1. Asked(i) /\ Pending[i].from \in Clients
    BY <1>4, PtrTypes DEF DataInv, Requests
  <2> QED BY <1>1, <1>3, <2>1 DEF Asked
<1>5. ASSUME NEW b \in Clients, NEW r \in Replies(b)' PROVE Delivered(b, r)'
  <2>1. Delivered(b, r)
    BY DEF DataInv
  <2> QED BY <1>3, <2>1 DEF Delivered
<1>6. ASSUME NEW b \in Clients \ {c} PROVE BufferInv(b)'
  BY DEF DataInv, BufferInv, ClientFrame, OthersWant
<1> QED BY <1>1, <1>2, <1>4, <1>5, <1>6 DEF DataInv

\* Steps that send m: view is brought up to date with it, or it asks for a
\* chunk of view.
LEMMA DataSend ==
  ASSUME DataInv, PtrInv', NEW c \in Clients, ClientFrame(c), OthersWant(c),
         NEW m \in Request, NEW p, Send(c, m, p), pc[c] \notin {"ctor_open"} \cup Gone,
         m.from = c, pc'[c] = p,
         \A v \in Volumes : \A x \in 0 .. FileSize - 1 :
           view'[v][x] = IF Served(c) THEN ByteOf(m, v, x, view[v][x]) ELSE view[v][x],
         m.type = "REQ_WRITE" \/ view' = view, ~Served(c) => view' = view,
         m.type # "REQ_READ" => p # "wait_read",
         m.type = "REQ_READ" =>
           LET a == io[c].a IN
           /\ pc[c] # "wait_read" /\ pc[c] \notin ReadOver /\ io'[c] = io[c]
           /\ m.offset = a.cur /\ m.size = RetSize(a)
           /\ \A k \in 0 .. RetSize(a) - 1 :
                /\ a.cur + k \in 0 .. FileSize - 1
                /\ want'[c][RelativeOff(a) + k] = view[VolumeOf[c]][a.cur + k],
         BufferInv(c)'
  PROVE  DataInv'
<1>1. UNCHANGED <<server, disk, epoch, reply_mq>> /\ \A b \in Clients : Replies(b)' = Replies(b)
  BY DEF ClientFrame, serverVars, Send, Replies
<1>2. server = "up" => Pending \in Seq(Request) /\ \A i \in 1 .. Len(Pending) : Pending[i].from \in Clients
  BY PtrTypes DEF DataInv, Requests
<1>3. ASSUME server = "up"
      PROVE  IF Served(c) THEN Pending' = Append(Pending, m) ELSE Pending' = Pending
  BY <1>3, Sent DEF DataInv, ClientFrame
<1>4. ASSUME server = "up", NEW i \in 1 .. Len(Pending), Pending[i].type = "REQ_READ",
             NEW b, b = Pending[i].from, pc'[b] = "wait_read"
      PROVE  /\ b \in Clients /\ Asked(i) /\ pc[b] = "wait_read" /\ io'[b] = io[b]
             /\ want'[b] = want[b]
  <2>1. Asked(i) /\ b \in Clients
    BY <1>2, <1>4 DEF DataInv
  <2>2. pc[b] \in ReadOver
    <3>1. RequestPtr(Pending[i])
      BY <1>4 DEF DataInv, PtrInv, Requests
    <3> QED BY <1>4, <3>1 DEF RequestPtr
  <2>3. b # c
    BY <1>4, <2>2
  <2> QED BY <1>4, <2>1, <2>3 DEF ClientFrame, OthersWant
<1>5. ASSUME NEW b \in Clients, NEW r \in Replies(b) PROVE Delivered(b, r)'
  <2>1. Delivered(b, r) /\ ReplyPtr(b, r)
    BY DEF DataInv, PtrInv
  <2>2. r.type = "REQ_READ" /\ pc'[b] = "wait_read" => b # c
    BY <2>1 DEF ReplyPtr
  <2> QED BY <2>1, <2>2 DEF Delivered, ClientFrame, OthersWant
<1>6. ASSUME NEW b \in Clients \ {c} PROVE BufferInv(b)'
  BY DEF DataInv, BufferInv, ClientFrame, OthersWant
<1>7. CASE server # "up"
  <2>1. ~Served(c)
    BY <1>7 DEF Served
  <2>2. ViewInv'
    BY <1>1, <1>7, <2>1 DEF DataInv, ViewInv
  <2> QED BY <1>1, <1>5, <1>6, <1>7, <2>2 DEF DataInv
<1>8. CASE server = "up" /\ ~Served(c)
  <2>1. Pending' = Pending /\ view' = view
    BY <1>3, <1>8
  <2>2. ViewInv'
    BY <1>1, <2>1 DEF DataInv, ViewInv
  <2>3. ASSUME NEW i \in 1 .. Len(Pending) PROVE Asked(i)'
    BY <1>1, <1>4, <1>8, <2>1 DEF Asked
  <2> QED BY <1>1, <1>5, <1>6, <2>1, <2>2, <2>3 DEF DataInv
<1>9. CASE server = "up" /\ Served(c)
  <2>1. Pending \in Seq(Request) /\ Pending' = Append(Pending, m)
    BY <1>2, <1>3, <1>9
  <2>2. /\ Len(Pending') = Len(Pending) + 1 /\ Len(Pending) \in Nat /\ Pending'[Len(Pending) + 1] = m
        /\ \A i \in 1 .. Len(Pending) : Pending'[i] = Pending[i] /\ i \in 0 .. Len(Pending)
    BY <2>1, AppendFacts
  <2>3. Len(Pending) \in 0 .. Len(Pending)
    BY <2>2
  <2>4. ASSUME NEW v \in Volumes, NEW x \in 0 .. FileSize - 1
        PROVE  ByteAfter(disk[v][x], Pending', Len(Pending'), v, x, view'[v][x])
    <3>1. ByteAfter(disk[v][x], Pending, Len(Pending), v, x, view[v][x])
      BY <1>9 DEF DataInv, ViewInv
    <3>2. ByteAfter(disk[v][x], Append(Pending, m), Len(Pending) + 1, v, x, ByteOf(m, v, x, view[v][x]))
      BY <2>1, <2>3, <3>1, ByteAppend
    <3> QED BY <1>9, <2>1, <2>2, <3>2
  <2>5. ViewInv'
    <3>1. \A v \in Volumes : \A x \in 0 .. FileSize - 1 :
            ByteAfter(disk'[v][x], Pending', Len(Pending'), v, x, view'[v][x])
      BY <1>1, <2>4
    <3> QED BY <1>1, <1>9, <3>1 DEF ViewInv, ByteAfter
  <2>6. ASSUME NEW i \in 1 .. Len(Pending) PROVE Asked(i)'
    <3> SUFFICES ASSUME NEW n, n = Pending'[i], NEW b, b = n.from, NEW a, a = io'[b].a,
                        n.type = "REQ_READ", pc'[b] = "wait_read"
                 PROVE  /\ n.offset = a.cur /\ n.size = RetSize(a)
                        /\ \A k \in 0 .. RetSize(a) - 1 :
                             ByteAfter(disk[VolumeOf[b]][a.cur + k], Pending', i, VolumeOf[b],
                                       a.cur + k, want'[b][RelativeOff(a) + k])
      BY <1>1 DEF Asked, ByteAfter
    <3>1. n = Pending[i]
      BY <2>2
    <3>2. /\ b \in Clients /\ Asked(i) /\ pc[b] = "wait_read" /\ io'[b] = io[b]
          /\ want'[b] = want[b]
      BY <1>4, <1>9, <3>1
    <3>3. /\ n.offset = a.cur /\ n.size = RetSize(a)
          /\ \A k \in 0 .. RetSize(a) - 1 :
               ByteAfter(disk[VolumeOf[b]][a.cur + k], Pending, i, VolumeOf[b],
                         a.cur + k, want[b][RelativeOff(a) + k])
      BY <3>1, <3>2 DEF Asked
    <3>4. ASSUME NEW k \in 0 .. RetSize(a) - 1
          PROVE  ByteAfter(disk[VolumeOf[b]][a.cur + k], Pending', i, VolumeOf[b],
                           a.cur + k, want[b][RelativeOff(a) + k])
      <4>1. i \in 0 .. Len(Pending)
        BY <2>2
      <4> QED BY <2>1, <3>3, <4>1, ByteAppend
    <3> QED BY <3>2, <3>3, <3>4
  <2>l. PICK l : l = Len(Pending) + 1
    OBVIOUS
  <2>7. Asked(l)'
    <3>1. CASE m.type # "REQ_READ"
      BY <2>2, <2>l, <3>1 DEF Asked
    <3>2. CASE m.type = "REQ_READ"
      <4>a. PICK a : a = io[c].a
        OBVIOUS
      <4>1. /\ io'[c].a = a /\ m.offset = a.cur /\ m.size = RetSize(a) /\ view' = view
            /\ \A k \in 0 .. RetSize(a) - 1 :
                 /\ a.cur + k \in 0 .. FileSize - 1
                 /\ want'[c][RelativeOff(a) + k] = view[VolumeOf[c]][a.cur + k]
        BY <3>2, <4>a
      <4>2. ASSUME NEW k \in 0 .. RetSize(a) - 1
            PROVE  ByteAfter(disk[VolumeOf[c]][a.cur + k], Pending', l, VolumeOf[c],
                             a.cur + k, want'[c][RelativeOff(a) + k])
        <5>1. VolumeOf[c] \in Volumes
          BY SharedMemAssumption
        <5> QED BY <2>2, <2>4, <2>l, <4>1, <5>1
      <4>3. \A k \in 0 .. RetSize(a) - 1 :
              ByteAfter(disk'[VolumeOf[c]][a.cur + k], Pending', l, VolumeOf[c],
                        a.cur + k, want'[c][RelativeOff(a) + k])
        BY <1>1, <4>2
      <4> QED BY <2>2, <2>l, <4>1, <4>3 DEF Asked, ByteAfter
    <3> QED BY <3>1, <3>2
  <2>8. \A i \in 1 .. Len(Pending') : i \in 1 .. Len(Pending) \/ i = l
    BY <2>2, <2>l
  <2>9. \A i \in 1 .. Len(Pending') : Asked(i)'
    BY <2>6, <2>7, <2>8
  <2> QED BY <1>1, <1>5, <1>6, <2>5, <2>9 DEF DataInv
<1> QED BY <1>7, <1>8, <1>9

\* Steps of a client, one after the other.
LEMMA DataLocal ==
  ASSUME DataInv, PtrInv', NEW c \in Clients, UNCHANGED <<serverVars, view>>,
         \/ CtorRemove(c) /\ UNCHANGED <<driverVars, want>>
         \/ CtorOpen(c) /\ UNCHANGED <<driverVars, want>>
         \/ CtorCreate(c) /\ UNCHANGED <<driverVars, want>>
         \/ Destroy(c) /\ UNCHANGED <<driverVars, want>>
         \/ (\E r : Misaligned(c, r)) /\ UNCHANGED want
         \/ IoReturns(c) /\ NoteReadEnd(c)
         \/ QemuKilled(c) /\ NoteReadEnd(c)
         \/ \E r \in GuestReads[c] \cup GuestWrites[c] : \E isWrite, buffer :
              StartIo(c, r, isWrite, buffer) /\ OthersWant(c)
  PROVE  DataInv'
<1>1. TypeOK
  BY DEF DataInv, PtrInv
<1>2. UNCHANGED <<request_mq, reply_mq, volume_>> /\ \A b \in Clients : Replies(b)' = Replies(b)
  <2>1. UNCHANGED <<request_mq, reply_mq, volume_>>
    BY DEF CtorRemove, CtorOpen, CtorCreate, Destroy, Misaligned, IoReturns, QemuKilled, Die,
       StartIo, queueVars, clientVars
  <2> QED BY <2>1 DEF Replies
<1>3. ClientFrame(c) /\ OthersWant(c)
  <2>1. CASE \/ CtorRemove(c) /\ UNCHANGED <<driverVars, want>>
             \/ CtorOpen(c) /\ UNCHANGED <<driverVars, want>>
             \/ CtorCreate(c) /\ UNCHANGED <<driverVars, want>>
             \/ Destroy(c) /\ UNCHANGED <<driverVars, want>>
    BY <1>1, <2>1 DEF CtorRemove, CtorOpen, CtorCreate, Destroy, Goto, queueVars, driverVars, TypeOK,
       ClientTypeOK, ClientFrame, OthersWant
  <2>2. CASE (\E r : Misaligned(c, r)) /\ UNCHANGED want
    BY <2>2 DEF Misaligned, clientVars, queueVars, ClientFrame, OthersWant
  <2>3. CASE (IoReturns(c) \/ QemuKilled(c)) /\ NoteReadEnd(c)
    BY <1>1, <2>3 DEF IoReturns, QemuKilled, Die, Goto, NoteReadEnd, queueVars, TypeOK, ClientTypeOK,
       ClientFrame, OthersWant
  <2>4. CASE \E r \in GuestReads[c] \cup GuestWrites[c] : \E isWrite, buffer :
               StartIo(c, r, isWrite, buffer) /\ OthersWant(c)
    BY <1>1, <2>4 DEF StartIo, Goto, queueVars, TypeOK, ClientTypeOK, ClientFrame
  <2> QED BY <2>1, <2>2, <2>3, <2>4
<1>4. CASE \E r \in GuestReads[c] \cup GuestWrites[c] : \E isWrite, buffer :
             StartIo(c, r, isWrite, buffer) /\ OthersWant(c)
  <2>1. PICK r \in GuestReads[c] \cup GuestWrites[c] : \E isWrite, buffer :
             StartIo(c, r, isWrite, buffer)
    BY <1>4
  <2>2. pc'[c] = "io" /\ io'[c].a = NonAlignedCopyInit(OffsetOf(r), SizeOf(r), MSGQ_MAX_SIZE)
    BY <1>1, <2>1 DEF StartIo, Goto, TypeOK, ClientTypeOK
  <2>3. OffsetOf(r) \in Nat
    <3>1. r.sector_num \in Nat /\ BDRV_SECTOR_SIZE \in Nat
      BY CvbdAssumption
    <3>2. \A m, n \in Nat : m * n \in Nat
      OBVIOUS
    <3> QED BY <3>1, <3>2 DEF OffsetOf
  <2>4. RelativeOff(io'[c].a) = 0
    BY <2>2, <2>3 DEF NonAlignedCopyInit, RelativeOff
  <2>5. BufferInv(c)'
    BY <2>4 DEF BufferInv
  <2> QED BY <1>2, <1>3, <2>2, <2>5, DataQuiet
<1>5. CASE (\E r : Misaligned(c, r)) /\ UNCHANGED want
  <2>1. pc'[c] = pc[c] /\ io'[c] = io[c] /\ want'[c] = want[c]
    BY <1>5 DEF Misaligned, clientVars
  <2>2. BufferInv(c)'
    BY <2>1 DEF BufferInv, DataInv
  <2> QED BY <1>2, <1>3, <2>1, <2>2, DataQuiet
<1>6. ASSUME pc'[c] \notin {"io", "wait_read"} PROVE DataInv'
  <2>1. BufferInv(c)'
    BY <1>6 DEF BufferInv
  <2> QED BY <1>2, <1>3, <1>6, <2>1, DataQuiet
<1>7. CASE CtorRemove(c) \/ CtorOpen(c) \/ CtorCreate(c) \/ Destroy(c) \/ IoReturns(c) \/ QemuKilled(c)
  BY <1>1, <1>6, <1>7 DEF CtorRemove, CtorOpen, CtorCreate, Destroy, IoReturns, QemuKilled, Die,
     Goto, TypeOK, ClientTypeOK
<1> QED BY <1>4, <1>5, <1>7

LEMMA DataSimpleSend ==
  ASSUME DataInv, PtrInv', NEW c \in Clients, UNCHANGED <<serverVars, view, want>>,
         \/ send_open(c) /\ UNCHANGED driverVars
         \/ cvbd_getlength(c)
         \/ cvbd_close(c)
  PROVE  DataInv'
<1>1. TypeOK /\ volume_[c] \in Clients \cup {Null} /\ 0 \in Nat /\ 0 \in 0 .. max_data_size
  BY SharedMemAssumption DEF DataInv, PtrInv, TypeOK, ClientTypeOK
<1>2. PICK m, p :
        /\ Send(c, m, p)
        /\ \/ m = OpenRequest(c) /\ p = "wait_open" /\ pc[c] = "open"
           \/ m = GetSizeRequest(c, volume_[c]) /\ p = "wait_getsize" /\ pc[c] = "idle"
           \/ m = CloseRequest(c, volume_[c]) /\ p = "destroy" /\ pc[c] = "idle"
  BY DEF send_open, cvbd_getlength, send_getsize, cvbd_close, send_close
<1>3. m \in Request
  BY <1>1, <1>2, NoDataType, RequestTypes
<1>4. m.from = c /\ m.type \notin {"REQ_READ", "REQ_WRITE"}
  BY <1>2 DEF OpenRequest, GetSizeRequest, CloseRequest, Header
<1>5. ClientFrame(c) /\ pc'[c] = p
  BY <1>1, <1>2 DEF cvbd_getlength, cvbd_close, Send, Goto, TypeOK, ClientTypeOK, ClientFrame,
     driverVars
<1>6. \A v \in Volumes : \A x \in 0 .. FileSize - 1 : ByteOf(m, v, x, view[v][x]) = view[v][x]
  BY <1>4 DEF ByteOf, Covers
<1>7. pc[c] \notin {"ctor_open"} \cup Gone /\ p \notin {"io", "wait_read"}
  BY <1>2 DEF Gone
<1>8. BufferInv(c)' /\ OthersWant(c)
  BY <1>5, <1>7 DEF BufferInv, OthersWant
<1> QED BY <1>2, <1>3, <1>4, <1>5, <1>6, <1>7, <1>8, DataSend

LEMMA DataWriteChunk ==
  ASSUME DataInv, PtrInv', NEW c \in Clients, UNCHANGED serverVars, WriteChunk(c), NoteWrite(c)
  PROVE  DataInv'
<1>a. PICK a : a = io[c].a
  OBVIOUS
<1>d. PICK data : data = Slice(io[c].buf, RelativeOff(a), RetSize(a))
  OBVIOUS
<1>m. PICK m : m = WriteRequest(c, volume_[c], a.cur, RetSize(a), data)
  OBVIOUS
<1>0. TypeOK
  BY DEF DataInv, PtrInv
<1>1. Send(c, m, "io") /\ pc[c] = "io" /\ pc'[c] = "io"
  BY <1>0, <1>a, <1>d, <1>m DEF WriteChunk, send_write, Send, Goto, TypeOK, ClientTypeOK
<1>2. ClientFrame(c) /\ OthersWant(c)
  BY <1>0, <1>1 DEF WriteChunk, Send, Goto, TypeOK, ClientTypeOK, ClientFrame, OthersWant, NoteWrite
<1>3. /\ m.from = c /\ m.type = "REQ_WRITE" /\ m.name = VolumeOf[c]
      /\ m.offset = a.cur /\ m.size = RetSize(a) /\ m.data = data
  BY <1>m DEF WriteRequest, Header
<1>4. m \in Request
  BY <1>0, <1>a, <1>d, <1>m, ChunkWritten
<1>5. io'[c].write
  <2>1. io[c] = [write |-> io[c].write, buf |-> io[c].buf, a |-> a] /\ io[c].write
    BY <1>0, <1>a, <1>1 DEF TypeOK, IoTypeOK, WriteChunk
  <2>2. io'[c] = [io[c] EXCEPT !.a = NonAlignedCopyNext(a)]
    BY <1>0, <1>a DEF WriteChunk, TypeOK
  <2> QED BY <2>1, <2>2
<1>6. BufferInv(c)'
  BY <1>5 DEF BufferInv
<1>7. ASSUME NEW v \in Volumes, NEW x \in 0 .. FileSize - 1
      PROVE  view'[v][x] = IF Served(c) THEN ByteOf(m, v, x, view[v][x]) ELSE view[v][x]
  <2>1. CASE ~Served(c)
    BY <2>1 DEF NoteWrite
  <2>2. CASE Served(c)
    <3>1. view' = [view EXCEPT ![VolumeOf[c]] = Overwrite(@, a.cur, data, RetSize(a))]
      BY <1>a, <1>d, <2>2 DEF NoteWrite
    <3>2. view \in [Volumes -> [0 .. FileSize - 1 -> Val]]
      BY <1>0 DEF TypeOK
    <3>3. CASE v # VolumeOf[c]
      BY <1>3, <2>2, <3>1, <3>2, <3>3 DEF ByteOf, Covers
    <3>4. CASE v = VolumeOf[c]
      <4>1. view'[v] = Overwrite(view[v], a.cur, data, RetSize(a)) /\ DOMAIN view[v] = 0 .. FileSize - 1
        BY <3>1, <3>2, <3>4
      <4> QED BY <1>3, <2>2, <3>4, <4>1 DEF ByteOf, Covers, Overwrite
    <3> QED BY <3>3, <3>4
  <2> QED BY <2>1, <2>2
<1>8. ~Served(c) => view' = view
  BY DEF NoteWrite
<1> QED BY <1>1, <1>2, <1>3, <1>4, <1>6, <1>7, <1>8, DataSend DEF Gone

\* NoteRead leaves what was wanted before, and adds the chunk of view.
LEMMA ChunkWanted ==
  ASSUME TypeOK, NEW c \in Clients, ReadChunk(c), NoteRead(c), NEW a, a = io[c].a
  PROVE  /\ \A k \in 0 .. RelativeOff(a) - 1 : want'[c][k] = want[c][k]
         /\ \A k \in 0 .. RetSize(a) - 1 :
              /\ a.cur + k \in 0 .. FileSize - 1
              /\ want'[c][RelativeOff(a) + k] = view[VolumeOf[c]][a.cur + k]
<1>d. PICK data : data = Slice(view[VolumeOf[c]], a.cur, RetSize(a))
  OBVIOUS
<1>1. /\ a.cur \in Nat /\ a.len \in Nat /\ RelativeOff(a) \in Nat
      /\ RetSize(a) \in 1 .. max_data_size
      /\ RelativeOff(a) + RetSize(a) <= a.len /\ a.cur + RetSize(a) <= FileSize
  BY ChunkBounds DEF ReadChunk
<1>2. DOMAIN want[c] = 0 .. a.len - 1
  BY DEF TypeOK, IoTypeOK, ReadChunk
<1>3. want'[c] = Overwrite(want[c], RelativeOff(a), data, RetSize(a))
  BY <1>d DEF NoteRead, TypeOK
<1>4. ASSUME NEW k \in 0 .. RelativeOff(a) - 1 PROVE want'[c][k] = want[c][k]
  <2>1. k \in 0 .. a.len - 1 /\ k \notin RelativeOff(a) .. (RelativeOff(a) + RetSize(a) - 1)
    BY <1>1, SharedMemAssumption
  <2> QED BY <1>2, <1>3, <2>1 DEF Overwrite
<1>5. ASSUME NEW k \in 0 .. RetSize(a) - 1
      PROVE  /\ a.cur + k \in 0 .. FileSize - 1
             /\ want'[c][RelativeOff(a) + k] = view[VolumeOf[c]][a.cur + k]
  <2>1. /\ a.cur + k \in 0 .. FileSize - 1 /\ k \in 0 .. max_data_size - 1 /\ k < RetSize(a)
        /\ RelativeOff(a) + k \in 0 .. a.len - 1
        /\ RelativeOff(a) + k \in RelativeOff(a) .. (RelativeOff(a) + RetSize(a) - 1)
        /\ (RelativeOff(a) + k) - RelativeOff(a) = k
    BY <1>1, SharedMemAssumption
  <2>2. data[k] = view[VolumeOf[c]][a.cur + k]
    BY <1>d, <2>1 DEF Slice
  <2>3. want'[c][RelativeOff(a) + k] = data[k]
    BY <1>2, <1>3, <2>1 DEF Overwrite
  <2> QED BY <2>1, <2>2, <2>3
<1> QED BY <1>4, <1>5

LEMMA DataReadChunk ==
  ASSUME DataInv, PtrInv', NEW c \in Clients, UNCHANGED serverVars, ReadChunk(c), NoteRead(c)
  PROVE  DataInv'
<1>a. PICK a : a = io[c].a
  OBVIOUS
<1>m. PICK m : m = ReadRequest(c, volume_[c], a.cur, RetSize(a))
  OBVIOUS
<1>0. TypeOK
  BY DEF DataInv, PtrInv
<1>1. Send(c, m, "wait_read") /\ pc[c] = "io" /\ pc'[c] = "wait_read" /\ io' = io /\ ~io[c].write
  BY <1>0, <1>a, <1>m DEF ReadChunk, send_read, Send, Goto, TypeOK, ClientTypeOK, driverVars
<1>2. ClientFrame(c) /\ OthersWant(c) /\ view' = view
  BY <1>0, <1>1 DEF Send, Goto, TypeOK, ClientTypeOK, ClientFrame, NoteRead, OthersWant
<1>3. /\ m.from = c /\ m.type = "REQ_READ" /\ m.offset = a.cur /\ m.size = RetSize(a)
  BY <1>m DEF ReadRequest, Header
<1>4. m \in Request
  <2>1. a.cur \in Nat /\ RetSize(a) \in 1 .. max_data_size
    BY <1>0, <1>a, <1>1, ChunkBounds DEF ReadChunk
  <2>2. RetSize(a) \in 0 .. max_data_size /\ volume_[c] \in Clients \cup {Null}
    BY <1>0, <2>1, SharedMemAssumption DEF TypeOK, ClientTypeOK
  <2> QED BY <1>m, <2>1, <2>2, NoDataType, RequestTypes
<1>5. /\ \A k \in 0 .. RelativeOff(a) - 1 : want'[c][k] = want[c][k]
      /\ \A k \in 0 .. RetSize(a) - 1 :
           /\ a.cur + k \in 0 .. FileSize - 1
           /\ want'[c][RelativeOff(a) + k] = view[VolumeOf[c]][a.cur + k]
  BY <1>0, <1>a, ChunkWanted
<1>6. BufferInv(c)'
  <2>1. \A k \in 0 .. (RelativeOff(a) - 1) : io[c].buf[k] = want[c][k]
    BY <1>a, <1>1 DEF DataInv, BufferInv
  <2> QED BY <1>a, <1>1, <1>5, <2>1 DEF BufferInv
<1>7. \A v \in Volumes : \A x \in 0 .. FileSize - 1 : ByteOf(m, v, x, view[v][x]) = view[v][x]
  BY <1>3 DEF ByteOf, Covers
<1>8. pc[c] \notin {"ctor_open"} \cup Gone /\ pc[c] \notin ReadOver
  BY <1>1 DEF Gone, ReadOver
<1> QED BY <1>a, <1>1, <1>2, <1>3, <1>4, <1>5, <1>6, <1>7, <1>8, DataSend

\* Taking a reply: the data of a READ go where the chunk belongs.
LEMMA DataReadReturns ==
  ASSUME DataInv, PtrInv', NEW c \in Clients, UNCHANGED <<serverVars, view, want>>, ReadChunkReturns(c)
  PROVE  DataInv'
<1>a. PICK a : a = io[c].a
  OBVIOUS
<1>r. PICK r : r = Answer(c)
  OBVIOUS
<1>b. PICK b : b = Overwrite(io[c].buf, RelativeOff(a), r.data, RetSize(a))
  OBVIOUS
<1>0. TypeOK
  BY DEF DataInv, PtrInv
<1>1. /\ Receives(c, "wait_read") /\ pc[c] = "wait_read" /\ pc'[c] = "io"
      /\ r.type = "REQ_READ" /\ UNCHANGED request_mq
  BY <1>0, <1>r DEF ReadChunkReturns, ReadReturns, Receives, Goto, TypeOK, ClientTypeOK, AnswerFits, Awaited
<1>2. ClientFrame(c) /\ OthersWant(c)
  BY <1>0 DEF ReadChunkReturns, ReadReturns, Receives, Goto, TypeOK, ClientTypeOK, QueuesTypeOK,
     ClientFrame, OthersWant
<1>3. r \in Replies(c) /\ \A e \in Clients : Replies(e)' \subseteq Replies(e)
  BY <1>r, <1>1, ReplyTaken DEF DataInv
<1>4. \A k \in 0 .. RetSize(a) - 1 : r.data[k] = want[c][RelativeOff(a) + k]
  BY <1>a, <1>1, <1>3 DEF DataInv, Delivered
<1>5. /\ IsNonAlignedCopy(a) /\ NonAlignedCopyIsValid(a)
      /\ io[c].buf \in [0 .. a.len - 1 -> Val \cup {Null}]
      /\ io[c] = [write |-> io[c].write, buf |-> io[c].buf, a |-> a] /\ ~io[c].write
  BY <1>0, <1>a, <1>1 DEF TypeOK, IoTypeOK
<1>6. /\ a.len \in Nat /\ RelativeOff(a) \in Nat /\ RetSize(a) \in Nat
      /\ RelativeOff(a) + RetSize(a) <= a.len
  <2>1. /\ a.len \in Nat /\ RelativeOff(a) \in Nat /\ RetSize(a) \in 1 .. max_data_size
        /\ RelativeOff(a) + RetSize(a) <= a.len
    BY <1>0, <1>a, <1>1, <1>5, ChunkBounds
  <2> QED BY <2>1, SharedMemAssumption
<1>7. io'[c].buf = b /\ io'[c].a = NonAlignedCopyNext(a)
  <2>1. io' = [io EXCEPT ![c].buf = b, ![c].a = NonAlignedCopyNext(a)]
    BY <1>a, <1>b, <1>r DEF ReadChunkReturns
  <2>2. io'[c] = [io[c] EXCEPT !.buf = b, !.a = NonAlignedCopyNext(a)]
    BY <1>0, <2>1 DEF TypeOK
  <2>3. PICK w, b0 : io[c] = [write |-> w, buf |-> b0, a |-> a]
    BY <1>5
  <2> QED BY <2>2, <2>3
<1>8. RelativeOff(io'[c].a) = RelativeOff(a) + RetSize(a)
  <2>1. NonAlignedCopyNext(a).start = a.start /\ NonAlignedCopyNext(a).cur = a.cur + RetSize(a)
    BY <1>5, NextIsNonAlignedCopy
  <2>2. a.start \in Nat /\ a.cur \in Nat
    BY <1>5 DEF IsNonAlignedCopy
  <2> QED BY <1>6, <1>7, <2>1, <2>2 DEF RelativeOff
<1>9. ASSUME NEW k \in 0 .. (RelativeOff(a) + RetSize(a) - 1) PROVE b[k] = want[c][k]
  <2>1. k \in 0 .. a.len - 1
    BY <1>6
  <2>2. CASE k < RelativeOff(a)
    <3>1. k \in 0 .. (RelativeOff(a) - 1) /\ k \notin RelativeOff(a) .. (RelativeOff(a) + RetSize(a) - 1)
      BY <1>6, <2>2
    <3>2. b[k] = io[c].buf[k]
      BY <1>b, <1>5, <2>1, <3>1 DEF Overwrite
    <3>3. io[c].buf[k] = want[c][k]
      BY <1>a, <1>1, <1>5, <3>1 DEF DataInv, BufferInv
    <3> QED BY <3>2, <3>3
  <2>3. CASE ~(k < RelativeOff(a))
    <3>1. /\ k \in RelativeOff(a) .. (RelativeOff(a) + RetSize(a) - 1)
          /\ k - RelativeOff(a) \in 0 .. RetSize(a) - 1
          /\ RelativeOff(a) + (k - RelativeOff(a)) = k
      BY <1>6, <2>3
    <3>2. b[k] = r.data[k - RelativeOff(a)]
      BY <1>b, <1>5, <2>1, <3>1 DEF Overwrite
    <3> QED BY <1>4, <3>1, <3>2
  <2> QED BY <2>2, <2>3
<1>10. BufferInv(c)'
  <2>1. want' = want
    OBVIOUS
  <2>2. PICK n : n = RelativeOff(io'[c].a)
    OBVIOUS
  <2>3. \A k \in 0 .. (n - 1) : b[k] = want[c][k]
    BY <1>6, <1>8, <1>9, <2>2
  <2>4. \A k \in 0 .. (RelativeOff(io'[c].a) - 1) : io'[c].buf[k] = want'[c][k]
    BY <1>7, <2>1, <2>2, <2>3
  <2> QED BY <2>4 DEF BufferInv, RelativeOff
<1> QED BY <1>1, <1>2, <1>3, <1>10, DataQuiet

LEMMA DataTake ==
  ASSUME DataInv, PtrInv', NEW c \in Clients, UNCHANGED <<serverVars, view>>,
         \/ OpenReturns(c) /\ UNCHANGED <<driverVars, want>>
         \/ GetLengthReturns(c) /\ UNCHANGED want
         \/ ClientAborts(c) /\ NoteReadEnd(c)
  PROVE  DataInv'
<1>0. TypeOK
  BY DEF DataInv, PtrInv
<1>1. PICK q : Receives(c, q)
  BY DEF OpenReturns, GetLengthReturns, GetSizeReturns, ClientAborts, AssertFails
<1>2. UNCHANGED request_mq /\ pc'[c] \in {"idle", "failed", "aborted"}
  BY <1>0, <1>1 DEF OpenReturns, GetLengthReturns, GetSizeReturns, ClientAborts, AssertFails, Receives,
     Goto, TypeOK, ClientTypeOK
<1>3. ClientFrame(c) /\ OthersWant(c)
  <2>1. CASE OpenReturns(c) /\ UNCHANGED <<driverVars, want>>
    BY <1>0, <2>1 DEF OpenReturns, Receives, Goto, TypeOK, ClientTypeOK, QueuesTypeOK, ClientFrame,
       OthersWant, driverVars
  <2>2. CASE GetLengthReturns(c) /\ UNCHANGED want
    BY <1>0, <2>2 DEF GetLengthReturns, GetSizeReturns, Receives, Goto, TypeOK, ClientTypeOK,
       QueuesTypeOK, ClientFrame, OthersWant
  <2>3. CASE ClientAborts(c) /\ NoteReadEnd(c)
    BY <1>0, <2>3 DEF ClientAborts, AssertFails, Receives, Goto, NoteReadEnd, TypeOK, ClientTypeOK,
       QueuesTypeOK, ClientFrame, OthersWant
  <2> QED BY <2>1, <2>2, <2>3
<1>4. \A e \in Clients : Replies(e)' \subseteq Replies(e)
  BY <1>1, ReplyTaken DEF DataInv
<1>5. BufferInv(c)'
  BY <1>2 DEF BufferInv
<1> QED BY <1>2, <1>3, <1>4, <1>5, DataQuiet

LEMMA DataThrows ==
  ASSUME DataInv, PtrInv', NEW c \in Clients, UNCHANGED <<serverVars, view>>,
         \/ (OpenThrows(c) \/ CloseThrows(c)) /\ UNCHANGED <<driverVars, want>>
         \/ GetLengthThrows(c) /\ UNCHANGED want
         \/ IoThrows(c) /\ NoteReadEnd(c)
  PROVE  DataInv'
<1>1. TypeOK
  BY DEF DataInv, PtrInv
<1>2. PICK p \in {"failed", "idle", "destroy", "aborted"} : Throws(c, p)
  BY DEF OpenThrows, CloseThrows, GetLengthThrows, GetSizeThrows, IoThrows, ReadWriteThrows
<1>3. UNCHANGED <<request_mq, reply_mq>> /\ pc'[c] = p /\ \A b \in Clients : Replies(b)' = Replies(b)
  BY <1>1, <1>2 DEF Throws, Goto, queueVars, TypeOK, ClientTypeOK, Replies
<1>4. ClientFrame(c) /\ OthersWant(c)
  BY <1>1, <1>2 DEF Throws, Goto, queueVars, driverVars, GetLengthThrows, IoThrows, NoteReadEnd,
     TypeOK, ClientTypeOK, ClientFrame, OthersWant
<1>5. BufferInv(c)'
  BY <1>3 DEF BufferInv
<1> QED BY <1>2, <1>3, <1>4, <1>5, DataQuiet

LEMMA DataClient == ASSUME DataInv, PtrInv', NEW c \in Clients, ClientStep(c) PROVE DataInv'
<1>1. CASE Progress(c)
  BY <1>1, DataLocal, DataSimpleSend, DataWriteChunk, DataReadChunk, DataReadReturns, DataTake
  DEF ClientStep, Progress, NoteNothing, NoteReadEnd
<1>2. CASE \E r \in GuestReads[c] : cvbd_read(c, r) /\ NoteReadStart(c, r)
  <2>1. PICK r \in GuestReads[c] : cvbd_read(c, r) /\ NoteReadStart(c, r)
    BY <1>2
  <2>2. view' = view /\ OthersWant(c) /\ StartIo(c, r, FALSE, InitialBuffer(SizeOf(r)))
    BY <2>1 DEF NoteReadStart, OthersWant, cvbd_read, DataInv, PtrInv, TypeOK
  <2> QED BY <2>2, DataLocal DEF ClientStep
<1>3. CASE \E w \in GuestWrites[c] : cvbd_write(c, w) /\ NoteNothing
  BY <1>3, DataLocal DEF ClientStep, cvbd_write, NoteNothing, OthersWant
<1>4. CASE /\ Environment(c)
           /\ ~\E r \in GuestReads[c] : cvbd_read(c, r) /\ NoteReadStart(c, r)
           /\ ~\E w \in GuestWrites[c] : cvbd_write(c, w) /\ NoteNothing
  BY <1>4, DataLocal, DataSimpleSend, DataThrows
  DEF ClientStep, Environment, cvbd_open, NoteNothing, NoteReadEnd, driverVars
<1> QED BY <1>1, <1>2, <1>3, <1>4 DEF ClientStep

-------------------------------------------------------------------------------
\* A turn of the loop: the files become what the queue's first request makes
\* of them, and a READ is answered with them.
LEMMA DataTurn ==
  ASSUME DataInv, PtrInv', Standing, UNCHANGED <<io, view, want>>,
         NEW type, Receive(type), NEW m, m = Msg,
         \A v \in Volumes : \A p \in 0 .. FileSize - 1 : disk'[v][p] = ByteOf(m, v, p, disk[v][p]),
         \A b \in Clients : \A r \in Replies(b)' :
           \/ r \in Replies(b)
           \/ r.type # "REQ_READ"
           \/ /\ type = "REQ_READ" /\ b = m.from
              /\ \A k \in 0 .. m.size - 1 : r.data[k] = disk[VolumeOf[b]][m.offset + k]
  PROVE  DataInv'
<1>0. TypeOK /\ UNCHANGED <<server, epoch, pc>>
  BY DEF DataInv, PtrInv, Standing, clientVars
<1>1. /\ server = "up" /\ m.from \in Clients /\ m.type = type
      /\ Pending \in Seq(Request) /\ Pending # << >> /\ Pending' = Tail(Pending)
  BY <1>0, Taken DEF DataInv
<1>2. /\ Len(Pending') = Len(Pending) - 1 /\ Len(Pending) \in Nat \ {0} /\ Pending[1] = m
      /\ \A i \in 1 .. Len(Pending') : i + 1 \in 1 .. Len(Pending) /\ Pending'[i] = Pending[i + 1]
      /\ Len(Pending) \in 1 .. Len(Pending) /\ 1 \in 1 .. Len(Pending) /\ Head(Pending) = m
  BY <1>1, TailFacts DEF Msg
<1>3. ASSUME NEW v \in Volumes, NEW p \in 0 .. FileSize - 1, NEW n \in 1 .. Len(Pending), NEW x,
             ByteAfter(disk[v][p], Pending, n, v, p, x)
      PROVE  ByteAfter(disk'[v][p], Pending', n - 1, v, p, x)
  <2>1. ByteAfter(ByteOf(Head(Pending), v, p, disk[v][p]), Tail(Pending), n - 1, v, p, x)
    BY <1>1, <1>3, ByteTail
  <2> QED BY <1>1, <1>2, <2>1
<1>4. ViewInv'
  <2>1. \A v \in Volumes : \A p \in 0 .. FileSize - 1 :
          ByteAfter(disk[v][p], Pending, Len(Pending), v, p, view[v][p])
    BY <1>1 DEF DataInv, ViewInv
  <2>2. \A v \in Volumes : \A p \in 0 .. FileSize - 1 :
          ByteAfter(disk'[v][p], Pending', Len(Pending'), v, p, view'[v][p])
    BY <1>2, <1>3, <2>1
  <2> QED BY <1>0, <1>1, <2>2 DEF ViewInv, ByteAfter
<1>5. ASSUME NEW b \in Clients, pc[b] = "wait_read", NEW a, a = io[b].a, NEW k \in 0 .. RetSize(a) - 1
      PROVE  a.cur + k \in 0 .. FileSize - 1 /\ VolumeOf[b] \in Volumes
  <2>1. NonAlignedCopyIsValid(a)
    BY <1>0, <1>5 DEF TypeOK, IoTypeOK
  <2>2. a.cur \in Nat /\ RetSize(a) \in 1 .. max_data_size /\ a.cur + RetSize(a) <= FileSize
    BY <1>0, <1>5, <2>1, ChunkBounds
  <2> QED BY <2>2, SharedMemAssumption
<1>6. ASSUME NEW i \in 1 .. Len(Pending') PROVE Asked(i)'
  <2> SUFFICES ASSUME NEW n, n = Pending'[i], NEW b, b = n.from, NEW a, a = io[b].a,
                      n.type = "REQ_READ", pc[b] = "wait_read"
               PROVE  /\ n.offset = a.cur /\ n.size = RetSize(a)
                      /\ \A k \in 0 .. RetSize(a) - 1 :
                           ByteAfter(disk'[VolumeOf[b]][a.cur + k], Pending', i, VolumeOf[b],
                                     a.cur + k, want[b][RelativeOff(a) + k])
    BY <1>0 DEF Asked, ByteAfter
  <2>1. n = Pending[i + 1] /\ i + 1 \in 1 .. Len(Pending) /\ i + 1 - 1 = i
    BY <1>2
  <2>2. Asked(i + 1) /\ b \in Clients
    BY <1>1, <2>1, PtrTypes DEF DataInv, Requests
  <2>3. /\ n.offset = a.cur /\ n.size = RetSize(a)
        /\ \A k \in 0 .. RetSize(a) - 1 :
             ByteAfter(disk[VolumeOf[b]][a.cur + k], Pending, i + 1, VolumeOf[b],
                       a.cur + k, want[b][RelativeOff(a) + k])
    BY <2>1, <2>2 DEF Asked
  <2>4. ASSUME NEW k \in 0 .. RetSize(a) - 1
        PROVE  ByteAfter(disk'[VolumeOf[b]][a.cur + k], Pending', i, VolumeOf[b],
                         a.cur + k, want[b][RelativeOff(a) + k])
    <3>1. a.cur + k \in 0 .. FileSize - 1 /\ VolumeOf[b] \in Volumes
      BY <1>5, <2>2
    <3>2. PICK p, x, v : p = a.cur + k /\ x = want[b][RelativeOff(a) + k] /\ v = VolumeOf[b]
      OBVIOUS
    <3>3. ByteAfter(disk[v][p], Pending, i + 1, v, p, x)
      BY <2>3, <3>2
    <3>4. /\ v \in Volumes /\ p \in 0 .. FileSize - 1 /\ i + 1 \in 1 .. Len(Pending)
      BY <2>1, <3>1, <3>2
    <3>5. ByteAfter(disk'[v][p], Pending', i + 1 - 1, v, p, x)
      BY <1>3, <3>3, <3>4
    <3> QED BY <2>1, <3>2, <3>5
  <2> QED BY <2>3, <2>4
<1>7. ASSUME NEW b \in Clients, NEW r \in Replies(b)' PROVE Delivered(b, r)'
  <2>1. CASE r \in Replies(b)
    BY <1>0, <2>1 DEF DataInv, Delivered
  <2>2. CASE r.type # "REQ_READ"
    BY <2>2 DEF Delivered
  <2>3. CASE /\ type = "REQ_READ" /\ b = m.from
             /\ \A k \in 0 .. m.size - 1 : r.data[k] = disk[VolumeOf[b]][m.offset + k]
    <3> SUFFICES ASSUME pc[b] = "wait_read", NEW a, a = io[b].a, NEW k \in 0 .. RetSize(a) - 1
                 PROVE  r.data[k] = want[b][RelativeOff(a) + k]
      BY <1>0 DEF Delivered
    <3>1. /\ m.offset = a.cur /\ m.size = RetSize(a)
          /\ ByteAfter(disk[VolumeOf[b]][a.cur + k], Pending, 1, VolumeOf[b],
                       a.cur + k, want[b][RelativeOff(a) + k])
      <4>1. Asked(1)
        BY <1>1, <1>2 DEF DataInv
      <4> QED BY <1>1, <1>2, <2>3, <4>1 DEF Asked
    <3>2. ByteAfter(disk'[VolumeOf[b]][a.cur + k], Pending', 1 - 1, VolumeOf[b],
                    a.cur + k, want[b][RelativeOff(a) + k])
      BY <1>2, <1>3, <1>5, <3>1
    <3>3. want[b][RelativeOff(a) + k] = disk'[VolumeOf[b]][a.cur + k]
      BY <3>2, ByteAtOnce
    <3>4. disk'[VolumeOf[b]][a.cur + k] = disk[VolumeOf[b]][a.cur + k]
      BY <1>1, <1>5, <2>3 DEF ByteOf, Covers
    <3>5. r.data[k] = disk[VolumeOf[b]][a.cur + k]
      BY <2>3, <3>1
    <3> QED BY <3>3, <3>4, <3>5
  <2> QED BY <2>1, <2>2, <2>3
<1>8. \A b \in Clients : BufferInv(b)'
  BY <1>0 DEF DataInv, BufferInv
<1> QED BY <1>4, <1>6, <1>7, <1>8 DEF DataInv

\* What a reply adds to the reply queues.
LEMMA RepliesAfter ==
  ASSUME PtrInv, NEW c \in Clients, NEW r, send_reply(c, r), NEW b \in Clients, NEW s \in Replies(b)'
  PROVE  s \in Replies(b) \/ (b = c /\ s = r)
<1>1. CASE b = c
  <2>1. reply_mq[c] \in Seq(Reply) /\ reply_mq'[c] = Append(reply_mq[c], r)
    BY PtrTypes DEF send_reply, PtrInv, TypeOK, QueuesTypeOK
  <2>2. /\ Len(reply_mq'[c]) = Len(reply_mq[c]) + 1 /\ Len(reply_mq[c]) \in Nat
        /\ reply_mq'[c][Len(reply_mq[c]) + 1] = r
        /\ \A k \in 1 .. Len(reply_mq[c]) : reply_mq'[c][k] = reply_mq[c][k]
    BY <2>1, AppendFacts
  <2> QED BY <1>1, <2>2 DEF Replies
<1>2. CASE b # c
  BY <1>2 DEF send_reply, Replies, PtrInv, TypeOK, QueuesTypeOK
<1> QED BY <1>1, <1>2

LEMMA DataServer == ASSUME DataInv, PtrInv', ServerStep PROVE DataInv'
<1>0. TypeOK /\ PtrInv /\ UNCHANGED <<clientVars, driverVars, want>>
  BY DEF DataInv, PtrInv, ServerStep, NoteServer
<1>m. PICK m : m = Msg
  OBVIOUS
<1>1. CASE server' # "up" \/ StartCreate
  <2>1. UNCHANGED <<pc, io, want, reply_mq>>
    BY <1>0, <1>1 DEF clientVars, driverVars, ServerStep, ServerNext, handle_requests, open, StartRemove,
       StartCreate, Kill, OpenOk, OpenTruncateFails, OpenCreateFails, OpenAborts, close, getsize,
       fsync, write, read, IoAborts, Exit, Receive, serverVars
  <2>2. \A b \in Clients : BufferInv(b)' /\ \A r \in Replies(b)' : Delivered(b, r)'
    BY <2>1 DEF DataInv, BufferInv, Delivered, Replies
  <2>3. CASE server' # "up"
    <3>1. ViewInv'
      BY <2>1, <2>3 DEF ServerStep, NoteServer, ViewInv
    <3> QED BY <2>2, <2>3, <3>1 DEF DataInv
  <2>4. CASE StartCreate
    <3>1. server = "starting" /\ server' = "up" /\ view' = disk'
      BY <2>4 DEF StartCreate, ServerStep, NoteServer, DataInv, ViewInv
    <3>2. epoch + 1 \in Epochs /\ epoch' = epoch + 1
      BY <1>0, <2>4, SharedMemAssumption DEF StartCreate, TypeOK, ServerTypeOK, Epochs
    <3>3. Pending' = << >>
      BY <1>0, <2>4, <3>2 DEF StartCreate, Pending, TypeOK, QueuesTypeOK
    <3>4. ViewInv'
      BY <3>1, <3>3 DEF ViewInv, ByteAfter
    <3> QED BY <2>2, <3>3, <3>4 DEF DataInv
  <2> QED BY <1>1, <2>3, <2>4
<1>2. ASSUME server' = "up", UNCHANGED disk, NEW type \in RequestType \ {"REQ_WRITE"}, Receive(type), Standing,
             \A b \in Clients : \A r \in Replies(b)' :
               \/ r \in Replies(b)
               \/ r.type # "REQ_READ"
               \/ /\ type = "REQ_READ" /\ b = m.from
                  /\ \A k \in 0 .. m.size - 1 : r.data[k] = disk[VolumeOf[b]][m.offset + k]
      PROVE  DataInv'
  <2>1. UNCHANGED <<io, view, want>>
    BY <1>0, <1>2 DEF driverVars, ServerStep, NoteServer
  <2>2. \A v \in Volumes : \A p \in 0 .. FileSize - 1 : disk'[v][p] = ByteOf(m, v, p, disk[v][p])
    BY <1>m, <1>2 DEF Receive, ByteOf, Covers
  <2> QED BY <1>m, <1>2, <2>1, <2>2, DataTurn
<1>3. CASE server' = "up" /\ (OpenOk \/ OpenTruncateFails)
  <2>1. Receive("REQ_OPEN") /\ Standing /\ UNCHANGED disk
    BY <1>0, <1>3 DEF OpenOk, OpenTruncateFails, Standing, serverVars
  <2>2. m \in Request /\ m.type = "REQ_OPEN"
    BY <1>0, <1>m, <2>1, Taken DEF Standing
  <2>3. PICK b, err : b \in Clients /\ send_reply(b, OpenReply(m.from, err))
    <3>1. reply_name[m.name] \in Clients
      BY <1>0, <1>m, <1>3, <2>2 DEF OpenOk, OpenTruncateFails, Request, TypeOK, QueuesTypeOK
    <3> QED BY <1>m, <1>3, <3>1 DEF OpenOk, OpenTruncateFails
  <2>4. OpenReply(m.from, err).type # "REQ_READ"
    BY DEF OpenReply
  <2>5. \A d \in Clients : \A r \in Replies(d)' : r \in Replies(d) \/ r.type # "REQ_READ"
    BY <1>0, <2>3, <2>4, RepliesAfter
  <2> QED BY <1>2, <1>3, <2>1, <2>5 DEF RequestType
<1>4. CASE server' = "up" /\ (OpenCreateFails \/ close)
  <2>1. /\ Standing /\ UNCHANGED <<disk, reply_mq>>
        /\ \E type \in {"REQ_OPEN", "REQ_CLOSE"} : Receive(type)
    BY <1>0, <1>4 DEF OpenCreateFails, close, Standing, serverVars
  <2>2. \A d \in Clients : Replies(d)' = Replies(d)
    BY <2>1 DEF Replies
  <2> QED BY <1>2, <1>4, <2>1, <2>2 DEF RequestType
<1>5. CASE server' = "up" /\ (getsize \/ read)
  <2>1. PICK type \in {"REQ_GETSIZE", "REQ_READ"} : Receive(type)
    BY <1>5 DEF getsize, read
  <2>2. Standing /\ UNCHANGED disk
    BY <1>0, <1>5 DEF getsize, read, Standing, serverVars
  <2>3. m \in Request /\ m.from \in Clients /\ m.type = type /\ RequestPtr(m)
    BY <1>0, <1>m, <2>1, <2>2, Taken DEF Standing
  <2>4. vols[m.volume] = OwnVolume(m.from)
    BY <1>m, <1>5, <2>1, <2>3 DEF RequestPtr, getsize, read, Allocated
  <2>5. vols[m.volume].reply_mq = m.from /\ vols[m.volume].file = VolumeOf[m.from]
    BY <2>4 DEF OwnVolume
  <2>6. PICK r : /\ send_reply(m.from, r) /\ r.type = type
                 /\ type = "REQ_READ" =>
                      \A k \in 0 .. m.size - 1 : r.data[k] = disk[VolumeOf[m.from]][m.offset + k]
    <3>1. CASE getsize
      <4>1. PICK size : send_reply(m.from, GetSizeReply(m, size))
        BY <1>m, <2>5, <3>1 DEF getsize
      <4>2. GetSizeReply(m, size).type = type /\ type = "REQ_GETSIZE"
        BY <1>m, <2>3, <3>1 DEF GetSizeReply, getsize, Receive
      <4> QED BY <4>1, <4>2
    <3>2. CASE read
      <4>d. PICK data : data = Slice(disk[VolumeOf[m.from]], m.offset, m.size)
        OBVIOUS
      <4>1. send_reply(m.from, ReadReply(m, m.size, data))
        BY <1>m, <2>5, <3>2, <4>d DEF read
      <4>2. ReadReply(m, m.size, data).type = type /\ ReadReply(m, m.size, data).data = data
        BY <2>3 DEF ReadReply
      <4>3. ASSUME NEW k \in 0 .. m.size - 1 PROVE data[k] = disk[VolumeOf[m.from]][m.offset + k]
        <5>1. k \in 0 .. max_data_size - 1 /\ k < m.size
          BY <2>3, SharedMemAssumption DEF Request
        <5> QED BY <4>d, <5>1 DEF Slice
      <4> QED BY <4>1, <4>2, <4>3
    <3> QED BY <1>5, <3>1, <3>2
  <2>7. \A d \in Clients : \A s \in Replies(d)' : s \in Replies(d) \/ (d = m.from /\ s = r)
    BY <1>0, <2>3, <2>6, RepliesAfter
  <2> QED BY <1>2, <1>5, <2>1, <2>2, <2>6, <2>7 DEF RequestType
<1>6. CASE server' = "up" /\ write
  <2>1. Receive("REQ_WRITE") /\ Standing /\ UNCHANGED reply_mq
    BY <1>0, <1>6 DEF write, Standing
  <2>2. m \in Request /\ m.from \in Clients /\ m.type = "REQ_WRITE" /\ RequestPtr(m)
    BY <1>0, <1>m, <2>1, Taken DEF Standing
  <2>3. m.volume # Null /\ vols[m.volume] = OwnVolume(m.from) /\ m.name = VolumeOf[m.from]
    BY <2>2 DEF RequestPtr
  <2>4. vols[m.volume].file = m.name /\ m.name \in Volumes
    BY <2>2, <2>3 DEF OwnVolume, Request
  <2>5. disk' = [disk EXCEPT ![m.name] = Overwrite(@, m.offset, m.data, m.size)]
    BY <1>m, <1>6, <2>3, <2>4 DEF write, Written
  <2>6. ASSUME NEW v \in Volumes, NEW p \in 0 .. FileSize - 1
        PROVE  disk'[v][p] = ByteOf(m, v, p, disk[v][p])
    <3>1. disk \in [Volumes -> [0 .. FileSize - 1 -> Val]]
      BY <1>0 DEF TypeOK, ServerTypeOK
    <3>2. CASE v # m.name
      BY <2>5, <3>1, <3>2 DEF ByteOf, Covers
    <3>3. CASE v = m.name
      <4>1. disk'[v] = Overwrite(disk[v], m.offset, m.data, m.size) /\ DOMAIN disk[v] = 0 .. FileSize - 1
        BY <2>5, <3>1, <3>3
      <4> QED BY <2>2, <3>3, <4>1 DEF ByteOf, Covers, Overwrite
    <3> QED BY <3>2, <3>3
  <2>7. \A d \in Clients : Replies(d)' = Replies(d)
    BY <2>1 DEF Replies
  <2>8. UNCHANGED <<io, view, want>>
    BY <1>0, <1>6 DEF driverVars, ServerStep, NoteServer
  <2> QED BY <1>m, <2>1, <2>6, <2>7, <2>8, DataTurn
<1>7. ~fsync
  <2> SUFFICES ASSUME fsync PROVE FALSE
    OBVIOUS
  <2>1. Receive("REQ_FSYNC") /\ UNCHANGED <<server, epoch>>
    BY DEF fsync, serverVars
  <2> QED BY <1>0, <2>1, Taken DEF RequestPtr
<1>8. CASE server' = "up" /\ ~StartCreate
  <2>1. ~StartRemove /\ ~Kill /\ ~OpenAborts /\ ~IoAborts
    BY <1>8 DEF StartRemove, Kill, OpenAborts, IoAborts, Exit
  <2> QED
    BY <1>3, <1>4, <1>5, <1>6, <1>7, <1>8, <2>1 DEF ServerStep, ServerNext, handle_requests, open
<1> QED BY <1>1, <1>8

LEMMA DataNext == ASSUME DataInv, [Next]_vars PROVE DataInv'
<1>1. PtrInv'
  BY PtrNext DEF DataInv
<1>2. CASE Next
  BY <1>1, <1>2, DataServer, DataClient DEF Next
<1>3. CASE UNCHANGED vars
  <2>1. /\ UNCHANGED <<server, disk, view, want, pc, io, reply_mq>> /\ Pending' = Pending
        /\ \A c \in Clients : Replies(c)' = Replies(c)
    BY <1>3 DEF vars, queueVars, serverVars, clientVars, driverVars, Pending, Replies
  <2> QED BY <1>1, <2>1 DEF DataInv, ViewInv, Asked, BufferInv, Delivered
<1> QED BY <1>2, <1>3

LEMMA DataHolds == Spec => []DataInv
<1>1. DataInv /\ [Next]_vars => DataInv'
  BY DataNext
<1> QED BY DataInit, <1>1, PTL DEF Spec

(***************************************************************************)
(* What cvbd_read has copied to the guest is, byte for byte, the contents  *)
(* of the volume when each chunk was asked for, all writes queued before   *)
(* it included, although no write is ever acknowledged: for any number of  *)
(* clients, also of one volume, any chunk size and any failure.            *)
(***************************************************************************)
THEOREM ReadsAlwaysSeeWrites == Spec => []ReadsSeeWrites
<1>1. DataInv => ReadsSeeWrites
  BY DEF DataInv, BufferInv, ReadsSeeWrites
<1> QED BY <1>1, DataHolds, PTL

\* Functions that agree at every argument are the same.
LEMMA SameFunction ==
  ASSUME NEW S, NEW T, NEW f \in [S -> T], NEW g \in [S -> T], \A x \in S : f[x] = g[x]
  PROVE  f = g
OBVIOUS

(***************************************************************************)
(* Whenever the running server has emptied its queue, the files hold every *)
(* write that was reported done to a guest on this server, and nothing     *)
(* else: writes are neither lost nor reordered nor put in the wrong file.  *)
(***************************************************************************)
THEOREM WritesAlwaysLand == Spec => []AllWritesLand
<1>1. DataInv => AllWritesLand
  <2> SUFFICES ASSUME DataInv, server = "up", Pending = << >> PROVE view = disk
    BY DEF AllWritesLand
  <2>1. /\ view \in [Volumes -> [0 .. FileSize - 1 -> Val]]
        /\ disk \in [Volumes -> [0 .. FileSize - 1 -> Val]]
    BY DEF DataInv, PtrInv, TypeOK, ServerTypeOK
  <2>2. ASSUME NEW v \in Volumes, NEW p \in 0 .. FileSize - 1 PROVE view[v][p] = disk[v][p]
    <3>1. ByteAfter(disk[v][p], Pending, 0, v, p, view[v][p])
      BY DEF DataInv, ViewInv
    <3> QED BY <3>1, ByteAtOnce
  <2>3. ASSUME NEW v \in Volumes PROVE view[v] = disk[v]
    <3>1. view[v] \in [0 .. FileSize - 1 -> Val] /\ disk[v] \in [0 .. FileSize - 1 -> Val]
      BY <2>1
    <3>2. \A p \in 0 .. FileSize - 1 : view[v][p] = disk[v][p]
      BY <2>2
    <3>3. PICK S, f, g : S = 0 .. FileSize - 1 /\ f = view[v] /\ g = disk[v]
      OBVIOUS
    <3>4. f \in [S -> Val] /\ g \in [S -> Val] /\ \A p \in S : f[p] = g[p]
      BY <3>1, <3>2, <3>3
    <3>5. f = g
      BY <3>4, SameFunction
    <3> QED BY <3>3, <3>5
  <2> QED BY <2>1, <2>3, SameFunction
<1> QED BY <1>1, DataHolds, PTL
===============================================================================
