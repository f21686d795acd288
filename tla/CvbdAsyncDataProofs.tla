-------------------------- MODULE CvbdAsyncDataProofs --------------------------
(***************************************************************************)
(* What the guests of the asynchronous stack get, for every value of the   *)
(* constants: flushes are barriers, reads see the writes queued before     *)
(* them, and all writes land.                                              *)
(***************************************************************************)
EXTENDS CvbdAsyncProofs

(***************************************************************************)
(* What is due, and the counts of the writes.                              *)
(***************************************************************************)

\* Only the request that is being sent changes what it is due.
LEMMA ClientDue ==
  ASSUME Shape, NEW c \in Clients, ClientStep(c), NEW d \in Clients, NEW b \in Acbs,
         acbs'[d][b] # Null, ~(pc[d] = "sending" /\ Running(d, b))
  PROVE  due'[d][b] = due[d][b]
<1>1. CASE Kept
  BY <1>1 DEF Kept
<1>2. ASSUME NEW a \in Acbs, NEW x, NEW m, PostsRequest(c, a, x, m) PROVE due'[d][b] = due[d][b]
  <2>1. d # c \/ b # a
    BY <1>2 DEF PostsRequest
  <2>2. \E y : due' = [due EXCEPT ![c][a].bytes = y] \/ due' = [due EXCEPT ![c][a].writes = y]
    BY <1>2 DEF PostsRequest, NoteRead, NoteFlush
  <2> QED BY <2>1, <2>2 DEF Shape, HistoryTypes
<1>3. ASSUME NEW a \in Acbs, NEW x, NEW y, NEW m, PostsWrite(c, a, x, y, m) PROVE due'[d][b] = due[d][b]
  BY <1>3 DEF PostsWrite, NoteWrite
<1> QED BY <1>1, <1>2, <1>3, ClientKinds DEF PostsCall, Receives, PostsStop, Moves, Frees, Starts

CountsUp(v) ==
  /\ writes'[v] = [queued |-> writes[v].queued + 1, done |-> writes[v].done, synced |-> writes[v].synced]
  /\ \A u \in Volumes : u # v => writes'[u] = writes[u]

Adds(c, m, n) ==
  /\ NewTodo(m, n) /\ m \in Request /\ m.from = c /\ m.name = VolumeOf[c]
  /\ \/ m.type = "REQ_WRITE" /\ CountsUp(m.name)
     \/ /\ m.type # "REQ_WRITE" /\ writes' = writes
        /\ m.type = "REQ_FSYNC" => due'[c][m.acb].writes = writes[m.name].queued

LEMMA ClientWrites ==
  ASSUME Shape, NEW c \in Clients, ClientStep(c)
  PROVE  (SameTodo /\ writes' = writes) \/ \E m, n : Adds(c, m, n)
<1>0. UNCHANGED serverVars /\ VolumeOf[c] \in Volumes
  BY SharedMemAssumption DEF ClientStep
<1>1. CASE UNCHANGED request_mq /\ Kept
  BY <1>0, <1>1, TodoSame DEF Kept
<1>2. ASSUME NEW m, PostsCall(c, m) PROVE (SameTodo /\ writes' = writes) \/ \E n : Adds(c, m, n)
  <2>1. SameTodo \/ \E n : NewTodo(m, n)
    BY <1>0, <1>2, TodoPosts DEF PostsCall
  <2>2. writes' = writes /\ m \in Request /\ m.from = c /\ m.name = VolumeOf[c]
    BY <1>2 DEF PostsCall, Kept, Posts
  <2>3. m.type \notin {"REQ_WRITE", "REQ_FSYNC"}
    BY <1>2 DEF PostsCall
  <2> QED BY <2>1, <2>2, <2>3 DEF Adds
<1>3. ASSUME NEW a \in Acbs, NEW x, NEW m, PostsRequest(c, a, x, m)
      PROVE  (SameTodo /\ writes' = writes) \/ \E n : Adds(c, m, n)
  <2>1. SameTodo \/ \E n : NewTodo(m, n)
    BY <1>0, <1>3, TodoPosts DEF PostsRequest
  <2>2. writes' = writes /\ m \in Request /\ m.from = c /\ m.name = VolumeOf[c] /\ m.type # "REQ_WRITE" /\ m.acb = a
    BY <1>3 DEF PostsRequest, Posts, NoteRead, NoteFlush
  <2>3. ASSUME m.type = "REQ_FSYNC" PROVE due'[c][a].writes = writes[m.name].queued
    <3>1. due' = [due EXCEPT ![c][a].writes = writes[VolumeOf[c]].queued]
      BY <1>3, <2>3 DEF PostsRequest, NoteFlush
    <3>2. due[c][a] = [bytes |-> due[c][a].bytes, writes |-> due[c][a].writes] /\ DOMAIN due = Clients /\ DOMAIN due[c] = Acbs
      BY DEF Shape, HistoryTypes
    <3>3. due'[c][a] = [due[c][a] EXCEPT !.writes = writes[VolumeOf[c]].queued]
      BY <3>1, <3>2
    <3>4. [due[c][a] EXCEPT !.writes = writes[VolumeOf[c]].queued] =
            [bytes |-> due[c][a].bytes, writes |-> writes[VolumeOf[c]].queued]
      BY <3>2
    <3> QED BY <2>2, <3>3, <3>4
  <2> QED BY <2>1, <2>2, <2>3 DEF Adds
<1>4. ASSUME NEW a \in Acbs, NEW x, NEW y, NEW m, PostsWrite(c, a, x, y, m)
      PROVE  (SameTodo /\ writes' = writes) \/ \E n : Adds(c, m, n)
  <2>1. (~Served(c) /\ SameTodo) \/ (Served(c) /\ \E n : NewTodo(m, n))
    BY <1>0, <1>4, TodoPosts DEF PostsWrite
  <2>2. m \in Request /\ m.from = c /\ m.name = VolumeOf[c] /\ m.type = "REQ_WRITE" /\ NoteWrite(c, a)
    BY <1>4 DEF PostsWrite, WritesAcb
  <2>3. CASE ~Served(c)
    BY <2>1, <2>2, <2>3 DEF NoteWrite
  <2>4. CASE Served(c)
    <3>1. writes' = [writes EXCEPT ![VolumeOf[c]].queued = @ + 1]
      BY <2>2, <2>4 DEF NoteWrite
    <3>2. writes[VolumeOf[c]] \in [queued : Nat, done : Nat, synced : Nat] /\ DOMAIN writes = Volumes
      BY <1>0 DEF Shape, HistoryTypes
    <3>3. CountsUp(m.name)
      BY <1>0, <2>2, <3>1, <3>2 DEF CountsUp
    <3> QED BY <2>1, <2>2, <2>4, <3>3 DEF Adds
  <2> QED BY <2>3, <2>4
<1>5. ASSUME NEW a \in Acbs, NEW x, NEW y, NEW m, CompletesAcb(c, a, x, y, m) PROVE UNCHANGED request_mq
  BY <1>5 DEF CompletesAcb, queueVars
<1>6. ASSUME NEW a \in Acbs, NEW x, NEW y, YieldsAcb(c, a, x, y) PROVE UNCHANGED request_mq
  BY <1>6 DEF YieldsAcb, queueVars
<1>7. ASSUME NEW a \in Acbs, NEW x, Frees(c, a) \/ Starts(c, a, x) PROVE UNCHANGED request_mq /\ Kept
  BY <1>7 DEF Frees, Starts, queueVars
<1>8. ASSUME PostsStop(c) \/ Moves(c) \/ \E m : Receives(c, m) PROVE UNCHANGED request_mq /\ Kept
  BY <1>8 DEF PostsStop, Moves, Receives
<1>9. ASSUME Perished(c) PROVE UNCHANGED request_mq
  BY <1>9 DEF Perished, queueVars
<1> QED BY <1>1, <1>2, <1>3, <1>4, <1>5, <1>6, <1>7, <1>8, <1>9, ClientKinds

\* f[i]: how many writes of v are done once the server has done i more requests.
WriteOf(v, m) == m.type = "REQ_WRITE" /\ m.name = v

Ranks(v, f, n) ==
  /\ n \in Nat /\ Todo = 1 .. n
  /\ \A i \in 0 .. n : f[i] \in Nat
  /\ f[0] = writes[v].done /\ f[n] = writes[v].queued
  /\ \A i \in 1 .. n : f[i] = IF WriteOf(v, Pending[i]) THEN f[i - 1] + 1 ELSE f[i - 1]
  /\ \A i, j \in 0 .. n : i <= j => f[i] <= f[j]

LEMMA RanksSame ==
  ASSUME NEW v \in Volumes, NEW f, NEW n, Ranks(v, f, n), SameTodo, writes'[v].done = writes[v].done,
         writes'[v].queued = writes[v].queued
  PROVE  Ranks(v, f, n)'
  BY DEF Ranks, SameTodo

LEMMA RanksGrow ==
  ASSUME NEW v \in Volumes, NEW f, NEW k, Ranks(v, f, k), NEW m, NEW n, NewTodo(m, n),
         writes'[v].done = writes[v].done,
         writes'[v].queued = IF WriteOf(v, m) THEN writes[v].queued + 1 ELSE writes[v].queued
  PROVE  \E g : Ranks(v, g, n)' /\ g[n] = writes'[v].queued /\ \A i \in Todo : g[i] = f[i]
<1>1. n \in Nat \ {0} /\ k \in Nat /\ 1 .. (n - 1) = 1 .. k /\ Todo = 1 .. k /\ Todo' = 1 .. n
  BY DEF NewTodo, Ranks
<1>2. k = n - 1
  <2>1. CASE k > n - 1
    <3>1. k \in 1 .. k /\ k \notin 1 .. (n - 1)
      BY <1>1, <2>1
    <3> QED BY <1>1, <3>1
  <2>2. CASE k < n - 1
    <3>1. n - 1 \in 1 .. (n - 1) /\ n - 1 \notin 1 .. k
      BY <1>1, <2>2
    <3> QED BY <1>1, <3>1
  <2> QED BY <1>1, <2>1, <2>2
<1>3. PICK q : q = writes'[v].queued
  OBVIOUS
<1>4. PICK g : g = [i \in 0 .. n |-> IF i = n THEN q ELSE f[i]]
  OBVIOUS
<1>5. /\ g[n] = q /\ \A i \in 0 .. k : g[i] = f[i] /\ f[i] \in Nat
      /\ q = IF WriteOf(v, m) THEN f[k] + 1 ELSE f[k]
  BY <1>1, <1>2, <1>3, <1>4 DEF Ranks
<1>6. q \in Nat /\ f[k] \in Nat /\ f[k] <= q /\ \A i \in 0 .. k : f[i] <= f[k]
  BY <1>1, <1>5 DEF Ranks
<1>7. \A i \in 0 .. n : g[i] \in Nat
  BY <1>1, <1>2, <1>5, <1>6
<1>8. g[0] = writes'[v].done
  BY <1>1, <1>5 DEF Ranks
<1>9. ASSUME NEW i \in 1 .. n PROVE g[i] = IF WriteOf(v, Pending'[i]) THEN g[i - 1] + 1 ELSE g[i - 1]
  <2>1. CASE i = n
    <3>1. Pending'[n] = m /\ n - 1 \in 0 .. k
      BY <1>1, <1>2 DEF NewTodo
    <3> QED BY <1>2, <1>5, <2>1, <3>1
  <2>2. CASE i # n
    <3>1. i \in 1 .. k /\ i \in 0 .. k /\ i - 1 \in 0 .. k
      BY <1>1, <1>2, <2>2
    <3>2. Pending'[i] = Pending[i]
      BY <1>1, <3>1 DEF NewTodo
    <3>3. f[i] = IF WriteOf(v, Pending[i]) THEN f[i - 1] + 1 ELSE f[i - 1]
      BY <3>1 DEF Ranks
    <3> QED BY <1>5, <3>1, <3>2, <3>3
  <2> QED BY <2>1, <2>2
<1>10. ASSUME NEW i \in 0 .. n, NEW j \in 0 .. n, i <= j PROVE g[i] <= g[j]
  <2>1. CASE j = n /\ i # n
    <3>1. i \in 0 .. k
      BY <1>1, <1>2, <2>1
    <3>2. g[i] = f[i] /\ g[j] = q /\ f[i] \in Nat /\ f[i] <= f[k]
      BY <1>5, <1>6, <2>1, <3>1
    <3> QED BY <1>6, <3>2
  <2>2. CASE j = n /\ i = n
    BY <1>5, <1>6, <2>2
  <2>3. CASE j # n
    <3>1. i \in 0 .. k /\ j \in 0 .. k
      BY <1>1, <1>2, <1>10, <2>3
    <3> QED BY <1>5, <1>10, <3>1 DEF Ranks
  <2> QED BY <2>1, <2>2, <2>3
<1>11. \A i \in Todo : g[i] = f[i]
  BY <1>1, <1>5
<1>12. WriteOf(v, m)' = WriteOf(v, m)
  BY DEF WriteOf
<1>13. Ranks(v, g, n)'
  BY <1>1, <1>3, <1>5, <1>7, <1>8, <1>9, <1>10 DEF Ranks, WriteOf
<1> QED BY <1>3, <1>5, <1>11, <1>13

LEMMA RanksShrink ==
  ASSUME NEW v \in Volumes, NEW f, NEW k, Ranks(v, f, k), NEW m, NEW n, DoneTodo(m, n),
         writes'[v].done = IF WriteOf(v, m) THEN writes[v].done + 1 ELSE writes[v].done,
         writes'[v].queued = writes[v].queued
  PROVE  /\ f[1] = writes'[v].done
         /\ \E g : Ranks(v, g, n - 1)' /\ \A i \in Todo' : g[i] = f[i + 1]
<1>1. n \in Nat \ {0} /\ k \in Nat /\ 1 .. n = 1 .. k /\ Todo = 1 .. k /\ Todo' = 1 .. (n - 1)
  BY DEF DoneTodo, Ranks
<1>2. k = n
  <2>1. CASE k > n
    <3>1. k \in 1 .. k /\ k \notin 1 .. n
      BY <1>1, <2>1
    <3> QED BY <1>1, <3>1
  <2>2. CASE k < n
    <3>1. n \in 1 .. n /\ n \notin 1 .. k
      BY <1>1, <2>2
    <3> QED BY <1>1, <3>1
  <2> QED BY <1>1, <2>1, <2>2
<1>3. PICK g : g = [i \in 0 .. (n - 1) |-> f[i + 1]]
  OBVIOUS
<1>4. \A i \in 0 .. (n - 1) : g[i] = f[i + 1] /\ i + 1 \in 0 .. n /\ f[i + 1] \in Nat
  BY <1>1, <1>2, <1>3 DEF Ranks
<1>5. f[1] = writes'[v].done
  <2>1. 1 \in 1 .. n /\ 1 - 1 = 0 /\ Pending[1] = m
    BY <1>1 DEF DoneTodo
  <2> QED BY <1>2, <2>1 DEF Ranks
<1>6. g[0] = writes'[v].done /\ g[n - 1] = writes'[v].queued
  <2>1. 0 \in 0 .. (n - 1) /\ n - 1 \in 0 .. (n - 1) /\ 0 + 1 = 1 /\ (n - 1) + 1 = n
    BY <1>1
  <2>2. g[0] = f[1] /\ g[n - 1] = f[n]
    BY <1>4, <2>1
  <2> QED BY <1>2, <1>5, <2>2 DEF Ranks
<1>7. ASSUME NEW i \in 1 .. (n - 1) PROVE g[i] = IF WriteOf(v, Pending'[i]) THEN g[i - 1] + 1 ELSE g[i - 1]
  <2>1. /\ i \in 0 .. (n - 1) /\ i - 1 \in 0 .. (n - 1) /\ (i - 1) + 1 = i /\ (i + 1) - 1 = i
        /\ i + 1 \in 1 .. k
    BY <1>1, <1>2
  <2>2. Pending'[i] = Pending[i + 1]
    BY <1>1 DEF DoneTodo
  <2>3. f[i + 1] = IF WriteOf(v, Pending[i + 1]) THEN f[(i + 1) - 1] + 1 ELSE f[(i + 1) - 1]
    BY <2>1 DEF Ranks
  <2>4. g[i] = f[i + 1] /\ g[i - 1] = f[i]
    BY <1>4, <2>1
  <2> QED BY <2>1, <2>2, <2>3, <2>4
<1>8. ASSUME NEW i \in 0 .. (n - 1), NEW j \in 0 .. (n - 1), i <= j PROVE g[i] <= g[j]
  <2>1. i + 1 \in 0 .. k /\ j + 1 \in 0 .. k /\ i + 1 <= j + 1
    BY <1>1, <1>2, <1>8
  <2> QED BY <1>4, <2>1 DEF Ranks
<1>9. n - 1 \in Nat /\ \A i \in 0 .. (n - 1) : g[i] \in Nat
  BY <1>1, <1>4
<1>10. \A i \in Todo' : g[i] = f[i + 1]
  BY <1>1, <1>4
<1>11. Ranks(v, g, n - 1)'
  BY <1>1, <1>6, <1>7, <1>8, <1>9 DEF Ranks, WriteOf
<1> QED BY <1>5, <1>10, <1>11

\* What a step of the server does to the counts.
LEMMA ServerCounts ==
  ASSUME Shape, ServerStep, NEW v \in Volumes
  PROVE  /\ Stopped => /\ writes'[v].queued = writes[v].done /\ writes'[v].done = writes[v].done
                       /\ writes'[v].synced = writes[v].synced
         /\ Started => writes'[v] = writes[v]
         /\ \A m : Takes(m) =>
              /\ writes'[v].queued = writes[v].queued
              /\ writes'[v].done = IF WriteOf(v, m) THEN writes[v].done + 1 ELSE writes[v].done
              /\ writes'[v].synced \in {writes[v].synced, writes[v].done}
<1>1. PICK x : x = writes[v]
  OBVIOUS
<1>2. x = [queued |-> x.queued, done |-> x.done, synced |-> x.synced]
  BY <1>1 DEF Shape, HistoryTypes
<1>3. writes'[v] = CASE server' # "up"               -> [x EXCEPT !.queued = x.done]
                     [] WriteDone /\ Msg.name = v    -> [x EXCEPT !.done = @ + 1]
                     [] FsyncDone(v)                 -> [x EXCEPT !.synced = x.done]
                     [] OTHER                        -> x
  BY <1>1 DEF ServerStep, NoteServer
<1>4. /\ [x EXCEPT !.queued = x.done] = [queued |-> x.done, done |-> x.done, synced |-> x.synced]
      /\ [x EXCEPT !.done = @ + 1] = [queued |-> x.queued, done |-> x.done + 1, synced |-> x.synced]
      /\ [x EXCEPT !.synced = x.done] = [queued |-> x.queued, done |-> x.done, synced |-> x.done]
  BY <1>2
<1>5. CASE Stopped
  <2>1. server' # "up" /\ ~Started /\ \A m : ~Takes(m)
    BY <1>5 DEF Stopped, Started, Takes
  <2>2. ~WriteDone /\ ~FsyncDone(v)
    BY <2>1 DEF WriteDone, FsyncDone
  <2> QED BY <1>1, <1>3, <1>4, <2>1, <2>2
<1>6. CASE Started
  <2>1. server' = "up" /\ server # "up" /\ ~Stopped /\ \A m : ~Takes(m)
    BY <1>6 DEF Started, Takes, Stopped
  <2>2. ~WriteDone /\ ~FsyncDone(v)
    BY <2>1 DEF WriteDone, FsyncDone
  <2> QED BY <1>1, <1>3, <2>1, <2>2
<1>7. ASSUME NEW m, Takes(m)
      PROVE  /\ writes'[v].queued = writes[v].queued
             /\ writes'[v].done = IF WriteOf(v, m) THEN writes[v].done + 1 ELSE writes[v].done
             /\ writes'[v].synced \in {writes[v].synced, writes[v].done}
  <2>1. server = "up" /\ server' = "up" /\ Pending # << >> /\ Msg = m
    BY <1>7 DEF Takes, Msg
  <2>2. WriteDone /\ Msg.name = v <=> WriteOf(v, m)
    BY <2>1 DEF WriteDone, WriteOf
  <2>3. FsyncDone(v) => ~WriteOf(v, m)
    BY <2>1 DEF FsyncDone, WriteOf
  <2>4. CASE WriteOf(v, m)
    BY <1>1, <1>3, <1>4, <2>1, <2>2, <2>3, <2>4
  <2>5. CASE ~WriteOf(v, m) /\ FsyncDone(v)
    BY <1>1, <1>3, <1>4, <2>1, <2>2, <2>5
  <2>6. CASE ~WriteOf(v, m) /\ ~FsyncDone(v)
    BY <1>1, <1>3, <2>1, <2>2, <2>6
  <2> QED BY <2>4, <2>5, <2>6
<1>8. ~(Stopped /\ Started) /\ \A m : Takes(m) => ~Stopped /\ ~Started
  BY DEF Stopped, Started, Takes
<1>9. Stopped \/ Started \/ \E m : Takes(m)
  BY ServerKinds DEF TakesOpen, TakesCall, TakesQuietly
<1> QED BY <1>5, <1>6, <1>7, <1>8, <1>9

\* A successful fsync: what is done by then is synced.
LEMMA FsyncSyncs ==
  ASSUME Shape, PtrInv, ServerStep, NEW m, NEW w, NEW r, TakesCall(m, w, r), m.type = "REQ_FSYNC", r.err = 0
  PROVE  m.name \in Volumes /\ writes'[m.name].synced = writes[m.name].done
<1>1. Takes(m) /\ w \in Clients /\ vols[w] # Null /\ m.volume = w
  BY DEF TakesCall
<1>2. vols[w].reply_mq = m.from /\ m.from \in Clients /\ m.name = VolumeOf[m.from]
  BY <1>1, GoesHome
<1>3. (\E n : NewReply(m.from, r, n)) /\ \A e \in Clients : e # m.from => SameReplies(e)
  BY <1>2, RepliesAppended DEF TakesCall
<1>4. server = "up" /\ server' = "up" /\ Pending # << >> /\ Msg = m
  BY <1>1 DEF Takes, Msg
<1>5. ASSUME NEW c \in Clients, reply_mq'[c] # reply_mq[c] PROVE reply_mq'[c][Len(reply_mq'[c])].err = 0
  BY <1>3, <1>5 DEF SameReplies, NewReply
<1>6. FsyncDone(m.name) /\ ~WriteDone
  BY <1>4, <1>5 DEF FsyncDone, WriteDone
<1>7. m.name \in Volumes
  BY <1>2, SharedMemAssumption
<1>8. PICK x : x = writes[m.name]
  OBVIOUS
<1>9. writes'[m.name] = [x EXCEPT !.synced = x.done]
  BY <1>4, <1>6, <1>7, <1>8 DEF ServerStep, NoteServer
<1>10. x = [queued |-> x.queued, done |-> x.done, synced |-> x.synced]
  BY <1>7, <1>8 DEF Shape, HistoryTypes
<1> QED BY <1>7, <1>8, <1>9, <1>10

(***************************************************************************)
(* The barrier.  A flush that is to be done is due no more writes than are *)
(* done when its turn comes; one that is answered with success, no more    *)
(* than are synced.                                                        *)
(***************************************************************************)
FlushDue(v, f) ==
  \A i \in Todo, c \in Clients :
    pc[c] \notin Dead /\ VolumeOf[c] = v /\ Asks(c, i) /\ Pending[i].type = "REQ_FSYNC" =>
      due[c][Pending[i].acb].writes <= f[i]

Counted(v) ==
  writes[v].synced <= writes[v].done /\ \E f, n : Ranks(v, f, n) /\ FlushDue(v, f)

Synced(c, a) == due[c][a].writes <= writes[VolumeOf[c]].synced

Flushed(c) ==
  pc[c] \notin Dead =>
    /\ \A i \in Places(c) : reply_mq[c][i].type = "REQ_FSYNC" /\ reply_mq[c][i].err = 0 => Synced(c, reply_mq[c][i].acb)
    /\ Tells(c) /\ reply_msg_[c].type = "REQ_FSYNC" /\ reply_msg_[c].err = 0 => Synced(c, reply_msg_[c].acb)
    /\ \A a \in Acbs : acbs[c][a] # Null /\ acbs[c][a].type = "REQ_FSYNC" /\ acbs[c][a].bh /\ acbs[c][a].ret = 0
         => Synced(c, a)

FlushInv == (\A v \in Volumes : Counted(v)) /\ \A c \in Clients : Flushed(c)

LEMMA FlushInit == Init => FlushInv
<1> SUFFICES ASSUME Init PROVE FlushInv
  OBVIOUS
<1>1. Todo = {}
  BY DEF Init, ServerInit, Todo
<1>2. ASSUME NEW v \in Volumes PROVE Counted(v)
  <2>1. writes[v] = [queued |-> 0, done |-> 0, synced |-> 0]
    BY DEF Init
  <2>2. PICK f, n : n = 0 /\ f = [i \in {0} |-> 0]
    OBVIOUS
  <2>3. f[0] = 0 /\ 1 .. n = {} /\ n \in Nat /\ 0 .. n = {0}
    BY <2>2
  <2>4. Ranks(v, f, n)
    BY <1>1, <2>1, <2>2, <2>3 DEF Ranks
  <2>5. FlushDue(v, f)
    BY <1>1 DEF FlushDue
  <2> QED BY <2>1, <2>4, <2>5 DEF Counted
<1>3. ASSUME NEW c \in Clients PROVE Flushed(c)
  <2>1. thr[c] = "none" /\ reply_mq[c] = << >> /\ \A a \in Acbs : acbs[c][a] = Null
    BY DEF Init, ClientInit, QueuesInit
  <2>2. Len(<< >>) = 0
    OBVIOUS
  <2>3. Places(c) = 1 .. 0
    BY <2>1, <2>2 DEF Places
  <2> QED BY <2>1, <2>3 DEF Flushed, Tells
<1> QED BY <1>2, <1>3 DEF FlushInv

LEMMA DeadStays ==
  ASSUME Shape, NEW c \in Clients, ClientStep(c), NEW d \in Clients, pc'[d] \notin Dead
  PROVE  pc[d] \notin Dead
<1>1. Others(c)
  BY ShapeClient
<1>2. CASE d # c
  BY <1>1, <1>2 DEF Others
<1>3. CASE d = c
  <2>1. ASSUME NEW m, PostsCall(c, m) \/ Receives(c, m) PROVE pc[c] \notin Dead
    BY <2>1 DEF PostsCall, Receives, ThreadRuns, Dead
  <2>2. ASSUME NEW a \in Acbs, NEW x, NEW y, NEW m,
               \/ PostsRequest(c, a, x, m) \/ PostsWrite(c, a, x, y, m) \/ CompletesAcb(c, a, x, y, m)
               \/ YieldsAcb(c, a, x, y) \/ Frees(c, a) \/ Starts(c, a, x)
        PROVE  pc[c] \notin Dead
    BY <2>2 DEF PostsRequest, PostsWrite, WritesAcb, CompletesAcb, YieldsAcb, Frees, Starts, ThreadRuns, Dead
  <2>3. ASSUME PostsStop(c) \/ Moves(c) PROVE pc[c] \notin Dead
    BY <2>3 DEF PostsStop, Moves, Dead
  <2>4. ~Perished(c)
    BY <1>3 DEF Perished
  <2> QED BY <1>3, <2>1, <2>2, <2>3, <2>4, ClientKinds
<1> QED BY <1>2, <1>3

\* What the reply thread has in hand it had before, or it receives it now.
LEMMA ClientTells ==
  ASSUME Shape, NEW c \in Clients, ClientStep(c), Tells(c)'
  PROVE  (Tells(c) /\ reply_msg_'[c] = reply_msg_[c]) \/ \E m : Receives(c, m)
<1>1. ASSUME NEW m, PostsCall(c, m) PROVE UNCHANGED <<thr, reply_msg_>>
  BY <1>1 DEF PostsCall, Posts
<1>2. ASSUME NEW a \in Acbs, NEW x, NEW m, PostsRequest(c, a, x, m) PROVE UNCHANGED <<thr, reply_msg_>>
  BY <1>2 DEF PostsRequest, Posts
<1>3. ASSUME NEW a \in Acbs, NEW x, NEW y, NEW m, PostsWrite(c, a, x, y, m) PROVE UNCHANGED <<thr, reply_msg_>>
  BY <1>3 DEF PostsWrite, Posts
<1>4. ASSUME PostsStop(c) PROVE UNCHANGED <<thr, reply_msg_>>
  BY <1>4 DEF PostsStop
<1>5. ASSUME NEW a \in Acbs, NEW x, NEW y, YieldsAcb(c, a, x, y) \/ Frees(c, a) \/ Starts(c, a, x)
      PROVE  UNCHANGED <<thr, reply_msg_>>
  BY <1>5 DEF YieldsAcb, Frees, Starts
<1>6. ~Perished(c) /\ \A a, x, y, m : ~CompletesAcb(c, a, x, y, m)
  BY DEF Tells, Perished, CompletesAcb
<1>7. CASE UNCHANGED <<thr, reply_msg_>>
  BY <1>7 DEF Tells
<1>8. CASE Moves(c)
  BY <1>8 DEF Moves, Tells
<1> QED BY <1>1, <1>2, <1>3, <1>4, <1>5, <1>6, <1>7, <1>8, ClientKinds

\* A request that is complete was so before, or is a write, or is completed now.
WasDone(c, a) ==
  /\ acbs[c][a] # Null /\ acbs[c][a].bh
  /\ acbs'[c][a].type = acbs[c][a].type /\ acbs'[c][a].ret = acbs[c][a].ret
  /\ acbs'[c][a].buf = acbs[c][a].buf /\ acbs'[c][a].size = acbs[c][a].size

LEMMA ClientDone ==
  ASSUME Shape, NEW c \in Clients, ClientStep(c), NEW a \in Acbs, acbs'[c][a] # Null, acbs'[c][a].bh
  PROVE  \/ WasDone(c, a)
         \/ acbs'[c][a].type = "REQ_WRITE"
         \/ \E x, y, m : CompletesAcb(c, a, x, y, m)
<1>1. CASE acbs'[c][a] = acbs[c][a]
  BY <1>1 DEF WasDone
<1>2. ASSUME NEW b \in Acbs, NEW y, SetAcb(c, b, y), acbs'[c][a] # acbs[c][a] PROVE a = b /\ acbs'[c][a] = y
  BY <1>2 DEF Shape, ClientTypes, SetAcb
<1>3. ASSUME NEW b \in Acbs, NEW x, NEW y, NEW m, PostsWrite(c, b, x, y, m), acbs'[c][a] # acbs[c][a]
      PROVE  acbs'[c][a].type = "REQ_WRITE"
  BY <1>2, <1>3 DEF PostsWrite, WritesAcb
<1>4. ASSUME NEW b \in Acbs, NEW x, NEW y, NEW m, CompletesAcb(c, b, x, y, m), acbs'[c][a] # acbs[c][a]
      PROVE  CompletesAcb(c, a, x, y, m)
  BY <1>2, <1>4 DEF CompletesAcb
<1>5. ASSUME NEW b \in Acbs, NEW x, NEW y, YieldsAcb(c, b, x, y), acbs'[c][a] # acbs[c][a]
      PROVE  WasDone(c, a)
  <2>1. SetAcb(c, b, y)
    BY <1>5 DEF YieldsAcb
  <2>2. a = b /\ acbs'[c][a] = y
    BY <1>2, <1>5, <2>1
  <2> QED BY <1>5, <2>2 DEF YieldsAcb, WasDone
<1>6. ASSUME NEW b \in Acbs, NEW x, Frees(c, b) \/ Starts(c, b, x), acbs'[c][a] # acbs[c][a]
      PROVE  FALSE
  <2>1. \E y : SetAcb(c, b, y) /\ (y = Null \/ ~y.bh)
    BY <1>6 DEF Frees, Starts, NewRequest, Submit
  <2> QED BY <1>2, <1>6, <2>1
<1>7. ~Perished(c)
  BY DEF Perished
<1> QED BY <1>1, <1>3, <1>4, <1>5, <1>6, <1>7, ClientKinds DEF PostsCall, PostsRequest, Receives, PostsStop, Moves

LEMMA CountedClient ==
  ASSUME Shape, AcbInv, AcbInv', FlushInv, NEW c \in Clients, ClientStep(c), NEW v \in Volumes
  PROVE  Counted(v)'
<1>0. Mail(c) /\ writes[v].synced <= writes[v].done
  BY ClientMail DEF FlushInv, Counted
<1>1. PICK f, k : Ranks(v, f, k) /\ FlushDue(v, f)
  BY DEF FlushInv, Counted
<1>2. ASSUME NEW d \in Clients, pc'[d] \notin Dead, NEW i \in Todo, i \in Todo', Asks(d, i)', Pending'[i] = Pending[i]
      PROVE  Asks(d, i) /\ pc[d] \notin Dead /\ due'[d][Pending[i].acb] = due[d][Pending[i].acb]
  <2>1. Asks(d, i) /\ pc[d] \notin Dead
    BY <1>2, DeadStays DEF Asks
  <2>2. About(d, Pending[i]) /\ About(d, Pending[i])'
    BY <1>2, <2>1 DEF AcbInv, Flight, AllLive
  <2>3. /\ Pending[i].acb \in Acbs /\ acbs'[d][Pending[i].acb] # Null
        /\ ~(pc[d] = "sending" /\ Running(d, Pending[i].acb))
    BY <1>2, <2>2 DEF About, Waiting
  <2> QED BY <2>1, <2>3, ClientDue
<1>3. CASE SameTodo /\ writes' = writes
  <2>1. Ranks(v, f, k)'
    BY <1>1, <1>3, RanksSame
  <2>2. FlushDue(v, f)'
    BY <1>1, <1>2, <1>3 DEF FlushDue, SameTodo
  <2> QED BY <1>0, <1>3, <2>1, <2>2 DEF Counted
<1>4. ASSUME NEW m, NEW n, Adds(c, m, n) PROVE Counted(v)'
  <2>1. /\ writes'[v].done = writes[v].done /\ writes'[v].synced = writes[v].synced
        /\ writes'[v].queued = IF WriteOf(v, m) THEN writes[v].queued + 1 ELSE writes[v].queued
    BY <1>4 DEF Adds, CountsUp, WriteOf
  <2>2. NewTodo(m, n)
    BY <1>4 DEF Adds
  <2>3. PICK g : Ranks(v, g, n)' /\ g[n] = writes'[v].queued /\ \A i \in Todo : g[i] = f[i]
    BY <1>1, <2>1, <2>2, RanksGrow
  <2>4. FlushDue(v, g)'
    <3> SUFFICES ASSUME NEW i \in Todo', NEW d \in Clients, pc'[d] \notin Dead, VolumeOf[d] = v, Asks(d, i)',
                        Pending'[i].type = "REQ_FSYNC"
                 PROVE  due'[d][Pending'[i].acb].writes <= g[i]
      BY DEF FlushDue
    <3>1. CASE i \in Todo
      <4>1. Pending'[i] = Pending[i]
        BY <2>2, <3>1 DEF NewTodo
      <4>2. Asks(d, i) /\ pc[d] \notin Dead /\ due'[d][Pending[i].acb] = due[d][Pending[i].acb]
        BY <1>2, <3>1, <4>1
      <4>3. due[d][Pending[i].acb].writes <= f[i]
        BY <1>1, <3>1, <4>1, <4>2 DEF FlushDue
      <4> QED BY <2>3, <3>1, <4>1, <4>2, <4>3
    <3>2. CASE i \notin Todo
      <4>1. i = n /\ Pending'[n] = m
        BY <2>2, <3>2 DEF NewTodo
      <4>2. d = c /\ m.name = v /\ due'[c][m.acb].writes = writes[v].queued /\ writes' = writes
        BY <1>4, <4>1 DEF Adds, Asks
      <4>3. writes[v].queued \in Nat
        BY DEF Shape, HistoryTypes
      <4> QED BY <2>3, <4>1, <4>2, <4>3
    <3> QED BY <3>1, <3>2
  <2> QED BY <1>0, <2>1, <2>3, <2>4 DEF Counted
<1> QED BY <1>3, <1>4, ClientWrites

\* A client adds no reply but the one that stops its thread.
LEMMA OldReply ==
  ASSUME Shape, NEW c \in Clients, ClientStep(c), NEW d \in Clients, NEW i \in Places(d)',
         reply_mq'[d][i].type # "STOP"
  PROVE  \E j \in Places(d) : reply_mq[d][j] = reply_mq'[d][i]
<1>1. Mail(c)
  BY ClientMail
<1>2. CASE SameReplies(d)
  BY <1>2 DEF SameReplies, Places
<1>3. ASSUME d = c, NEW n, NewReply(c, StopMessage, n) PROVE \E j \in Places(d) : reply_mq[d][j] = reply_mq'[d][i]
  <2>1. i \in 1 .. (n - 1) \/ i = n
    BY <1>3 DEF NewReply, Places
  <2>2. i # n
    BY <1>3 DEF NewReply, StopMessage
  <2> QED BY <1>3, <2>1, <2>2 DEF NewReply, Places
<1>4. ASSUME d = c, NEW r, NEW n, TakenReply(c, r, n) PROVE \E j \in Places(d) : reply_mq[d][j] = reply_mq'[d][i]
  <2>1. i \in 1 .. (n - 1)
    BY <1>4 DEF TakenReply, Places
  <2>2. i + 1 \in Places(d) /\ reply_mq[d][i + 1] = reply_mq'[d][i]
    BY <1>4, <2>1 DEF TakenReply, Places
  <2> QED BY <2>2
<1> QED BY <1>1, <1>2, <1>3, <1>4 DEF Mail

LEMMA FlushedClient ==
  ASSUME Shape, AcbInv, AcbInv', FlushInv, NEW c \in Clients, ClientStep(c), NEW d \in Clients
  PROVE  Flushed(d)'
<1> SUFFICES ASSUME pc'[d] \notin Dead PROVE Flushed(d)'
  BY DEF Flushed
<1>0. /\ pc[d] \notin Dead /\ Others(c) /\ VolumeOf[d] \in Volumes /\ Flushed(d)
      /\ AllLive(d) /\ AllLive(d)' /\ Unsent(d)
  BY DeadStays, ShapeClient, SharedMemAssumption DEF FlushInv, AcbInv, Flight
<1>1. writes'[VolumeOf[d]].synced = writes[VolumeOf[d]].synced
  <2>1. ASSUME NEW m, NEW n, Adds(c, m, n) PROVE writes'[VolumeOf[d]].synced = writes[VolumeOf[d]].synced
    BY <1>0, <2>1 DEF Adds, CountsUp
  <2> QED BY <2>1, ClientWrites
<1>2. ASSUME NEW b \in Acbs, acbs'[d][b] # Null, ~(pc[d] = "sending" /\ Running(d, b)), Synced(d, b)
      PROVE  Synced(d, b)'
  BY <1>1, <1>2, ClientDue DEF Synced
<1>3. ASSUME NEW r, About(d, r), About(d, r)', Synced(d, r.acb) PROVE Synced(d, r.acb)'
  BY <1>2, <1>3 DEF About, Waiting
<1>4. ASSUME NEW i \in Places(d)', reply_mq'[d][i].type = "REQ_FSYNC", reply_mq'[d][i].err = 0
      PROVE  Synced(d, reply_mq[d][i].acb)'
  <2>1. PICK j \in Places(d) : reply_mq[d][j] = reply_mq'[d][i]
    BY <1>4, OldReply
  <2>2. PICK r : r = reply_mq[d][j]
    OBVIOUS
  <2>3. About(d, r) /\ About(d, r)' /\ Synced(d, r.acb)
    BY <1>0, <1>4, <2>1, <2>2 DEF AllLive, Answers, Completes, Flushed, About
  <2> QED BY <1>3, <2>1, <2>2, <2>3 DEF Synced
<1>5. ASSUME Tells(d)', reply_msg_'[d].type = "REQ_FSYNC", reply_msg_'[d].err = 0
      PROVE  Synced(d, reply_msg_[d].acb)'
  <2>1. PICK r : r = reply_msg_'[d]
    OBVIOUS
  <2>2. About(d, r)'
    BY <1>0, <1>5, <2>1 DEF AllLive, About
  <2>3. CASE Tells(d) /\ reply_msg_'[d] = reply_msg_[d]
    <3>1. About(d, r) /\ Synced(d, r.acb)
      BY <1>0, <1>5, <2>1, <2>3 DEF AllLive, Flushed
    <3> QED BY <1>3, <2>1, <2>2, <3>1 DEF Synced
  <2>4. ASSUME d = c, NEW m, Receives(c, m) PROVE Synced(d, reply_msg_[d].acb)'
    <3>1. m = r /\ \E n : TakenReply(c, m, n)
      BY <2>1, <2>4, RepliesTaken DEF Receives
    <3>2. 1 \in Places(d) /\ reply_mq[d][1] = r
      BY <2>4, <3>1 DEF TakenReply, Places
    <3>3. About(d, r) /\ Synced(d, r.acb)
      BY <1>0, <1>5, <2>1, <3>2 DEF AllLive, Answers, Completes, Flushed
    <3> QED BY <1>3, <2>1, <2>2, <3>3 DEF Synced
  <2>5. d # c => Tells(d) /\ reply_msg_'[d] = reply_msg_[d]
    BY <1>0, <1>5 DEF Others, Tells
  <2> QED BY <1>5, <2>3, <2>4, <2>5, ClientTells
<1>6. ASSUME NEW a \in Acbs, acbs'[d][a] # Null, acbs'[d][a].type = "REQ_FSYNC", acbs'[d][a].bh, acbs'[d][a].ret = 0
      PROVE  Synced(d, a)'
  <2>1. CASE WasDone(d, a)
    <3>1. Synced(d, a) /\ ~(pc[d] = "sending" /\ Running(d, a))
      BY <1>0, <1>6, <2>1 DEF WasDone, Flushed, Unsent
    <3> QED BY <1>2, <1>6, <3>1
  <2>2. ASSUME d = c, NEW x, NEW y, NEW m, CompletesAcb(c, a, x, y, m) PROVE Synced(d, a)'
    <3>1. Tells(c) /\ m = reply_msg_[c] /\ m.acb = a /\ x = acbs[c][a] /\ Acb(x) /\ CompletedBy(x, m, y) /\ y.type = x.type
      BY <2>2 DEF CompletesAcb, Tells, Completes
    <3>2. About(c, m)
      BY <1>0, <2>2, <3>1 DEF AllLive
    <3>3. acbs'[c][a] = y
      BY <2>2 DEF CompletesAcb, SetAcb, Shape, ClientTypes
    <3>4. m.type = "REQ_FSYNC" /\ x.size = 0
      BY <1>6, <2>2, <3>1, <3>2, <3>3 DEF About, Acb
    <3>5. m.err = 0
      BY <1>6, <2>2, <3>1, <3>3, <3>4 DEF CompletedBy
    <3>6. Synced(c, a) /\ ~(pc[c] = "sending" /\ Running(c, a))
      BY <1>0, <2>2, <3>1, <3>2, <3>4, <3>5 DEF Flushed, About, Waiting
    <3> QED BY <1>2, <1>6, <2>2, <3>6
  <2>3. d # c => acbs'[d] = acbs[d]
    BY <1>0 DEF Others
  <2>4. d # c => WasDone(d, a)
    BY <1>6, <2>3 DEF WasDone
  <2> QED BY <1>6, <2>1, <2>2, <2>4, ClientDone
<1> QED BY <1>4, <1>5, <1>6 DEF Flushed

\* A turn of the server adds a completion to the replies of d only as the answer to a request of d.
LEMMA NewAnswer ==
  ASSUME Shape, PtrInv, ServerStep, NEW d \in Clients
  PROVE  NoNewAnswer(d) \/ \E m, w, r, n : TakesCall(m, w, r) /\ NewReply(d, r, n) /\ m.from = d /\ Completes(m)
<1>1. CASE Stopped \/ Started \/ \E m : TakesQuietly(m)
  BY <1>1 DEF Stopped, Started, TakesQuietly, NoNewAnswer, SameReplies
<1>2. ASSUME NEW m, NEW e, NEW r, TakesOpen(m, e, r) PROVE NoNewAnswer(d)
  <2>1. ~Completes(r) /\ e \in Clients
    BY <1>2 DEF TakesOpen, Completes
  <2>2. (\E n : NewReply(e, r, n)) /\ \A h \in Clients : h # e => SameReplies(h)
    BY <1>2, <2>1, RepliesAppended DEF TakesOpen
  <2> QED BY <2>1, <2>2 DEF NoNewAnswer
<1>3. ASSUME NEW m, NEW w, NEW r, TakesCall(m, w, r)
      PROVE  NoNewAnswer(d) \/ \E n : NewReply(d, r, n) /\ m.from = d /\ Completes(m)
  <2>1. Takes(m) /\ w \in Clients /\ vols[w] # Null /\ m.volume = w /\ r.type = m.type
    BY <1>3 DEF TakesCall
  <2>2. vols[w].reply_mq = m.from /\ m.from \in Clients
    BY <2>1, GoesHome
  <2>3. (\E n : NewReply(m.from, r, n)) /\ \A e \in Clients : e # m.from => SameReplies(e)
    BY <1>3, <2>2, RepliesAppended DEF TakesCall
  <2> QED BY <2>1, <2>3 DEF NoNewAnswer, Completes
<1> QED BY <1>1, <1>2, <1>3, ServerKinds

\* A turn of the server moves every flush one place up, or answers it.
LEMMA FlushServer == ASSUME Shape, PtrInv, AcbInv, FlushInv, ServerStep PROVE FlushInv'
<1>0. UNCHANGED clientVars /\ due' = due /\ pc' = pc
  BY DEF ServerStep, NoteServer, clientVars
<1>n. ASSUME NEW v \in Volumes PROVE writes[v].synced \in Nat /\ writes[v].done \in Nat /\ writes[v].queued \in Nat
  BY DEF Shape, HistoryTypes
<1>1. ASSUME NEW v \in Volumes PROVE Counted(v)'
  <2>1. PICK f, k : Ranks(v, f, k) /\ FlushDue(v, f) /\ writes[v].synced <= writes[v].done
    BY DEF FlushInv, Counted
  <2>2. CASE Stopped \/ Started
    <3>1. Todo' = {} /\ writes'[v].done = writes[v].done /\ writes'[v].synced = writes[v].synced
      BY <2>2, TodoGone, ServerCounts
    <3>2. writes'[v].queued = writes[v].done
      <4>1. CASE Stopped
        BY <4>1, ServerCounts
      <4>2. CASE Started
        <5>1. Todo = {} /\ writes'[v].queued = writes[v].queued
          BY <4>2, ServerCounts DEF Started, Todo
        <5>2. k = 0
          <6>1. k \in Nat /\ 1 .. k = {}
            BY <2>1, <5>1 DEF Ranks
          <6> QED BY <6>1
        <5> QED BY <2>1, <5>1, <5>2 DEF Ranks
      <4> QED BY <2>2, <4>1, <4>2
    <3>3. PICK g, n : n = 0 /\ g = [i \in {0} |-> writes[v].done]
      OBVIOUS
    <3>4. g[0] = writes[v].done /\ 1 .. n = {} /\ n \in Nat /\ 0 .. n = {0} /\ g[0] \in Nat
      BY <3>3, <1>n
    <3>5. Ranks(v, g, n)'
      BY <3>1, <3>2, <3>3, <3>4 DEF Ranks
    <3>6. FlushDue(v, g)'
      BY <3>1 DEF FlushDue
    <3> QED BY <2>1, <3>1, <3>5, <3>6 DEF Counted
  <2>3. ASSUME NEW m, Takes(m) PROVE Counted(v)'
    <3>1. PICK n : DoneTodo(m, n)
      BY <2>3, TodoTakes
    <3>2. /\ writes'[v].queued = writes[v].queued
          /\ writes'[v].done = IF WriteOf(v, m) THEN writes[v].done + 1 ELSE writes[v].done
          /\ writes'[v].synced \in {writes[v].synced, writes[v].done}
      BY <2>3, ServerCounts
    <3>3. PICK g : Ranks(v, g, n - 1)' /\ \A i \in Todo' : g[i] = f[i + 1]
      BY <2>1, <3>1, <3>2, RanksShrink
    <3>4. FlushDue(v, g)'
      <4> SUFFICES ASSUME NEW i \in Todo', NEW d \in Clients, pc[d] \notin Dead, VolumeOf[d] = v, Asks(d, i)',
                          Pending'[i].type = "REQ_FSYNC"
                   PROVE  due[d][Pending'[i].acb].writes <= g[i]
        BY <1>0 DEF FlushDue
      <4>1. i + 1 \in Todo /\ Pending'[i] = Pending[i + 1] /\ Asks(d, i + 1)
        BY <2>3, TakenPlaces DEF Asks
      <4> QED BY <2>1, <3>3, <4>1 DEF FlushDue
    <3>5. writes'[v].synced <= writes'[v].done
      BY <1>n, <2>1, <3>2
    <3> QED BY <3>3, <3>4, <3>5 DEF Counted
  <2> QED BY <2>2, <2>3, ServerKinds DEF TakesOpen, TakesCall, TakesQuietly
<1>2. ASSUME NEW d \in Clients PROVE Flushed(d)'
  <2> SUFFICES ASSUME pc[d] \notin Dead PROVE Flushed(d)'
    BY <1>0 DEF Flushed
  <2>0. Flushed(d) /\ VolumeOf[d] \in Volumes /\ AllLive(d)
    BY SharedMemAssumption DEF FlushInv, AcbInv, Flight
  <2>1. writes'[VolumeOf[d]].synced \in {writes[VolumeOf[d]].synced, writes[VolumeOf[d]].done}
    BY <2>0, ServerCounts, ServerKinds DEF TakesOpen, TakesCall, TakesQuietly
  <2>2. writes[VolumeOf[d]].synced <= writes[VolumeOf[d]].done
    BY <2>0 DEF FlushInv, Counted
  <2>3. ASSUME NEW b \in Acbs, Synced(d, b) PROVE Synced(d, b)'
    <3>1. due[d][b].writes \in Nat
      BY DEF Shape, HistoryTypes
    <3> QED BY <1>0, <1>n, <2>0, <2>1, <2>2, <2>3, <3>1 DEF Synced
  <2>4. Tells(d)' = Tells(d) /\ reply_msg_' = reply_msg_ /\ acbs' = acbs
    BY <1>0 DEF Tells, clientVars
  <2>5. ASSUME Tells(d)', reply_msg_'[d].type = "REQ_FSYNC", reply_msg_'[d].err = 0
        PROVE  Synced(d, reply_msg_[d].acb)'
    <3>1. reply_msg_[d].acb \in Acbs /\ Synced(d, reply_msg_[d].acb)
      BY <2>0, <2>4, <2>5 DEF AllLive, About, Flushed
    <3> QED BY <2>3, <2>4, <3>1 DEF Synced
  <2>6. ASSUME NEW a \in Acbs, acbs'[d][a] # Null, acbs'[d][a].type = "REQ_FSYNC", acbs'[d][a].bh, acbs'[d][a].ret = 0
        PROVE  Synced(d, a)'
    BY <2>0, <2>3, <2>4, <2>6 DEF Flushed
  <2>7. ASSUME NEW i \in Places(d)', i \in Places(d), reply_mq'[d][i] = reply_mq[d][i],
               reply_mq'[d][i].type = "REQ_FSYNC", reply_mq'[d][i].err = 0
        PROVE  Synced(d, reply_mq[d][i].acb)'
    <3>1. reply_mq[d][i].acb \in Acbs /\ Synced(d, reply_mq[d][i].acb)
      BY <2>0, <2>7 DEF AllLive, About, Flushed, Answers, Completes
    <3> QED BY <2>3, <2>7, <3>1 DEF Synced
  <2>8. CASE NoNewAnswer(d)
    <3>1. \A i \in Places(d)' : reply_mq'[d][i].type = "REQ_FSYNC" =>
            i \in Places(d) /\ reply_mq'[d][i] = reply_mq[d][i]
      BY <2>8, OldAnswers DEF Answers, Completes
    <3> QED BY <2>4, <2>5, <2>6, <2>7, <3>1 DEF Flushed
  <2>9. ASSUME NEW m, NEW w, NEW r, TakesCall(m, w, r), NEW n, NewReply(d, r, n), m.from = d, Completes(m)
        PROVE  Flushed(d)'
    <3>1. \A i \in Places(d)' : i = n \/ (i \in Places(d) /\ reply_mq'[d][i] = reply_mq[d][i])
      BY <2>9 DEF NewReply, Places
    <3>2. ASSUME r.type = "REQ_FSYNC", r.err = 0 PROVE Synced(d, r.acb)'
      <4>1. m.type = "REQ_FSYNC" /\ Takes(m) /\ r.acb = m.acb
        BY <2>9, <3>2 DEF TakesCall
      <4>2. m.name \in Volumes /\ writes'[m.name].synced = writes[m.name].done
        BY <2>9, <3>2, <4>1, FsyncSyncs
      <4>3. 1 \in Todo /\ Pending[1] = m /\ Asks(d, 1)
        BY <2>9, <4>1, TakenPlaces DEF Asks
      <4>4. m.name = VolumeOf[d]
        BY <2>9, <4>3 DEF PtrInv, Addressed
      <4>5. PICK f, k : Ranks(m.name, f, k) /\ FlushDue(m.name, f)
        BY <4>2 DEF FlushInv, Counted
      <4>6. due[d][m.acb].writes <= f[1]
        BY <4>1, <4>3, <4>4, <4>5 DEF FlushDue
      <4>7. PICK q : DoneTodo(m, q)
        BY <4>1, TodoTakes
      <4>8. /\ writes'[m.name].queued = writes[m.name].queued
            /\ writes'[m.name].done = IF WriteOf(m.name, m) THEN writes[m.name].done + 1 ELSE writes[m.name].done
        BY <4>1, <4>2, ServerCounts
      <4>9. f[1] = writes'[m.name].done
        BY <4>2, <4>5, <4>7, <4>8, RanksShrink
      <4>10. f[1] = writes[m.name].done
        BY <4>1, <4>8, <4>9 DEF WriteOf
      <4> QED BY <1>0, <4>1, <4>2, <4>4, <4>6, <4>10 DEF Synced
    <3>3. ASSUME NEW i \in Places(d)', reply_mq'[d][i].type = "REQ_FSYNC", reply_mq'[d][i].err = 0
          PROVE  Synced(d, reply_mq[d][i].acb)'
      <4>1. CASE i = n
        <5>1. reply_mq'[d][i] = r
          BY <2>9, <4>1 DEF NewReply
        <5> QED BY <3>2, <3>3, <5>1 DEF Synced
      <4>2. CASE i # n
        BY <2>7, <3>1, <3>3, <4>2
      <4> QED BY <4>1, <4>2
    <3> QED BY <2>4, <2>5, <2>6, <3>3 DEF Flushed
  <2> QED BY <2>8, <2>9, NewAnswer
<1> QED BY <1>1, <1>2 DEF FlushInv

LEMMA FlushNext == ASSUME Shape, PtrInv, AcbInv, FlushInv, [Next]_vars PROVE FlushInv'
<1>1. CASE UNCHANGED vars
  <2>1. /\ Todo' = Todo /\ Pending' = Pending /\ due' = due /\ writes' = writes /\ pc' = pc
        /\ \A c \in Clients : Tells(c)' = Tells(c) /\ Places(c)' = Places(c)
        /\ \A c \in Clients : \A i : Asks(c, i)' = Asks(c, i)
    BY <1>1 DEF vars, queueVars, serverVars, clientVars, history, Asks, Tells, Places, Todo, Pending
  <2>2. ASSUME NEW v \in Volumes PROVE Counted(v)'
    <3>1. PICK f, n : Ranks(v, f, n) /\ FlushDue(v, f) /\ writes[v].synced <= writes[v].done
      BY DEF FlushInv, Counted
    <3>2. Ranks(v, f, n)' /\ FlushDue(v, f)'
      BY <2>1, <3>1 DEF Ranks, FlushDue
    <3> QED BY <2>1, <3>1, <3>2 DEF Counted
  <2>3. \A c \in Clients : Flushed(c)'
    BY <1>1, <2>1 DEF vars, queueVars, clientVars, FlushInv, Flushed, Synced
  <2> QED BY <2>2, <2>3 DEF FlushInv
<1>2. ASSUME NEW c \in Clients, ClientStep(c) PROVE FlushInv'
  <2>1. AcbInv'
    BY AcbNext
  <2> QED BY <1>2, <2>1, CountedClient, FlushedClient DEF FlushInv
<1> QED BY <1>1, <1>2, FlushServer DEF Next

LEMMA FlushHolds == Spec => [](Shape /\ FlushInv)
<1>1. Shape /\ PtrInv /\ AcbInv /\ FlushInv /\ [Next]_vars => FlushInv'
  BY FlushNext
<1> QED BY <1>1, FlushInit, AcbHolds, PTL DEF Spec

(***************************************************************************)
(* The variables have their types, a coroutine is being run exactly while  *)
(* the main thread is in a request, and no more writes are synced than are *)
(* done and no more done than were queued.                                 *)
(***************************************************************************)
THEOREM AsyncTypeCorrect == Spec => []TypeOK
<1>1. ASSUME Shape, FlushInv PROVE TypeOK
  <2>1. ASSUME NEW v \in Volumes PROVE writes[v].synced <= writes[v].done /\ writes[v].done <= writes[v].queued
    <3>1. PICK f, n : Ranks(v, f, n) /\ writes[v].synced <= writes[v].done
      BY <1>1 DEF FlushInv, Counted
    <3>2. 0 \in 0 .. n /\ n \in 0 .. n /\ 0 <= n
      BY <3>1 DEF Ranks
    <3> QED BY <3>1, <3>2 DEF Ranks
  <2> QED BY <1>1, <2>1, ShapeTypes DEF TypeOK
<1> QED BY <1>1, FlushHolds, PTL

(***************************************************************************)
(* A flush that reports success is a barrier: every write of the volume    *)
(* queued, hence reported done to a guest, before it was issued has reached*)
(* the file and the file has been synced.  The invariant ranks the pending *)
(* requests by the writes before them: the server answers a flush only     *)
(* when its turn comes, and the answer finds the CVBDAIOCB it is due to.   *)
(***************************************************************************)
THEOREM FlushesAreBarriers == Spec => []FlushIsBarrier
<1>1. ASSUME Shape, FlushInv PROVE FlushIsBarrier
  <2> SUFFICES ASSUME NEW c \in Clients, NEW a \in Acbs, acbs[c][a] # Null, acbs[c][a].type = "REQ_FSYNC",
                      acbs[c][a].bh, acbs[c][a].ret = 0
               PROVE  writes[VolumeOf[c]].synced >= due[c][a].writes
    BY DEF FlushIsBarrier
  <2>1. pc[c] \notin Dead
    BY <1>1 DEF Shape, ClientShape, Calling, Dead
  <2>2. Synced(c, a) /\ VolumeOf[c] \in Volumes
    BY <1>1, <2>1, SharedMemAssumption DEF FlushInv, Flushed
  <2>3. due[c][a].writes \in Nat /\ writes[VolumeOf[c]].synced \in Nat
    BY <1>1, <2>2 DEF Shape, HistoryTypes
  <2> QED BY <2>2, <2>3 DEF Synced
<1> QED BY <1>1, FlushHolds, PTL

-------------------------------------------------------------------------------
(***************************************************************************)
(* Volumes that were never opened.  If send_open throws and errno happens  *)
(* to be 0, a client goes on without a VolumeState.  The server would drop *)
(* its writes; but the first thing QEMU asks for is the length, and if     *)
(* that request is queued, the server dies of it before it meets a write.  *)
(* If not, the length is 0 and no write has any bytes.                     *)
(***************************************************************************)
Dooms(j) == Pending[j].type = "REQ_GETSIZE" /\ Pending[j].volume = Null
Doomed == \E j \in Todo : Dooms(j)
Drops(m) == m.type = "REQ_WRITE" /\ m.volume = Null /\ m.size # 0

Orderly(c) ==
  /\ pc[c] \in NotOpened \cup Opening => calls[c] = 0
  /\ pc[c] = "getsize" => calls[c] > 0
  /\ calls[c] = 0 => length[c] = 0
  /\ calls[c] = 0 \/ pc[c] = "getsize" => \A a \in Acbs : acbs[c][a] = Null
  /\ \A a \in Acbs : acbs[c][a] # Null /\ ~acbs[c][a].bh /\ acbs[c][a].size # 0 => length[c] # 0
  /\ /\ pc[c] \in Calling /\ Served(c) /\ volume_[c] = Null
     /\ pc[c] = "getsize" \/ length[c] # 0
     => Doomed

DoomInv ==
  /\ \A c \in Clients : pc[c] \notin Dead => Orderly(c)
  /\ \A i \in Todo : Drops(Pending[i]) => \E j \in Todo : j < i /\ Dooms(j)

LEMMA DoomInit == Init => DoomInv
<1> SUFFICES ASSUME Init PROVE DoomInv
  OBVIOUS
<1>1. Todo = {}
  BY DEF Init, ServerInit, Todo
<1>2. ASSUME NEW c \in Clients PROVE Orderly(c)
  BY DEF Init, ClientInit, Orderly, Calling
<1> QED BY <1>1, <1>2 DEF DoomInv

\* A client counts its own calls only.
LEMMA OthersCalls ==
  ASSUME Shape, NEW c \in Clients, ClientStep(c), NEW d \in Clients, d # c
  PROVE  calls'[d] = calls[d]
<1>1. CASE calls' = calls
  BY <1>1
<1>2. CASE CountCall(c)
  BY <1>2 DEF CountCall, Shape, ClientTypes
<1>3. calls' = calls \/ CountCall(c)
  <2>1. ASSUME NEW a \in Acbs, NEW x, NewRequest(c, a, x) PROVE CountCall(c)
    BY <2>1 DEF NewRequest, Submit
  <2>2. ASSUME NEW a \in Acbs, Yield(c, a) \/ cvbd_complete_aio(c, a) PROVE calls' = calls
    BY <2>2 DEF Yield, cvbd_complete_aio, driverVars
  <2>3. ASSUME cvbd_getlength(c) \/ cvbd_close(c) PROVE calls' = calls \/ CountCall(c)
    BY <2>3 DEF cvbd_getlength, cvbd_close, driverVars
  <2>4. ASSUME GetLengthReturns(c) \/ GetLengthThrows(c) \/ \E r : Misaligned(c, r)
        PROVE  calls' = calls \/ CountCall(c)
    BY <2>4 DEF GetLengthReturns, GetLengthThrows, Misaligned
  <2>5. ASSUME Perishes(c) PROVE calls' = calls \/ CountCall(c)
    BY <2>5 DEF Perishes
  <2>6. ASSUME UNCHANGED driverVars PROVE calls' = calls
    BY <2>6 DEF driverVars
  <2> QED BY <2>1, <2>2, <2>3, <2>4, <2>5, <2>6, NotedCases
<1> QED BY <1>1, <1>2, <1>3

LEMMA StillDoomed ==
  ASSUME Doomed, SameTodo \/ \E m, n : NewTodo(m, n)
  PROVE  Doomed'
<1>1. CASE SameTodo
  BY <1>1 DEF SameTodo, Doomed, Dooms
<1>2. ASSUME NEW m, NEW n, NewTodo(m, n) PROVE Doomed'
  <2>1. \A i \in Todo : i \in Todo' /\ Pending'[i] = Pending[i]
    BY <1>2 DEF NewTodo
  <2> QED BY <2>1 DEF Doomed, Dooms
<1> QED BY <1>1, <1>2

LEMMA OrderlyOther ==
  ASSUME Shape, NEW c \in Clients, ClientStep(c), NEW d \in Clients, d # c, Orderly(d)
  PROVE  Orderly(d)'
<1>1. Others(c) /\ Mail(c) /\ calls'[d] = calls[d] /\ UNCHANGED serverVars
  BY ShapeClient, ClientMail, OthersCalls DEF ClientStep
<1>2. Served(d)' = Served(d)
  BY <1>1 DEF Others, Served, serverVars
<1>3. Doomed => Doomed'
  BY <1>1, StillDoomed DEF Mail
<1> QED BY <1>1, <1>2, <1>3 DEF Others, Orderly

LEMMA OrderlyPosts ==
  ASSUME Shape, NEW c \in Clients, UNCHANGED serverVars, NEW m, PostsCall(c, m), Orderly(c)
  PROVE  Orderly(c)'
<1>1. Posts(c, m) /\ acbs' = acbs /\ UNCHANGED <<request_mq_, volume_, length>>
  BY DEF PostsCall, Posts
<1>2. (~Served(c) /\ SameTodo) \/ (Served(c) /\ \E n : NewTodo(m, n))
  BY <1>1, TodoPosts
<1>3. Served(c)' = Served(c)
  BY <1>1 DEF Served, serverVars
<1>4. Doomed => Doomed'
  BY <1>2, StillDoomed
<1>5. CASE m.type = "REQ_GETSIZE"
  <2>1. m.volume = volume_[c] /\ pc[c] = "idle" /\ pc'[c] = "getsize" /\ calls[c] = 0 /\ calls'[c] = 1
    BY <1>5 DEF PostsCall
  <2>2. ASSUME Served(c), volume_[c] = Null PROVE Doomed'
    <3>1. PICK n : NewTodo(m, n)
      BY <1>2, <2>2
    <3>2. n \in Todo' /\ Pending'[n] = m
      BY <3>1 DEF NewTodo
    <3> QED BY <1>5, <2>1, <2>2, <3>2 DEF Doomed, Dooms
  <2> QED BY <1>1, <1>3, <2>1, <2>2 DEF Orderly, NotOpened, Opening, Reading
<1>6. CASE m.type = "REQ_OPEN"
  BY <1>1, <1>6 DEF PostsCall, Orderly, NotOpened, Opening, Reading, Calling
<1>7. CASE m.type = "REQ_CLOSE"
  BY <1>1, <1>7 DEF PostsCall, Orderly, NotOpened, Opening, Reading, Calling
<1> QED BY <1>5, <1>6, <1>7 DEF PostsCall

LEMMA OrderlyMoves ==
  ASSUME Shape, NEW c \in Clients, UNCHANGED serverVars, Moves(c), Orderly(c)
  PROVE  Orderly(c)'
<1>1. acbs' = acbs /\ SameTodo
  BY TodoSame DEF Moves
<1>2. Doomed' = Doomed
  BY <1>1 DEF SameTodo, Doomed, Dooms
<1>3. pc[c] = "ctor_open" \/ request_mq_'[c] = request_mq_[c]
  BY DEF Moves
<1>4. pc[c] # "ctor_open" => Served(c)' = Served(c)
  BY <1>3 DEF Served, serverVars
<1>5. pc'[c] \in NotOpened \cup Opening => pc[c] \in NotOpened \cup Opening
  BY DEF Moves, NotOpened, Opening, Reading
<1>6. pc'[c] = "getsize" => pc[c] = "getsize"
  BY DEF Moves
<1>7. pc[c] \notin NotOpened \cup Opening \/ (calls' = calls /\ length' = length)
  BY DEF Moves, NotOpened, Opening, Reading
<1>8. CASE pc[c] \in NotOpened \cup Opening
  <2>1. calls'[c] = 0 /\ length'[c] = 0 /\ pc'[c] # "getsize"
    BY <1>6, <1>7, <1>8 DEF Orderly, NotOpened, Opening, Reading
  <2> QED BY <1>1, <1>5, <1>8, <2>1 DEF Orderly
<1>9. CASE pc[c] \notin NotOpened \cup Opening
  <2>1. pc[c] # "ctor_open" /\ pc'[c] \notin NotOpened \cup Opening /\ pc[c] \notin Reading
    BY <1>5, <1>9 DEF NotOpened, Opening, Reading
  <2>2. volume_'[c] = volume_[c] /\ Served(c)' = Served(c)
    BY <1>4, <2>1 DEF Moves, Reading, Opening
  <2>3. pc'[c] \in Calling => pc[c] \in Calling
    BY <1>9 DEF Moves, Calling, NotOpened, Opening, Reading
  <2>4. CASE pc[c] = "getsize" /\ calls' = calls
    BY <1>1, <1>2, <2>1, <2>2, <2>3, <2>4 DEF Orderly
  <2>5. CASE length' = length /\ calls' = calls /\ pc[c] # "getsize"
    BY <1>1, <1>2, <1>6, <2>1, <2>2, <2>3, <2>5 DEF Orderly
  <2>6. CASE length' = length /\ calls[c] > 0 /\ calls'[c] > 0 /\ pc[c] = "idle"
    <3>1. calls[c] # 0 /\ calls'[c] # 0
      BY <2>6
    <3> QED BY <1>1, <1>2, <1>6, <2>1, <2>2, <2>3, <2>6, <3>1 DEF Orderly
  <2>7. CASE pc[c] = "idle" /\ calls[c] = 0 /\ length'[c] = 0 /\ calls'[c] = 1
    BY <1>1, <1>6, <2>1, <2>7 DEF Orderly
  <2> QED BY <2>4, <2>5, <2>6, <2>7 DEF Moves
<1> QED BY <1>8, <1>9

\* The other steps change the calls of a client only when it starts a request.
LEMMA OrderlySets ==
  ASSUME Shape, NEW c \in Clients, UNCHANGED serverVars, Orderly(c), NEW a \in Acbs, NEW y,
         SetAcb(c, a, y), y # Null /\ ~y.bh /\ y.size # 0 => length[c] # 0,
         y = Null \/ (calls[c] # 0 /\ calls'[c] # 0 /\ pc'[c] # "getsize"),
         calls'[c] = calls[c] \/ (pc'[c] = "sending" /\ calls[c] # 0 /\ calls'[c] # 0),
         UNCHANGED <<request_mq_, volume_, length>>, SameTodo \/ \E m, n : NewTodo(m, n),
         pc'[c] \in Calling \ {"getsize"} \/ pc'[c] = pc[c], pc[c] \in Calling
  PROVE  Orderly(c)'
<1>1. acbs'[c][a] = y /\ \A b \in Acbs : b # a => acbs'[c][b] = acbs[c][b]
  BY DEF SetAcb, Shape, ClientTypes
<1>2. Doomed => Doomed'
  BY StillDoomed
<1>3. Served(c)' = Served(c)
  BY DEF Served, serverVars
<1>4. pc'[c] \in Calling /\ pc'[c] \notin NotOpened \cup Opening /\ (pc'[c] = "getsize" => pc[c] = "getsize")
  BY DEF Calling, NotOpened, Opening, Reading
<1>5. pc'[c] = "getsize" => calls'[c] > 0
  BY <1>4 DEF Orderly
<1> QED BY <1>1, <1>2, <1>3, <1>4, <1>5 DEF Orderly

LEMMA OrderlyClient ==
  ASSUME Shape, NEW c \in Clients, ClientStep(c), pc'[c] \notin Dead, Orderly(c)
  PROVE  Orderly(c)'
<1>0. UNCHANGED serverVars /\ Mail(c)
  BY ClientMail DEF ClientStep
<1>1. SameTodo \/ \E m, n : NewTodo(m, n)
  BY <1>0 DEF Mail
<1>2. Doomed => Doomed'
  BY <1>1, StillDoomed
<1>3. ASSUME UNCHANGED <<acbs, request_mq_, volume_, length, calls>>,
             pc'[c] = pc[c] \/ (pc[c] \in {"sending", "submitted"} /\ pc'[c] \in {"idle", "submitted"})
                            \/ pc'[c] = "dtor_delete"
      PROVE  Orderly(c)'
  <2>1. Served(c)' = Served(c)
    BY <1>0, <1>3 DEF Served, serverVars
  <2> QED BY <1>2, <1>3, <2>1 DEF Orderly, Calling, NotOpened, Opening, Reading
<1>4. ASSUME NEW m, PostsCall(c, m) PROVE Orderly(c)'
  BY <1>0, <1>4, OrderlyPosts
<1>5. ASSUME NEW a \in Acbs, NEW x, NEW m, PostsRequest(c, a, x, m) PROVE Orderly(c)'
  BY <1>3, <1>5 DEF PostsRequest, Posts
<1>6. ASSUME NEW a \in Acbs, NEW x, NEW y, NEW m, PostsWrite(c, a, x, y, m) PROVE Orderly(c)'
  <2>1. /\ SetAcb(c, a, y) /\ y.bh /\ pc[c] = "sending" /\ pc'[c] = "submitted" /\ calls' = calls
        /\ x = acbs[c][a] /\ Acb(x) /\ UNCHANGED <<request_mq_, volume_, length>>
    BY <1>6 DEF PostsWrite, WritesAcb, Posts
  <2>2. x # Null
    BY <2>1, AcbFields
  <2>3. calls[c] # 0
    BY <2>1, <2>2 DEF Orderly
  <2> QED BY <1>0, <1>1, <2>1, <2>3, OrderlySets DEF Calling
<1>7. ASSUME NEW m, Receives(c, m) PROVE Orderly(c)'
  BY <1>3, <1>7 DEF Receives, driverVars
<1>8. CASE PostsStop(c)
  BY <1>3, <1>8 DEF PostsStop, driverVars
<1>9. CASE Moves(c)
  BY <1>0, <1>9, OrderlyMoves
<1>10. ASSUME NEW a \in Acbs, NEW x, NEW y, NEW m, CompletesAcb(c, a, x, y, m) PROVE Orderly(c)'
  <2>1. /\ SetAcb(c, a, y) /\ y.bh /\ pc'[c] = pc[c] /\ UNCHANGED <<request_mq_, volume_, length, calls>>
        /\ acbs[c][a] # Null
    BY <1>10 DEF CompletesAcb, driverVars
  <2>2. calls[c] # 0 /\ pc[c] # "getsize" /\ pc[c] \in Calling
    BY <2>1 DEF Orderly, Shape, ClientShape
  <2> QED BY <1>0, <1>1, <2>1, <2>2, OrderlySets
<1>11. ASSUME NEW a \in Acbs, NEW x, NEW y, YieldsAcb(c, a, x, y) PROVE Orderly(c)'
  <2>1. /\ SetAcb(c, a, y) /\ pc[c] = "submitted" /\ pc'[c] = "idle" /\ UNCHANGED <<request_mq_, volume_, length, calls>>
        /\ x = acbs[c][a] /\ x # Null /\ y.bh = x.bh /\ y.size = x.size
    BY <1>11 DEF YieldsAcb, driverVars
  <2>2. calls[c] # 0 /\ (~y.bh /\ y.size # 0 => length[c] # 0)
    BY <2>1 DEF Orderly
  <2> QED BY <1>0, <1>1, <2>1, <2>2, OrderlySets DEF Calling
<1>12. ASSUME NEW a \in Acbs, Frees(c, a) PROVE Orderly(c)'
  <2>1. /\ SetAcb(c, a, Null) /\ pc[c] = "idle" /\ pc'[c] = pc[c] /\ UNCHANGED <<request_mq_, volume_, length, calls>>
    BY <1>12 DEF Frees, driverVars
  <2> QED BY <1>0, <1>1, <2>1, OrderlySets DEF Calling
<1>13. ASSUME NEW a \in Acbs, NEW x, Starts(c, a, x) PROVE Orderly(c)'
  <2>1. /\ SetAcb(c, a, x) /\ pc[c] = "idle" /\ pc'[c] = "sending" /\ UNCHANGED <<request_mq_, volume_, length>>
        /\ calls[c] # 0 /\ calls'[c] # 0 /\ Acb(x)
    BY <1>13 DEF Starts, NewRequest, Submit
  <2>2. x.size # 0 => length[c] # 0
    <3>1. x.offset \in Nat /\ x.size \in 0 .. max_data_size /\ (x.type = "REQ_FSYNC" => x.size = 0)
      BY <2>1, AcbFields DEF Acb
    <3>2. x.type # "REQ_FSYNC" => x.offset + x.size <= length[c]
      BY <1>13 DEF Starts, NewRequest
    <3> QED BY <3>1, <3>2, SharedMemAssumption
  <2> QED BY <1>0, <1>1, <2>1, <2>2, OrderlySets DEF Calling
<1>14. ~Perished(c)
  BY DEF Perished
<1> QED BY <1>4, <1>5, <1>6, <1>7, <1>8, <1>9, <1>10, <1>11, <1>12, <1>13, <1>14, ClientKinds

\* A step of a client queues nothing to the running server, or one message.
LEMMA ClientQueues ==
  ASSUME Shape, NEW c \in Clients, ClientStep(c)
  PROVE  \/ SameTodo /\ view' = view
         \/ \E m, n : Served(c) /\ NewTodo(m, n) /\ PostsCall(c, m)
         \/ \E a \in Acbs : \E x, m, n : Served(c) /\ NewTodo(m, n) /\ PostsRequest(c, a, x, m)
         \/ \E a \in Acbs : \E x, y, m, n : Served(c) /\ NewTodo(m, n) /\ PostsWrite(c, a, x, y, m)
<1>0. UNCHANGED serverVars
  BY DEF ClientStep
<1>1. ASSUME UNCHANGED request_mq, Kept PROVE SameTodo /\ view' = view
  BY <1>0, <1>1, TodoSame DEF Kept
<1>2. ASSUME NEW m, PostsCall(c, m)
      PROVE  (SameTodo /\ view' = view) \/ \E n : Served(c) /\ NewTodo(m, n) /\ PostsCall(c, m)
  <2>1. SameTodo \/ (Served(c) /\ \E n : NewTodo(m, n))
    BY <1>0, <1>2, TodoPosts DEF PostsCall
  <2>2. view' = view
    BY <1>2 DEF PostsCall, Kept
  <2> QED BY <1>2, <2>1, <2>2
<1>3. ASSUME NEW a \in Acbs, NEW x, NEW m, PostsRequest(c, a, x, m)
      PROVE  (SameTodo /\ view' = view) \/ \E n : Served(c) /\ NewTodo(m, n) /\ PostsRequest(c, a, x, m)
  <2>1. SameTodo \/ (Served(c) /\ \E n : NewTodo(m, n))
    BY <1>0, <1>3, TodoPosts DEF PostsRequest
  <2>2. view' = view
    BY <1>3 DEF PostsRequest, NoteRead, NoteFlush
  <2> QED BY <1>3, <2>1, <2>2
<1>4. ASSUME NEW a \in Acbs, NEW x, NEW y, NEW m, PostsWrite(c, a, x, y, m)
      PROVE  (SameTodo /\ view' = view) \/ \E n : Served(c) /\ NewTodo(m, n) /\ PostsWrite(c, a, x, y, m)
  <2>1. (~Served(c) /\ SameTodo) \/ (Served(c) /\ \E n : NewTodo(m, n))
    BY <1>0, <1>4, TodoPosts DEF PostsWrite
  <2>2. ~Served(c) => view' = view
    BY <1>4 DEF PostsWrite, NoteWrite
  <2> QED BY <1>4, <2>1, <2>2
<1>5. ASSUME NEW a \in Acbs, NEW x, NEW y, NEW m, CompletesAcb(c, a, x, y, m) PROVE UNCHANGED request_mq
  BY <1>5 DEF CompletesAcb, queueVars
<1>6. ASSUME NEW a \in Acbs, NEW x, NEW y, YieldsAcb(c, a, x, y) PROVE UNCHANGED request_mq
  BY <1>6 DEF YieldsAcb, queueVars
<1>7. ASSUME NEW a \in Acbs, NEW x, Frees(c, a) \/ Starts(c, a, x) PROVE UNCHANGED request_mq /\ Kept
  BY <1>7 DEF Frees, Starts, queueVars
<1>8. ASSUME PostsStop(c) \/ Moves(c) \/ \E m : Receives(c, m) PROVE UNCHANGED request_mq /\ Kept
  BY <1>8 DEF PostsStop, Moves, Receives
<1>9. ASSUME Perished(c) PROVE UNCHANGED request_mq
  BY <1>9 DEF Perished, queueVars
<1> QED BY <1>1, <1>2, <1>3, <1>4, <1>5, <1>6, <1>7, <1>8, <1>9, ClientKinds

LEMMA DoomClient == ASSUME Shape, AcbInv, DoomInv, NEW c \in Clients, ClientStep(c) PROVE DoomInv'
<1>1. ASSUME NEW d \in Clients, pc'[d] \notin Dead PROVE Orderly(d)'
  <2>1. Orderly(d)
    BY <1>1, DeadStays DEF DoomInv
  <2> QED BY <1>1, <2>1, OrderlyClient, OrderlyOther
<1>2. ASSUME NEW m, NEW n, NewTodo(m, n), Drops(m) => Doomed,
             NEW i \in Todo', Drops(Pending'[i])
      PROVE  \E j \in Todo' : j < i /\ Dooms(j)'
  <2>1. \A j \in Todo : j \in Todo' /\ Pending'[j] = Pending[j] /\ j < n
    BY <1>2 DEF NewTodo
  <2>2. CASE i \in Todo
    <3>1. PICK j \in Todo : j < i /\ Dooms(j)
      BY <1>2, <2>1, <2>2 DEF DoomInv
    <3> QED BY <2>1, <3>1 DEF Dooms
  <2>3. CASE i \notin Todo
    <3>1. i = n /\ Pending'[n] = m /\ Drops(m)
      BY <1>2, <2>3 DEF NewTodo
    <3>2. PICK j \in Todo : Dooms(j)
      BY <1>2, <3>1 DEF Doomed
    <3> QED BY <2>1, <3>1, <3>2 DEF Dooms
  <2> QED BY <2>2, <2>3
<1>3. ASSUME NEW i \in Todo', Drops(Pending'[i]) PROVE \E j \in Todo' : j < i /\ Dooms(j)'
  <2>1. CASE SameTodo
    BY <1>3, <2>1 DEF SameTodo, DoomInv, Dooms
  <2>2. ASSUME NEW m, NEW n, NewTodo(m, n), PostsCall(c, m) PROVE ~Drops(m)
    BY <2>2 DEF PostsCall, Drops
  <2>3. ASSUME NEW m, NEW n, NEW a \in Acbs, NEW x, NewTodo(m, n), PostsRequest(c, a, x, m) PROVE ~Drops(m)
    BY <2>3 DEF PostsRequest, Drops
  <2>4. ASSUME NEW a \in Acbs, NEW x, NEW y, NEW m, Served(c), PostsWrite(c, a, x, y, m), Drops(m) PROVE Doomed
    <3>1. /\ pc[c] = "sending" /\ x = acbs[c][a] /\ Acb(x) /\ x.size # 0 /\ volume_[c] = Null /\ ~x.yielded
          /\ pc[c] \notin Dead
      BY <2>4 DEF PostsWrite, WritesAcb, Drops, Dead
    <3>2. x # Null /\ Orderly(c) /\ Unsent(c)
      BY <3>1, AcbFields DEF DoomInv, AcbInv, Flight
    <3>3. ~x.bh
      BY <3>1, <3>2 DEF Unsent, Running
    <3> QED BY <2>4, <3>1, <3>2, <3>3 DEF Orderly, Calling
  <2> QED BY <1>2, <1>3, <2>1, <2>2, <2>3, <2>4, ClientQueues
<1> QED BY <1>1, <1>3 DEF DoomInv

\* A turn of the loop that is not the end of the server is not about Null.
LEMMA NoDoomTaken == ASSUME Shape, ServerStep, NEW m, Takes(m) PROVE ~(m.type = "REQ_GETSIZE" /\ m.volume = Null)
<1>1. ASSUME NEW k, Takes(k) PROVE k = m
  BY <1>1 DEF Takes
<1>2. ~Stopped /\ ~Started
  BY DEF Takes, Stopped, Started
<1>3. ASSUME NEW k, NEW d, NEW r, TakesOpen(k, d, r) PROVE m.type = "REQ_OPEN"
  BY <1>1, <1>3 DEF TakesOpen
<1>4. ASSUME NEW k, NEW w, NEW r, TakesCall(k, w, r) PROVE m.volume # Null
  BY <1>1, <1>4, SharedMemAssumption DEF TakesCall
<1>5. ASSUME NEW k, TakesQuietly(k) PROVE m.type # "REQ_GETSIZE"
  BY <1>1, <1>5 DEF TakesQuietly
<1> QED BY <1>2, <1>3, <1>4, <1>5, ServerKinds

LEMMA DoomServer == ASSUME Shape, EpochInv, DoomInv, ServerStep PROVE DoomInv'
<1>0. UNCHANGED clientVars /\ UNCHANGED driverVars
  BY DEF ServerStep
<1>1. CASE Stopped \/ Started
  <2>1. Todo' = {}
    BY <1>1, TodoGone
  <2>2. ASSUME NEW c \in Clients, pc'[c] \notin Dead PROVE Orderly(c)'
    <3>1. ~Served(c)'
      BY <1>1, ServedBefore
    <3>2. Orderly(c)
      BY <1>0, <2>2 DEF clientVars, DoomInv
    <3> QED BY <1>0, <3>1, <3>2 DEF clientVars, driverVars, Orderly
  <2> QED BY <2>1, <2>2 DEF DoomInv
<1>2. ASSUME NEW m, Takes(m) PROVE DoomInv'
  <2>1. PICK n : DoneTodo(m, n)
    BY <1>2, TodoTakes
  <2>2. ~Dooms(1)
    BY <1>2, <2>1, NoDoomTaken DEF DoneTodo, Dooms
  <2>3. ASSUME NEW j \in Todo, Dooms(j) PROVE j - 1 \in Todo' /\ Dooms(j - 1)' /\ j \in Int
    <3>1. j # 1 /\ j \in 1 .. n
      BY <2>1, <2>2, <2>3 DEF DoneTodo
    <3>2. j - 1 \in Todo' /\ (j - 1) + 1 = j
      BY <2>1, <3>1 DEF DoneTodo
    <3>3. Pending'[j - 1] = Pending[j]
      BY <2>1, <3>2 DEF DoneTodo
    <3> QED BY <2>3, <3>1, <3>2, <3>3 DEF Dooms
  <2>4. ASSUME NEW c \in Clients, pc'[c] \notin Dead PROVE Orderly(c)'
    <3>1. Served(c)' => Served(c)
      BY ServedBefore
    <3>2. Orderly(c)
      BY <1>0, <2>4 DEF clientVars, DoomInv
    <3>3. Doomed => Doomed'
      BY <2>3 DEF Doomed
    <3> QED BY <1>0, <3>1, <3>2, <3>3 DEF clientVars, driverVars, Orderly
  <2>5. ASSUME NEW i \in Todo', Drops(Pending'[i]) PROVE \E j \in Todo' : j < i /\ Dooms(j)'
    <3>1. i \in Int /\ i + 1 \in Todo /\ Pending'[i] = Pending[i + 1]
      BY <2>1 DEF DoneTodo
    <3>2. PICK j \in Todo : j < i + 1 /\ Dooms(j)
      BY <2>5, <3>1 DEF DoomInv
    <3>3. j - 1 \in Todo' /\ Dooms(j - 1)' /\ j \in Int
      BY <2>3, <3>2
    <3>4. j - 1 < i
      BY <3>1, <3>2, <3>3
    <3> QED BY <3>3, <3>4
  <2> QED BY <2>4, <2>5 DEF DoomInv
<1> QED BY <1>1, <1>2, ServerKinds DEF TakesOpen, TakesCall, TakesQuietly

LEMMA DoomNext == ASSUME Shape, EpochInv, AcbInv, DoomInv, [Next]_vars PROVE DoomInv'
<1>1. CASE UNCHANGED vars
  <2>1. Todo' = Todo /\ Pending' = Pending /\ \A c \in Clients : Served(c)' = Served(c)
    BY <1>1 DEF vars, queueVars, serverVars, clientVars, Todo, Pending, Served
  <2>2. Doomed' = Doomed /\ \A i \in Todo : Dooms(i)' = Dooms(i)
    BY <2>1 DEF Doomed, Dooms
  <2>3. \A c \in Clients : Orderly(c)' = Orderly(c) /\ pc'[c] = pc[c]
    BY <1>1, <2>1, <2>2 DEF vars, clientVars, driverVars, Orderly
  <2> QED BY <2>1, <2>2, <2>3 DEF DoomInv
<1> QED BY <1>1, DoomClient, DoomServer DEF Next

-------------------------------------------------------------------------------
(***************************************************************************)
(* The data.  The history variable view is what the files will be once the *)
(* queue is done (ViewInv); a read will be, or was, answered with what     *)
(* view had when it was queued (Asked, Delivers), and that is what its     *)
(* CVBDAIOCB has in the end.                                               *)
(***************************************************************************)
ViewInv ==
  IF server = "up"
  THEN \A v \in Volumes : \A p \in 0 .. FileSize - 1 :
         ByteAfter(disk[v][p], Pending, Len(Pending), v, p, view[v][p])
  ELSE view = disk

IsArray(f, n) == f = [k \in 0 .. n - 1 |-> f[k]]

\* c is due, for its request m, which is the i-th of the queue, these bytes f.
Promises(c, m, i, f) ==
  /\ IsArray(f, m.size)
  /\ \A k \in 0 .. m.size - 1 : m.offset + k \in 0 .. FileSize - 1 =>
       ByteAfter(disk[VolumeOf[c]][m.offset + k], Pending, i, VolumeOf[c], m.offset + k, f[k])

Contains(r, f) == IsArray(f, r.size) /\ \A k \in 0 .. r.size - 1 : r.data[k] = f[k]

IsRead(m) == m.type = "REQ_READ"
Reads(c, i) == Pending[i].from = c /\ IsRead(Pending[i])
Asked(c, i) ==
  LET m == Pending[i] IN m.size = acbs[c][m.acb].size /\ Promises(c, m, i, due[c][m.acb].bytes)
Delivers(c, r) == r.size = acbs[c][r.acb].size /\ Contains(r, due[c][r.acb].bytes)
Fulfilled(c, a) == acbs[c][a].ret = 0 /\ acbs[c][a].buf = due[c][a].bytes

ReadInv(c) ==
  pc[c] \notin Dead =>
    /\ \A i \in Todo : Reads(c, i) => Asked(c, i)
    /\ \A i \in Places(c) : IsRead(reply_mq[c][i]) => Delivers(c, reply_mq[c][i])
    /\ Tells(c) /\ IsRead(reply_msg_[c]) => Delivers(c, reply_msg_[c])
    /\ \A a \in Acbs : acbs[c][a] # Null /\ IsRead(acbs[c][a]) /\ acbs[c][a].bh => Fulfilled(c, a)

DataInv == ViewInv /\ \A c \in Clients : ReadInv(c)

LEMMA DataInit == Init => DataInv
<1> SUFFICES ASSUME Init PROVE DataInv
  OBVIOUS
<1>1. Todo = {} /\ ViewInv
  BY DEF Init, ServerInit, Todo, ViewInv
<1>2. ASSUME NEW c \in Clients PROVE ReadInv(c)
  <2>1. reply_mq[c] = << >> /\ thr[c] = "none" /\ \A a \in Acbs : acbs[c][a] = Null
    BY DEF Init, ClientInit, QueuesInit
  <2>2. Len(<< >>) = 0
    OBVIOUS
  <2>3. Places(c) = 1 .. 0
    BY <2>1, <2>2 DEF Places
  <2> QED BY <1>1, <2>1, <2>3 DEF ReadInv, Tells
<1> QED BY <1>1, <1>2 DEF DataInv

\* A request that waits keeps its size and what it is due.
LEMMA WaitingKeeps ==
  ASSUME Shape, NEW c \in Clients, ClientStep(c), NEW d \in Clients, NEW b \in Acbs,
         Waiting(d, b), Waiting(d, b)'
  PROVE  acbs'[d][b].size = acbs[d][b].size /\ due'[d][b] = due[d][b]
<1>1. due'[d][b] = due[d][b]
  BY ClientDue DEF Waiting
<1>2. acbs'[d][b].size = acbs[d][b].size
  <2>1. CASE acbs'[d][b] = acbs[d][b]
    BY <2>1
  <2>2. CASE d # c
    BY <2>2, ShapeClient DEF Others
  <2>3. ASSUME d = c, acbs'[c][b] # acbs[c][b] PROVE acbs'[c][b].size = acbs[c][b].size
    <3>1. ASSUME NEW a \in Acbs, NEW y, SetAcb(c, a, y) PROVE a = b /\ acbs'[c][b] = y
      BY <2>3, <3>1 DEF Shape, ClientTypes, SetAcb
    <3>2. ASSUME NEW a \in Acbs, NEW x, NEW y, NEW m, PostsWrite(c, a, x, y, m) PROVE FALSE
      BY <2>3, <3>1, <3>2 DEF PostsWrite, WritesAcb, Waiting
    <3>3. ASSUME NEW a \in Acbs, NEW x, NEW y, NEW m, CompletesAcb(c, a, x, y, m) PROVE acbs'[c][b].size = acbs[c][b].size
      BY <3>1, <3>3 DEF CompletesAcb
    <3>4. ASSUME NEW a \in Acbs, NEW x, NEW y, YieldsAcb(c, a, x, y) PROVE acbs'[c][b].size = acbs[c][b].size
      BY <3>1, <3>4 DEF YieldsAcb
    <3>5. ASSUME NEW a \in Acbs, Frees(c, a) PROVE FALSE
      BY <2>3, <3>1, <3>5 DEF Frees, Waiting
    <3>6. ASSUME NEW a \in Acbs, NEW x, Starts(c, a, x) PROVE FALSE
      <4>1. a = b
        BY <3>1, <3>6 DEF Starts, NewRequest, Submit
      <4> QED BY <2>3, <3>6, <4>1 DEF Starts, Waiting
    <3>7. ~Perished(c)
      BY <2>3 DEF Perished, Waiting
    <3> QED BY <2>3, <3>2, <3>3, <3>4, <3>5, <3>6, <3>7, ClientKinds DEF PostsCall, PostsRequest, Receives, PostsStop, Moves
  <2> QED BY <2>1, <2>2, <2>3
<1> QED BY <1>1, <1>2

LEMMA Appended ==
  ASSUME Shape, NEW c \in Clients, UNCHANGED serverVars, Served(c), NEW m, Posts(c, m), NEW n, NewTodo(m, n)
  PROVE  /\ Pending \in Seq(Request) /\ m \in Request /\ Pending' = Append(Pending, m)
         /\ Len(Pending) = n - 1 /\ Len(Pending') = n /\ n \in Nat \ {0} /\ server = "up" /\ server' = "up"
<1>1. server = "up" /\ request_mq_[c] = epoch /\ server' = "up" /\ epoch' = epoch
  BY DEF Served, serverVars
<1>2. epoch \in Epochs /\ Pending \in Seq(Request)
  BY <1>1, EpochUp
<1>3. Pending' = Append(Pending, m)
  BY <1>1, <1>2 DEF Posts, Pending, Shape, QueuesTypeOK
<1>4. Len(Pending') = Len(Pending) + 1 /\ Len(Pending) \in Nat
  BY <1>2, <1>3, AppendFacts
<1>5. 1 .. Len(Pending) = 1 .. (n - 1) /\ n \in Nat \ {0}
  BY <1>1 DEF NewTodo, Todo
<1>6. Len(Pending) = n - 1
  <2>1. ASSUME NEW j \in Nat, NEW k \in Nat, 1 .. j = 1 .. k PROVE j = k
    <3>1. j > 0 => j \in 1 .. k
      BY <2>1
    <3>2. k > 0 => k \in 1 .. j
      BY <2>1
    <3> QED BY <3>1, <3>2
  <2>2. n - 1 \in Nat
    BY <1>5
  <2> QED BY <1>4, <1>5, <2>1, <2>2
<1> QED BY <1>1, <1>2, <1>3, <1>4, <1>5, <1>6 DEF Posts

LEMMA ByteSame ==
  ASSUME NEW q, NEW r, NEW n, \A i \in 1 .. n : i \in Int /\ r[i] = q[i], NEW b, NEW v, NEW p, NEW x,
         n \in Nat, ByteAfter(b, q, n, v, p, x)
  PROVE  ByteAfter(b, r, n, v, p, x)
<1>1. CASE x = b /\ \A i \in 1 .. n : ~Covers(q[i], v, p)
  BY <1>1 DEF ByteAfter
<1>2. ASSUME NEW i \in 1 .. n, Covers(q[i], v, p), x = q[i].data[p - q[i].offset],
             \A j \in (i + 1) .. n : ~Covers(q[j], v, p)
      PROVE  ByteAfter(b, r, n, v, p, x)
  <2>1. \A j \in (i + 1) .. n : j \in 1 .. n
    OBVIOUS
  <2> QED BY <1>2, <2>1 DEF ByteAfter
<1> QED BY <1>1, <1>2 DEF ByteAfter

LEMMA SamePlaces ==
  ASSUME Shape, Shape', UNCHANGED serverVars, SameTodo, server = "up"
  PROVE  /\ Len(Pending') = Len(Pending) /\ Len(Pending) \in Nat
         /\ \A i \in 1 .. Len(Pending) : i \in Int /\ Pending'[i] = Pending[i]
<1>1. server' = "up" /\ Pending \in Seq(Request)
  BY EpochUp DEF serverVars
<1>2. Pending' \in Seq(Request)
  BY <1>1 DEF Pending, Shape, QueuesTypeOK, ServerTypeOK, Epochs
<1>3. Len(Pending) \in Nat /\ Len(Pending') \in Nat
  BY <1>1, <1>2
<1>4. 1 .. Len(Pending') = 1 .. Len(Pending) /\ \A i \in 1 .. Len(Pending) : Pending'[i] = Pending[i]
  BY <1>1 DEF SameTodo, Todo
<1>5. ASSUME NEW j \in Nat, NEW k \in Nat, 1 .. j = 1 .. k PROVE j = k
  <2>1. j > 0 => j \in 1 .. k
    BY <1>5
  <2>2. k > 0 => k \in 1 .. j
    BY <1>5
  <2> QED BY <2>1, <2>2
<1> QED BY <1>3, <1>4, <1>5

\* What a write adds to view.
LEMMA WriteViewed ==
  ASSUME Shape, NEW c \in Clients, Served(c), NEW a \in Acbs, NEW x, NEW y, NEW m, PostsWrite(c, a, x, y, m),
         NEW v \in Volumes, NEW p \in 0 .. FileSize - 1
  PROVE  view'[v][p] = ByteOf(m, v, p, view[v][p])
<1>1. PICK u \in Volumes : u = VolumeOf[c] /\ u = m.name
  BY SharedMemAssumption DEF PostsWrite, WritesAcb
<1>2. /\ x = acbs[c][a] /\ m.type = "REQ_WRITE" /\ m.offset = x.offset /\ m.size = x.size /\ Acb(x)
      /\ \A k \in 0 .. x.size - 1 : m.data[k] = x.buf[k]
  BY DEF PostsWrite, WritesAcb
<1>3. view' = [view EXCEPT ![u] = Overwrite(@, x.offset, x.buf, x.size)]
  BY <1>1, <1>2 DEF PostsWrite, NoteWrite
<1>4. view \in [Volumes -> [0 .. FileSize - 1 -> Val]]
  BY DEF Shape, HistoryTypes
<1>5. CASE v # u
  BY <1>1, <1>3, <1>4, <1>5 DEF ByteOf, Covers
<1>6. CASE v = u
  <2>1. view'[v] = Overwrite(view[v], x.offset, x.buf, x.size) /\ p \in DOMAIN view[v]
    BY <1>3, <1>4, <1>6
  <2>2. view'[v][p] = IF p \in x.offset .. (x.offset + x.size - 1) THEN x.buf[p - x.offset] ELSE view[v][p]
    BY <2>1 DEF Overwrite
  <2>3. x.offset \in Nat /\ x.size \in Nat
    BY <1>2, AcbFields, SharedMemAssumption
  <2>4. ASSUME p \in x.offset .. (x.offset + x.size - 1) PROVE x.buf[p - x.offset] = m.data[p - m.offset]
    <3>1. p - x.offset \in 0 .. x.size - 1
      BY <2>3, <2>4
    <3> QED BY <1>2, <3>1
  <2> QED BY <1>1, <1>2, <1>6, <2>2, <2>4 DEF ByteOf, Covers
<1> QED BY <1>5, <1>6

LEMMA ViewClient == ASSUME Shape, Shape', ViewInv, NEW c \in Clients, ClientStep(c) PROVE ViewInv'
<1>0. UNCHANGED serverVars
  BY DEF ClientStep
<1>1. CASE SameTodo /\ view' = view
  <2>1. CASE server # "up"
    BY <1>0, <1>1, <2>1 DEF serverVars, ViewInv
  <2>2. CASE server = "up"
    <3>1. /\ Len(Pending') = Len(Pending) /\ Len(Pending) \in Nat
          /\ \A i \in 1 .. Len(Pending) : i \in Int /\ Pending'[i] = Pending[i]
      BY <1>0, <1>1, <2>2, SamePlaces
    <3>2. ASSUME NEW v \in Volumes, NEW p \in 0 .. FileSize - 1
          PROVE  ByteAfter(disk[v][p], Pending', Len(Pending'), v, p, view'[v][p])
      <4>1. ByteAfter(disk[v][p], Pending, Len(Pending), v, p, view[v][p])
        BY <2>2 DEF ViewInv
      <4> QED BY <1>1, <3>1, <4>1, ByteSame
    <3>3. server' = "up" /\ disk' = disk
      BY <1>0, <2>2 DEF serverVars
    <3> QED BY <3>2, <3>3 DEF ViewInv, ByteAfter
  <2> QED BY <2>1, <2>2
<1>2. ASSUME NEW m, NEW n, Served(c), NewTodo(m, n), Posts(c, m),
             \A v \in Volumes : \A p \in 0 .. FileSize - 1 : view'[v][p] = ByteOf(m, v, p, view[v][p])
      PROVE  ViewInv'
  <2>1. /\ Pending \in Seq(Request) /\ m \in Request /\ Pending' = Append(Pending, m)
        /\ Len(Pending) = n - 1 /\ Len(Pending') = n /\ n \in Nat \ {0} /\ server = "up" /\ server' = "up"
    BY <1>0, <1>2, Appended
  <2>2. n - 1 \in 0 .. Len(Pending) /\ (n - 1) + 1 = n
    BY <2>1
  <2>3. ASSUME NEW v \in Volumes, NEW p \in 0 .. FileSize - 1
        PROVE  ByteAfter(disk[v][p], Pending', Len(Pending'), v, p, view'[v][p])
    <3>1. ByteAfter(disk[v][p], Pending, n - 1, v, p, view[v][p])
      BY <2>1 DEF ViewInv
    <3>2. ByteAfter(disk[v][p], Append(Pending, m), (n - 1) + 1, v, p, ByteOf(m, v, p, view[v][p]))
      BY <2>1, <2>2, <3>1, ByteAppend
    <3> QED BY <1>2, <2>1, <2>2, <3>2
  <2>4. disk' = disk
    BY <1>0 DEF serverVars
  <2> QED BY <2>1, <2>3, <2>4 DEF ViewInv, ByteAfter
<1>3. ASSUME NEW m, m.type # "REQ_WRITE", view' = view
      PROVE  \A v \in Volumes : \A p \in 0 .. FileSize - 1 : view'[v][p] = ByteOf(m, v, p, view[v][p])
  BY <1>3 DEF ByteOf, Covers
<1>4. ASSUME NEW m, NEW n, Served(c), NewTodo(m, n), PostsCall(c, m) PROVE ViewInv'
  <2>1. m.type # "REQ_WRITE" /\ view' = view /\ Posts(c, m)
    BY <1>4 DEF PostsCall, Kept
  <2> QED BY <1>2, <1>3, <1>4, <2>1
<1>5. ASSUME NEW a \in Acbs, NEW x, NEW m, NEW n, Served(c), NewTodo(m, n), PostsRequest(c, a, x, m) PROVE ViewInv'
  <2>1. m.type # "REQ_WRITE" /\ view' = view /\ Posts(c, m)
    BY <1>5 DEF PostsRequest, NoteRead, NoteFlush
  <2> QED BY <1>2, <1>3, <1>5, <2>1
<1>6. ASSUME NEW a \in Acbs, NEW x, NEW y, NEW m, NEW n, Served(c), NewTodo(m, n), PostsWrite(c, a, x, y, m)
      PROVE  ViewInv'
  <2>1. Posts(c, m)
    BY <1>6 DEF PostsWrite
  <2> QED BY <1>2, <1>6, <2>1, WriteViewed
<1> QED BY <1>1, <1>4, <1>5, <1>6, ClientQueues

\* Nothing is changed in front of a read that waits in the queue.
LEMMA PromiseKept ==
  ASSUME Shape, UNCHANGED serverVars, NEW i \in Todo, \A j \in Todo : Pending'[j] = Pending[j],
         NEW d, NEW m, NEW f, Promises(d, m, i, f)
  PROVE  Promises(d, m, i, f)'
<1>1. server = "up" /\ i \in 1 .. Len(Pending)
  BY DEF Todo
<1>2. Len(Pending) \in Nat
  BY <1>1, EpochUp
<1>3. i \in Nat /\ \A j \in 1 .. i : j \in Int /\ j \in 1 .. Len(Pending)
  BY <1>1, <1>2
<1>4. \A j \in 1 .. i : j \in Int /\ Pending'[j] = Pending[j]
  BY <1>1, <1>3 DEF Todo
<1>5. ASSUME NEW k \in 0 .. m.size - 1, m.offset + k \in 0 .. FileSize - 1
      PROVE  ByteAfter(disk[VolumeOf[d]][m.offset + k], Pending', i, VolumeOf[d], m.offset + k, f[k])
  <2>1. ByteAfter(disk[VolumeOf[d]][m.offset + k], Pending, i, VolumeOf[d], m.offset + k, f[k])
    BY <1>5 DEF Promises
  <2> QED BY <1>3, <1>4, <2>1, ByteSame
<1>6. disk' = disk
  BY DEF serverVars
<1> QED BY <1>5, <1>6 DEF Promises, IsArray, ByteAfter

\* A read is due what view has when it is queued.
LEMMA ReadDue ==
  ASSUME Shape, NEW c \in Clients, NEW a \in Acbs, NoteRead(c, a), NEW x, x = acbs[c][a], NEW f, f = due'[c][a].bytes
  PROVE  /\ IsArray(f, x.size)
         /\ \A k \in 0 .. x.size - 1 : x.offset + k \in 0 .. FileSize - 1 => f[k] = view[VolumeOf[c]][x.offset + k]
<1>1. PICK g : /\ g = [k \in 0 .. x.size - 1 |->
                        IF x.offset + k \in DOMAIN view[VolumeOf[c]] THEN view[VolumeOf[c]][x.offset + k] ELSE Null]
               /\ due' = [due EXCEPT ![c][a].bytes = g]
  BY DEF NoteRead
<1>2. f = g
  <2>1. due[c][a] = [bytes |-> due[c][a].bytes, writes |-> due[c][a].writes] /\ DOMAIN due = Clients /\ DOMAIN due[c] = Acbs
    BY DEF Shape, HistoryTypes
  <2>2. due'[c][a] = [due[c][a] EXCEPT !.bytes = g]
    BY <1>1, <2>1
  <2>3. [due[c][a] EXCEPT !.bytes = g] = [bytes |-> g, writes |-> due[c][a].writes]
    BY <2>1
  <2> QED BY <2>2, <2>3
<1>3. DOMAIN view[VolumeOf[c]] = 0 .. FileSize - 1
  BY SharedMemAssumption DEF Shape, HistoryTypes
<1>4. \A k \in 0 .. x.size - 1 : x.offset + k \in 0 .. FileSize - 1 => g[k] = view[VolumeOf[c]][x.offset + k]
  BY <1>1, <1>3
<1>5. IsArray(g, x.size)
  BY <1>1 DEF IsArray
<1> QED BY <1>2, <1>4, <1>5

LEMMA NewPromise ==
  ASSUME Shape, ViewInv, NEW c \in Clients, UNCHANGED serverVars, Served(c), NEW m, NEW n, NewTodo(m, n),
         NEW a \in Acbs, NEW x, PostsRequest(c, a, x, m), IsRead(m), NEW f, f = due'[c][a].bytes
  PROVE  m.size = x.size /\ Promises(c, m, n, f)'
<1>1. Posts(c, m) /\ m.offset = x.offset /\ m.size = x.size /\ NoteRead(c, a) /\ x = acbs[c][a]
  BY DEF PostsRequest, IsRead
<1>2. /\ Pending \in Seq(Request) /\ m \in Request /\ Pending' = Append(Pending, m)
      /\ Len(Pending) = n - 1 /\ Len(Pending') = n /\ n \in Nat \ {0} /\ server = "up"
  BY <1>1, Appended
<1>3. /\ IsArray(f, m.size)
      /\ \A k \in 0 .. m.size - 1 : m.offset + k \in 0 .. FileSize - 1 => f[k] = view[VolumeOf[c]][m.offset + k]
  BY <1>1, ReadDue
<1>4. n - 1 \in 0 .. Len(Pending) /\ (n - 1) + 1 = n
  BY <1>2
<1>5. ASSUME NEW k \in 0 .. m.size - 1, m.offset + k \in 0 .. FileSize - 1
      PROVE  ByteAfter(disk[VolumeOf[c]][m.offset + k], Pending', n, VolumeOf[c], m.offset + k, f[k])
  <2>1. PICK v \in Volumes : v = VolumeOf[c]
    BY SharedMemAssumption
  <2>2. PICK p \in 0 .. FileSize - 1 : p = m.offset + k
    BY <1>5
  <2>3. ByteAfter(disk[v][p], Pending, n - 1, v, p, view[v][p])
    BY <1>2 DEF ViewInv
  <2>4. ByteAfter(disk[v][p], Append(Pending, m), (n - 1) + 1, v, p, ByteOf(m, v, p, view[v][p]))
    BY <1>2, <1>4, <2>3, ByteAppend
  <2>5. ByteOf(m, v, p, view[v][p]) = f[k]
    BY <1>3, <1>5, <2>1, <2>2 DEF ByteOf, Covers, IsRead
  <2> QED BY <1>2, <1>4, <2>1, <2>2, <2>4, <2>5
<1>6. disk' = disk
  BY DEF serverVars
<1> QED BY <1>1, <1>3, <1>5, <1>6 DEF Promises, IsArray, ByteAfter

LEMMA StillDelivers ==
  ASSUME Shape, NEW c \in Clients, ClientStep(c), NEW d \in Clients, NEW r, About(d, r), About(d, r)', Delivers(d, r)
  PROVE  Delivers(d, r)'
<1>1. acbs'[d][r.acb].size = acbs[d][r.acb].size /\ due'[d][r.acb] = due[d][r.acb]
  BY WaitingKeeps DEF About
<1> QED BY <1>1 DEF Delivers, Contains, IsArray

LEMMA AskedClient ==
  ASSUME Shape, AcbInv, AcbInv', DataInv, NEW c \in Clients, ClientStep(c), NEW d \in Clients, pc'[d] \notin Dead,
         NEW i \in Todo', Reads(d, i)'
  PROVE  Asked(d, i)'
<1>0. UNCHANGED serverVars /\ pc[d] \notin Dead /\ ReadInv(d) /\ AllLive(d) /\ AllLive(d)' /\ ViewInv
  BY DeadStays DEF ClientStep, DataInv, AcbInv, Flight
<1>1. PICK m : m = Pending'[i]
  OBVIOUS
<1>2. m.from = d /\ IsRead(m) /\ About(d, m)'
  BY <1>0, <1>1 DEF Reads, IsRead, AllLive, Asks, Completes, About, Waiting
<1>3. ASSUME i \in Todo, \A j \in Todo : Pending'[j] = Pending[j] PROVE Asked(d, i)'
  <2>1. Pending[i] = m /\ Asks(d, i) /\ Reads(d, i)
    BY <1>1, <1>2, <1>3 DEF Asks, Completes, Reads, IsRead
  <2>2. About(d, m) /\ Asked(d, i)
    BY <1>0, <1>3, <2>1 DEF AllLive, ReadInv
  <2>3. acbs'[d][m.acb].size = acbs[d][m.acb].size /\ due'[d][m.acb] = due[d][m.acb]
    BY <1>2, <2>2, WaitingKeeps DEF About
  <2>4. PICK f : f = due[d][m.acb].bytes
    OBVIOUS
  <2>5. m.size = acbs[d][m.acb].size /\ Promises(d, m, i, f)
    BY <2>1, <2>2, <2>4 DEF Asked
  <2>6. Promises(d, m, i, f)'
    BY <1>0, <1>3, <2>5, PromiseKept
  <2> QED BY <1>1, <2>3, <2>4, <2>5, <2>6 DEF Asked, Promises, IsArray
<1>4. CASE SameTodo
  BY <1>3, <1>4 DEF SameTodo
<1>5. ASSUME NEW q, NEW n, NewTodo(q, n) PROVE (i \in Todo /\ \A j \in Todo : Pending'[j] = Pending[j]) \/ (i = n /\ q = m)
  BY <1>1, <1>5 DEF NewTodo
<1>6. ASSUME NEW q, NEW n, NewTodo(q, n), PostsCall(c, q) PROVE Asked(d, i)'
  BY <1>2, <1>3, <1>5, <1>6 DEF PostsCall, IsRead
<1>7. ASSUME NEW a \in Acbs, NEW x, NEW y, NEW q, NEW n, NewTodo(q, n), PostsWrite(c, a, x, y, q) PROVE Asked(d, i)'
  BY <1>2, <1>3, <1>5, <1>7 DEF PostsWrite, WritesAcb, IsRead
<1>8. ASSUME NEW a \in Acbs, NEW x, NEW q, NEW n, Served(c), NewTodo(q, n), PostsRequest(c, a, x, q) PROVE Asked(d, i)'
  <2>1. CASE i = n /\ q = m
    <3>1. d = c /\ m.acb = a /\ acbs' = acbs /\ x = acbs[c][a]
      BY <1>2, <1>8, <2>1 DEF PostsRequest, Posts
    <3>2. PICK f : f = due'[c][a].bytes
      OBVIOUS
    <3>3. m.size = x.size /\ Promises(c, m, n, f)'
      BY <1>0, <1>2, <1>8, <2>1, <3>2, NewPromise
    <3> QED BY <1>1, <2>1, <3>1, <3>2, <3>3 DEF Asked, Promises, IsArray
  <2> QED BY <1>3, <1>5, <1>8, <2>1
<1> QED BY <1>4, <1>6, <1>7, <1>8, ClientQueues

\* A read that is completed has what the reply brings.
LEMMA CompletedRead ==
  ASSUME NEW x, NEW y, NEW m, NEW f, CompletedBy(x, m, y), IsRead(m), m.size = x.size, Contains(m, f), x.size \in Nat
  PROVE  y.ret = 0 /\ y.buf = f
<1>1. y.ret = 0 /\ y.buf = [k \in 0 .. x.size - 1 |-> IF k < m.size THEN m.data[k] ELSE x.buf[k]]
  BY DEF CompletedBy, IsRead
<1>2. f = [k \in 0 .. x.size - 1 |-> f[k]] /\ \A k \in 0 .. x.size - 1 : m.data[k] = f[k]
  BY DEF Contains, IsArray
<1>3. \A k \in 0 .. x.size - 1 : k < m.size
  OBVIOUS
<1>4. y.buf = [k \in 0 .. x.size - 1 |-> f[k]]
  BY <1>1, <1>2, <1>3
<1> QED BY <1>1, <1>2, <1>4

LEMMA ReadClient ==
  ASSUME Shape, AcbInv, AcbInv', DataInv, NEW c \in Clients, ClientStep(c), NEW d \in Clients
  PROVE  ReadInv(d)'
<1> SUFFICES ASSUME pc'[d] \notin Dead PROVE ReadInv(d)'
  BY DEF ReadInv
<1>0. /\ pc[d] \notin Dead /\ Others(c) /\ ReadInv(d) /\ AllLive(d) /\ AllLive(d)' /\ Unsent(d)
  BY DeadStays, ShapeClient DEF DataInv, AcbInv, Flight
<1>1. ASSUME NEW i \in Todo', Reads(d, i)' PROVE Asked(d, i)'
  BY <1>1, AskedClient
<1>2. ASSUME NEW i \in Places(d)', IsRead(reply_mq'[d][i]) PROVE Delivers(d, reply_mq[d][i])'
  <2>1. PICK j \in Places(d) : reply_mq[d][j] = reply_mq'[d][i]
    BY <1>2, OldReply DEF IsRead
  <2>2. PICK r : r = reply_mq[d][j]
    OBVIOUS
  <2>3. About(d, r) /\ About(d, r)' /\ Delivers(d, r)
    BY <1>0, <1>2, <2>1, <2>2 DEF AllLive, Answers, Completes, ReadInv, About, IsRead
  <2>4. Delivers(d, r)'
    BY <2>3, StillDelivers
  <2> QED BY <2>1, <2>2, <2>4 DEF Delivers, Contains, IsArray
<1>3. ASSUME Tells(d)', IsRead(reply_msg_'[d]) PROVE Delivers(d, reply_msg_[d])'
  <2>1. PICK r : r = reply_msg_'[d]
    OBVIOUS
  <2>2. About(d, r)'
    BY <1>0, <1>3, <2>1 DEF AllLive, About
  <2>3. ASSUME About(d, r), Delivers(d, r) PROVE Delivers(d, reply_msg_[d])'
    <3>1. Delivers(d, r)'
      BY <2>2, <2>3, StillDelivers
    <3> QED BY <2>1, <3>1 DEF Delivers, Contains, IsArray
  <2>4. CASE Tells(d) /\ reply_msg_'[d] = reply_msg_[d]
    <3>1. About(d, r) /\ Delivers(d, r)
      BY <1>0, <1>3, <2>1, <2>4 DEF AllLive, ReadInv
    <3> QED BY <2>3, <3>1
  <2>5. ASSUME d = c, NEW m, Receives(c, m) PROVE Delivers(d, reply_msg_[d])'
    <3>1. m = r /\ \E n : TakenReply(c, m, n)
      BY <2>1, <2>5, RepliesTaken DEF Receives
    <3>2. 1 \in Places(d) /\ reply_mq[d][1] = r
      BY <2>5, <3>1 DEF TakenReply, Places
    <3>3. About(d, r) /\ Delivers(d, r)
      BY <1>0, <1>3, <2>1, <3>2 DEF AllLive, Answers, Completes, ReadInv, IsRead
    <3> QED BY <2>3, <3>3
  <2>6. d # c => Tells(d) /\ reply_msg_'[d] = reply_msg_[d]
    BY <1>0, <1>3 DEF Others, Tells
  <2> QED BY <1>3, <2>4, <2>5, <2>6, ClientTells
<1>4. ASSUME NEW a \in Acbs, acbs'[d][a] # Null, IsRead(acbs'[d][a]), acbs'[d][a].bh PROVE Fulfilled(d, a)'
  <2>1. CASE WasDone(d, a)
    <3>1. Fulfilled(d, a) /\ ~(pc[d] = "sending" /\ Running(d, a))
      BY <1>0, <1>4, <2>1 DEF WasDone, ReadInv, Unsent, IsRead
    <3>2. due'[d][a] = due[d][a]
      BY <1>4, <3>1, ClientDue
    <3> QED BY <2>1, <3>1, <3>2 DEF WasDone, Fulfilled
  <2>2. ASSUME d = c, NEW x, NEW y, NEW m, CompletesAcb(c, a, x, y, m) PROVE Fulfilled(d, a)'
    <3>1. Tells(c) /\ m = reply_msg_[c] /\ m.acb = a /\ x = acbs[c][a] /\ Acb(x) /\ CompletedBy(x, m, y) /\ y.type = x.type
      BY <2>2 DEF CompletesAcb, Tells, Completes
    <3>2. About(c, m)
      BY <1>0, <2>2, <3>1 DEF AllLive
    <3>3. acbs'[c][a] = y
      BY <2>2 DEF CompletesAcb, SetAcb, Shape, ClientTypes
    <3>4. IsRead(m) /\ x.size \in Nat
      BY <1>4, <2>2, <3>1, <3>2, <3>3, AcbFields, SharedMemAssumption DEF About, IsRead
    <3>5. Delivers(c, m)
      BY <1>0, <2>2, <3>1, <3>4 DEF ReadInv
    <3>6. due'[c][a] = due[c][a]
      BY <1>4, <2>2, <3>1, <3>2, ClientDue DEF About, Waiting
    <3>7. PICK f : f = due[c][a].bytes
      OBVIOUS
    <3>8. m.size = x.size /\ Contains(m, f)
      BY <3>1, <3>5, <3>7 DEF Delivers
    <3>9. y.ret = 0 /\ y.buf = f
      BY <3>1, <3>4, <3>8, CompletedRead
    <3> QED BY <2>2, <3>3, <3>6, <3>7, <3>9 DEF Fulfilled
  <2>3. d # c => acbs'[d] = acbs[d]
    BY <1>0 DEF Others
  <2>4. d # c => WasDone(d, a)
    BY <1>4, <2>3 DEF WasDone
  <2>5. acbs'[d][a].type # "REQ_WRITE"
    BY <1>4 DEF IsRead
  <2> QED BY <1>4, <2>1, <2>2, <2>4, <2>5, ClientDone
<1> QED BY <1>1, <1>2, <1>3, <1>4 DEF ReadInv

\* A turn of the server does to the files what its request says.
LEMMA DiskAfter ==
  ASSUME Shape, PtrInv, DoomInv, NEW m, NEW d, NEW w, NEW r, TakesOpen(m, d, r) \/ TakesCall(m, w, r) \/ TakesQuietly(m),
         NEW v \in Volumes, NEW p \in 0 .. FileSize - 1
  PROVE  disk'[v][p] = ByteOf(m, v, p, disk[v][p])
<1>0. Takes(m) /\ m \in Request
  BY DEF TakesOpen, TakesCall, TakesQuietly, Takes
<1>1. CASE m.type # "REQ_WRITE" /\ disk' = disk
  BY <1>1 DEF ByteOf, Covers
<1>2. CASE m.type = "REQ_WRITE" /\ m.volume = Null /\ disk' = disk
  <2>1. PICK n : DoneTodo(m, n)
    BY <1>0, TodoTakes
  <2>2. 1 \in Todo /\ Pending[1] = m /\ \A j \in Todo : ~(j < 1)
    BY <2>1 DEF DoneTodo
  <2>3. m.size = 0 /\ m.offset \in Nat
    BY <1>0, <1>2, <2>2 DEF DoomInv, Drops, Request
  <2>4. ~(p \in m.offset .. (m.offset + m.size - 1))
    BY <2>3
  <2> QED BY <1>2, <2>4 DEF ByteOf, Covers
<1>3. ASSUME m.type = "REQ_WRITE", NEW u \in Clients, m.volume = u, vols[u] # Null,
             disk' = [disk EXCEPT ![vols[u].file] = Overwrite(@, m.offset, m.data, m.size)]
      PROVE  disk'[v][p] = ByteOf(m, v, p, disk[v][p])
  <2>1. vols[u].file = m.name
    BY <1>0, <1>3, GoesHome
  <2>2. disk \in [Volumes -> [0 .. FileSize - 1 -> Val]]
    BY DEF Shape, ServerTypeOK
  <2>3. CASE v # m.name
    BY <1>3, <2>1, <2>2, <2>3 DEF ByteOf, Covers
  <2>4. CASE v = m.name
    <3>1. disk'[v] = Overwrite(disk[v], m.offset, m.data, m.size) /\ p \in DOMAIN disk[v]
      BY <1>3, <2>1, <2>2, <2>4
    <3>2. disk'[v][p] = IF p \in m.offset .. (m.offset + m.size - 1) THEN m.data[p - m.offset] ELSE disk[v][p]
      BY <3>1 DEF Overwrite
    <3> QED BY <1>3, <2>4, <3>2 DEF ByteOf, Covers
  <2> QED BY <2>3, <2>4
<1>4. CASE TakesOpen(m, d, r) \/ TakesCall(m, w, r)
  BY <1>1, <1>4 DEF TakesOpen, TakesCall
<1>5. CASE TakesQuietly(m)
  BY <1>1, <1>2, <1>3, <1>5 DEF TakesQuietly
<1> QED BY <1>4, <1>5

\* Every byte that is still to come moves one place up.
Advances ==
  /\ server = "up" /\ server' = "up" /\ Pending \in Seq(Request) /\ Len(Pending) \in Nat \ {0}
  /\ Len(Pending') = Len(Pending) - 1 /\ Len(Pending') \in Nat
  /\ \A v \in Volumes : \A p \in 0 .. FileSize - 1 : \A n \in 1 .. Len(Pending) : \A x :
       ByteAfter(disk[v][p], Pending, n, v, p, x) => ByteAfter(disk'[v][p], Pending', n - 1, v, p, x)

LEMMA TurnAdvances ==
  ASSUME Shape, PtrInv, DoomInv, NEW m, NEW d, NEW w, NEW r, TakesOpen(m, d, r) \/ TakesCall(m, w, r) \/ TakesQuietly(m)
  PROVE  Advances
<1>0. Takes(m)
  BY DEF TakesOpen, TakesCall, TakesQuietly
<1>1. /\ server = "up" /\ server' = "up" /\ Pending \in Seq(Request) /\ Pending # << >> /\ m = Head(Pending)
      /\ Pending' = Tail(Pending)
  BY <1>0 DEF Takes
<1>2. Len(Pending) \in Nat \ {0} /\ Len(Pending') = Len(Pending) - 1 /\ Len(Pending') \in Nat
  BY <1>1, TailFacts
<1>3. ASSUME NEW v \in Volumes, NEW p \in 0 .. FileSize - 1, NEW n \in 1 .. Len(Pending), NEW x,
             ByteAfter(disk[v][p], Pending, n, v, p, x)
      PROVE  ByteAfter(disk'[v][p], Pending', n - 1, v, p, x)
  <2>1. ByteAfter(ByteOf(Head(Pending), v, p, disk[v][p]), Tail(Pending), n - 1, v, p, x)
    BY <1>1, <1>3, ByteTail
  <2>2. disk'[v][p] = ByteOf(m, v, p, disk[v][p])
    BY DiskAfter
  <2> QED BY <1>1, <2>1, <2>2
<1> QED BY <1>1, <1>2, <1>3 DEF Advances

LEMMA ViewServer ==
  ASSUME Shape, ViewInv, ServerStep, Stopped \/ Started \/ Advances
  PROVE  ViewInv'
<1>0. view' = IF server' = "up" THEN view ELSE disk'
  BY DEF ServerStep, NoteServer
<1>1. CASE Stopped
  BY <1>0, <1>1 DEF Stopped, ViewInv
<1>2. CASE Started
  <2>1. server' = "up" /\ view' = disk /\ disk' = disk
    BY <1>0, <1>2 DEF Started, ViewInv
  <2>2. Pending' = << >>
    BY <1>2 DEF Started, Pending
  <2>3. Len(<< >>) = 0
    OBVIOUS
  <2>4. ASSUME NEW v \in Volumes, NEW p \in 0 .. FileSize - 1
        PROVE  ByteAfter(disk[v][p], Pending', Len(Pending'), v, p, view'[v][p])
    <3>1. ByteAfter(disk[v][p], Pending', 0, v, p, disk[v][p])
      BY ByteAtOnce
    <3> QED BY <2>1, <2>2, <2>3, <3>1
  <2> QED BY <2>1, <2>4 DEF ViewInv, ByteAfter
<1>3. CASE Advances
  <2>1. server' = "up" /\ view' = view /\ server = "up"
    BY <1>0, <1>3 DEF Advances
  <2>2. ASSUME NEW v \in Volumes, NEW p \in 0 .. FileSize - 1
        PROVE  ByteAfter(disk'[v][p], Pending', Len(Pending'), v, p, view'[v][p])
    <3>1. ByteAfter(disk[v][p], Pending, Len(Pending), v, p, view[v][p])
      BY <2>1 DEF ViewInv
    <3>2. Len(Pending) \in 1 .. Len(Pending) /\ Len(Pending') = Len(Pending) - 1
      BY <1>3 DEF Advances
    <3> QED BY <1>3, <2>1, <3>1, <3>2 DEF Advances
  <2> QED BY <2>1, <2>2 DEF ViewInv, ByteAfter
<1> QED BY <1>1, <1>2, <1>3

\* So a read in the queue keeps its promise, and the first of them can be answered.
LEMMA PromiseAdvances ==
  ASSUME Advances, NEW d \in Clients, NEW m, NEW f, NEW i \in Nat, i + 1 \in 1 .. Len(Pending), Promises(d, m, i + 1, f)
  PROVE  Promises(d, m, i, f)'
<1>1. VolumeOf[d] \in Volumes
  BY SharedMemAssumption
<1>2. ASSUME NEW k \in 0 .. m.size - 1, m.offset + k \in 0 .. FileSize - 1
      PROVE  ByteAfter(disk'[VolumeOf[d]][m.offset + k], Pending', i, VolumeOf[d], m.offset + k, f[k])
  <2>1. PICK v \in Volumes : v = VolumeOf[d]
    BY <1>1
  <2>2. PICK p \in 0 .. FileSize - 1 : p = m.offset + k
    BY <1>2
  <2>3. PICK n \in 1 .. Len(Pending) : n = i + 1
    OBVIOUS
  <2>4. ByteAfter(disk[v][p], Pending, n, v, p, f[k])
    BY <1>2, <2>1, <2>2, <2>3 DEF Promises
  <2>5. ByteAfter(disk'[v][p], Pending', n - 1, v, p, f[k]) /\ n - 1 = i
    BY <2>3, <2>4 DEF Advances
  <2> QED BY <2>1, <2>2, <2>5
<1> QED BY <1>2 DEF Promises, IsArray, ByteAfter

LEMMA ReadAnswered ==
  ASSUME Shape, PtrInv, Advances, NEW m, NEW w, NEW r, TakesCall(m, w, r), IsRead(m), NEW d \in Clients, m.from = d,
         NEW f, Promises(d, m, 1, f)
  PROVE  Contains(r, f)
<1>1. /\ Takes(m) /\ InFile(m) /\ r.size = m.size /\ disk' = disk /\ w \in Clients /\ m.volume = w /\ vols[w] # Null
      /\ \A k \in 0 .. m.size - 1 : r.data[k] = disk[vols[w].file][m.offset + k]
  BY DEF TakesCall, IsRead
<1>2. vols[w].file = VolumeOf[d]
  BY <1>1, GoesHome
<1>3. 0 \in Nat /\ 0 + 1 = 1 /\ 1 \in 1 .. Len(Pending)
  BY DEF Advances
<1>4. Promises(d, m, 0, f)'
  BY <1>3, PromiseAdvances
<1>5. m.offset \in Nat /\ m.size \in Nat /\ m.offset + m.size <= FileSize /\ FileSize \in Nat
  BY <1>1, SharedMemAssumption DEF Takes, Request, InFile
<1>6. ASSUME NEW k \in 0 .. m.size - 1 PROVE r.data[k] = f[k]
  <2>1. m.offset + k \in 0 .. FileSize - 1
    BY <1>5
  <2>2. ByteAfter(disk[VolumeOf[d]][m.offset + k], Pending', 0, VolumeOf[d], m.offset + k, f[k])
    BY <1>1, <1>4, <2>1 DEF Promises, ByteAfter
  <2>3. f[k] = disk[VolumeOf[d]][m.offset + k]
    BY <2>2, ByteAtOnce
  <2> QED BY <1>1, <1>2, <2>3
<1>7. IsArray(f, r.size)
  BY <1>1 DEF Promises, IsArray
<1> QED BY <1>1, <1>6, <1>7 DEF Contains

LEMMA ReadServer ==
  ASSUME Shape, PtrInv, AcbInv, DataInv, ServerStep, Stopped \/ Started \/ Advances, NEW d \in Clients
  PROVE  ReadInv(d)'
<1>0. UNCHANGED clientVars /\ due' = due /\ pc' = pc /\ acbs' = acbs /\ reply_msg_' = reply_msg_ /\ Tells(d)' = Tells(d)
  BY DEF ServerStep, NoteServer, clientVars, Tells
<1> SUFFICES ASSUME pc[d] \notin Dead PROVE ReadInv(d)'
  BY <1>0 DEF ReadInv
<1>1. ReadInv(d)
  BY DEF DataInv
<1>2. ASSUME NEW i \in Todo', Reads(d, i)' PROVE Asked(d, i)'
  <2>1. Advances
    BY <1>2, TodoGone
  <2>2. PICK m : Takes(m)
    BY <1>2, TodoGone, ServerKinds DEF TakesOpen, TakesCall, TakesQuietly
  <2>3. PICK n : DoneTodo(m, n)
    BY <2>2, TodoTakes
  <2>4. i + 1 \in Todo /\ Pending'[i] = Pending[i + 1] /\ i \in Nat
    BY <2>3 DEF DoneTodo
  <2>5. PICK q, f : q = Pending[i + 1] /\ f = due[d][q.acb].bytes
    OBVIOUS
  <2>6. q.size = acbs[d][q.acb].size /\ Promises(d, q, i + 1, f)
    <3>1. Reads(d, i + 1)
      BY <1>2, <2>4 DEF Reads
    <3> QED BY <1>1, <2>4, <2>5, <3>1 DEF ReadInv, Asked
  <2>7. i + 1 \in 1 .. Len(Pending)
    BY <2>1, <2>4 DEF Todo, Advances
  <2>8. Promises(d, q, i, f)'
    BY <2>1, <2>4, <2>6, <2>7, PromiseAdvances
  <2> QED BY <1>0, <2>4, <2>5, <2>6, <2>8 DEF Asked, Promises, IsArray
<1>3. ASSUME Tells(d)', IsRead(reply_msg_'[d]) PROVE Delivers(d, reply_msg_[d])'
  BY <1>0, <1>1, <1>3 DEF ReadInv, Delivers, Contains, IsArray
<1>4. ASSUME NEW a \in Acbs, acbs'[d][a] # Null, IsRead(acbs'[d][a]), acbs'[d][a].bh PROVE Fulfilled(d, a)'
  BY <1>0, <1>1, <1>4 DEF ReadInv, Fulfilled
<1>5. ASSUME NEW i \in Places(d), reply_mq'[d][i] = reply_mq[d][i], IsRead(reply_mq[d][i])
      PROVE  Delivers(d, reply_mq[d][i])'
  BY <1>0, <1>1, <1>5 DEF ReadInv, Delivers, Contains, IsArray
<1>6. CASE NoNewAnswer(d)
  <2>1. \A i \in Places(d)' : IsRead(reply_mq'[d][i]) => i \in Places(d) /\ reply_mq'[d][i] = reply_mq[d][i]
    BY <1>6, OldAnswers DEF Answers, Completes, IsRead
  <2> QED BY <1>0, <1>2, <1>3, <1>4, <1>5, <2>1 DEF ReadInv
<1>7. ASSUME NEW m, NEW w, NEW r, TakesCall(m, w, r), NEW n, NewReply(d, r, n), m.from = d, Completes(m)
      PROVE  ReadInv(d)'
  <2>1. \A i \in Places(d)' : i = n \/ (i \in Places(d) /\ reply_mq'[d][i] = reply_mq[d][i])
    BY <1>7 DEF NewReply, Places
  <2>2. ASSUME IsRead(r) PROVE Delivers(d, r)'
    <3>1. IsRead(m) /\ Takes(m) /\ r.acb = m.acb /\ r.size = m.size
      BY <1>7, <2>2 DEF TakesCall, IsRead
    <3>2. 1 \in Todo /\ Pending[1] = m /\ Reads(d, 1)
      BY <1>7, <3>1, TakenPlaces DEF Reads
    <3>3. Advances
      BY <3>1 DEF Stopped, Started, Takes
    <3>4. PICK f : f = due[d][m.acb].bytes
      OBVIOUS
    <3>5. m.size = acbs[d][m.acb].size /\ Promises(d, m, 1, f)
      BY <1>1, <3>2, <3>4 DEF ReadInv, Asked
    <3>6. Contains(r, f)
      BY <1>7, <3>1, <3>3, <3>5, ReadAnswered
    <3> QED BY <1>0, <3>1, <3>4, <3>5, <3>6 DEF Delivers, Contains, IsArray
  <2>3. ASSUME NEW i \in Places(d)', IsRead(reply_mq'[d][i]) PROVE Delivers(d, reply_mq[d][i])'
    <3>1. CASE i = n
      <4>1. reply_mq'[d][i] = r
        BY <1>7, <3>1 DEF NewReply
      <4>2. Delivers(d, r)'
        BY <2>2, <2>3, <4>1
      <4> QED BY <4>1, <4>2 DEF Delivers, Contains, IsArray
    <3>2. CASE i # n
      <4>1. i \in Places(d) /\ reply_mq'[d][i] = reply_mq[d][i]
        BY <2>1, <3>2
      <4> QED BY <1>5, <2>3, <4>1
    <3> QED BY <3>1, <3>2
  <2> QED BY <1>0, <1>2, <1>3, <1>4, <2>3 DEF ReadInv
<1> QED BY <1>6, <1>7, NewAnswer

LEMMA DataServer == ASSUME Shape, PtrInv, AcbInv, DoomInv, DataInv, ServerStep PROVE DataInv'
<1>1. Stopped \/ Started \/ Advances
  BY TurnAdvances, ServerKinds
<1> QED BY <1>1, ViewServer, ReadServer DEF DataInv

LEMMA DataNext ==
  ASSUME Shape, Shape', PtrInv, AcbInv, AcbInv', DoomInv, DataInv, [Next]_vars
  PROVE  DataInv'
<1>1. CASE UNCHANGED vars
  <2>1. /\ UNCHANGED <<server, disk, view, due, pc, acbs, reply_msg_, reply_mq>> /\ Todo' = Todo /\ Pending' = Pending
        /\ \A c \in Clients : Tells(c)' = Tells(c) /\ Places(c)' = Places(c)
    BY <1>1 DEF vars, queueVars, serverVars, clientVars, history, Tells, Places, Todo, Pending
  <2>2. ViewInv'
    BY <2>1 DEF DataInv, ViewInv, ByteAfter
  <2>3. ASSUME NEW c \in Clients PROVE ReadInv(c)'
    <3>1. \A i \in Todo : Reads(c, i)' = Reads(c, i) /\ Asked(c, i)' = Asked(c, i)
      BY <2>1 DEF Reads, Asked, Promises, ByteAfter, IsArray
    <3>3. \A a \in Acbs : Fulfilled(c, a)' = Fulfilled(c, a)
      BY <2>1 DEF Fulfilled
    <3>4. \A i \in Places(c) : Delivers(c, reply_mq[c][i])' = Delivers(c, reply_mq[c][i])
      BY <2>1 DEF Delivers, Contains, IsArray
    <3>5. Delivers(c, reply_msg_[c])' = Delivers(c, reply_msg_[c])
      BY <2>1 DEF Delivers, Contains, IsArray
    <3> QED BY <2>1, <3>1, <3>3, <3>4, <3>5 DEF DataInv, ReadInv
  <2> QED BY <2>2, <2>3 DEF DataInv
<1>2. ASSUME NEW c \in Clients, ClientStep(c) PROVE DataInv'
  BY <1>2, ViewClient, ReadClient DEF DataInv
<1> QED BY <1>1, <1>2, DataServer DEF Next

LEMMA DataHolds == Spec => [](Shape /\ DataInv)
<1>1. Shape /\ EpochInv /\ [Next]_vars => EpochInv'
  BY EpochNext
<1>2. Shape /\ EpochInv /\ AcbInv /\ DoomInv /\ [Next]_vars => DoomInv'
  BY DoomNext
<1>3. Shape /\ Shape' /\ PtrInv /\ AcbInv /\ AcbInv' /\ DoomInv /\ DataInv /\ [Next]_vars => DataInv'
  BY DataNext
<1> QED BY <1>1, <1>2, <1>3, EpochInit, DoomInit, DataInit, AcbHolds, PTL DEF Spec

(***************************************************************************)
(* A read of a coroutine that is about to be resumed has succeeded and its *)
(* buffer holds, byte for byte, what the volume had when the READ was      *)
(* queued, with every write queued before it done: whatever coroutines and *)
(* clients, the reply thread, the bottom halves, kills and failed sends do *)
(* in between.                                                             *)
(***************************************************************************)
THEOREM AsyncReadsSeeWrites == Spec => []ReadsSeeWrites
<1>1. Shape /\ DataInv => ReadsSeeWrites
  <2> SUFFICES ASSUME Shape, DataInv, NEW c \in Clients, NEW a \in Acbs,
                      acbs[c][a] # Null, acbs[c][a].type = "REQ_READ", acbs[c][a].bh
               PROVE  acbs[c][a].ret = 0 /\ acbs[c][a].buf = due[c][a].bytes
    BY DEF ReadsSeeWrites
  <2>1. pc[c] \in Calling
    BY DEF Shape, ClientShape
  <2>2. pc[c] \notin Dead
    BY <2>1 DEF Calling, Dead
  <2> QED BY <2>2 DEF DataInv, ReadInv, IsRead, Fulfilled
<1> QED BY <1>1, DataHolds, PTL

LEMMA SameFunction ==
  ASSUME NEW S, NEW T, NEW f \in [S -> T], NEW g \in [S -> T], \A x \in S : f[x] = g[x]
  PROVE  f = g
OBVIOUS

(***************************************************************************)
(* Whenever the running server has emptied its queue, the files hold every *)
(* write that was queued to it, hence reported done to its guest, in the   *)
(* order of the queue and in the right file, and nothing else.             *)
(***************************************************************************)
THEOREM AsyncWritesLand == Spec => []AllWritesLand
<1>1. Shape /\ DataInv => AllWritesLand
  <2> SUFFICES ASSUME Shape, DataInv, server = "up", Pending = << >> PROVE view = disk
    BY DEF AllWritesLand
  <2>1. view \in [Volumes -> [0 .. FileSize - 1 -> Val]] /\ disk \in [Volumes -> [0 .. FileSize - 1 -> Val]]
    BY DEF Shape, HistoryTypes, ServerTypeOK
  <2>2. Len(<< >>) = 0
    OBVIOUS
  <2>3. ASSUME NEW v \in Volumes PROVE view[v] = disk[v]
    <3>1. ASSUME NEW p \in 0 .. FileSize - 1 PROVE view[v][p] = disk[v][p]
      <4>1. ByteAfter(disk[v][p], Pending, 0, v, p, view[v][p])
        BY <2>2 DEF DataInv, ViewInv
      <4> QED BY <4>1, ByteAtOnce
    <3>2. PICK S, f, g : S = 0 .. FileSize - 1 /\ f = view[v] /\ g = disk[v]
      OBVIOUS
    <3>3. f \in [S -> Val] /\ g \in [S -> Val] /\ \A p \in S : f[p] = g[p]
      BY <2>1, <3>1, <3>2
    <3>4. f = g
      BY <3>3, SameFunction
    <3> QED BY <3>2, <3>4
  <2> QED BY <2>1, <2>3, SameFunction
<1> QED BY <1>1, DataHolds, PTL
================================================================================
