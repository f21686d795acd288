# A TLA+ model of cvbd, a QEMU block driver over shared memory

The program gives a QEMU guest a disk that is kept by a separate storage server
on the same host. The two talk through Boost.Interprocess message queues in
shared memory. There are two client stacks on the same messages and server:

| part | source | state it keeps | operations |
|---|---|---|---|
| chunk iterator | `NonAlignedCopy.h` | a position in a request | init, is-valid, next |
| messages | `SharedMemShared.h` | - | request and reply formats |
| storage server | `SharedMemServer.h`, `server.c` | request queue, a heap of `VolumeState`s (fd + reply queue), the files | start, handle open / close / getsize / read / write / fsync |
| blocking client | `SharedMemClient.cpp/.h` | the queues it has mapped, the server's pointer to its volume | constructor, open, getsize, read, write, close, destructor |
| synchronous driver | `cvbd_syncio.c` | a client | open, getlength, read, write, close |
| asynchronous client | `SharedMemClientASync.cpp` | the same, plus a reply thread | the same, plus readv, writev, fsync |
| asynchronous driver | `cvbd.c` | a client, requests in flight | the same with coroutines, plus flush |

How they interact. A client creates a reply queue under the name of its volume
and sends OPEN to the one request queue. The server's single handler thread opens
the file, opens the reply queue *by that name*, allocates a `VolumeState` and
sends its address back. Every later request carries that address, which the
server casts back to a pointer. READ, GETSIZE, FSYNC and OPEN are answered, WRITE
and CLOSE are not. The synchronous driver cuts a request into messages by the chunk
iterator and waits for each answer. The asynchronous driver sends it as one message
that carries the address of a `CVBDAIOCB`, and its coroutine yields; a reply thread
receives the answers, fills in the request and schedules a bottom half that resumes
the coroutine.

What is hard here: names that are resolved late and removed by whoever comes
next; requests that outlive their sender or their server; raw pointers sent back
and forth; writes reported done before they are; one thread and one bounded queue
that everybody waits for; two threads that share a buffer and a condition variable;
coroutines completed by another thread; and the arithmetic of chunks and iovecs. `PROJECT.json` lists
these hazards at their lines, with the properties that would catch each.

## Modules

| module | models |
|---|---|
| `NonAlignedCopy` | the iterator, as operators on its struct |
| `NonAlignedCopyLoop` | the loop of `cvbd_read` and `cvbd_write` around it, alone |
| `SharedMemShared` | messages, and the queues with their names |
| `SharedMemServer` | `SharedMemServer` and `IOHandler`: one action per handler and outcome, start, death |
| `SharedMemClient` | `SharedMemClient`: one action for each blocking step of each method |
| `CvbdSync` | `cvbd_syncio.c` composed with client, server and iterator; the properties |
| `IovCopy` | the loop of `iov_from_buf` and `iov_to_buf`, alone |
| `SharedMemClientASync` | the asynchronous `SharedMemClient`: main thread, reply thread, `CVBDAIOCB`s |
| `CvbdAsync` | `cvbd.c` composed with that client and the server; the properties |
| `BlockDevice` | the abstract device: what a guest can rely on from either driver |
| `CvbdSyncDevice`, `CvbdAsyncDevice` | the refinement mappings of the two stacks to it |
| `MCCvbdSync`, `MCCvbdAsync`, `MCIovCopy` | constants for TLC |
| `NonAlignedCopyLemmas` | bounds on a piece and on the iterator after a step |
| `NonAlignedCopyProofs` | theorems about the iterator's loop |
| `IovCopyProofs` | theorems about the iovec copies |
| `SharedMemServerProofs` | lemmas about the server's turns and the memory operations, for both stacks |
| `CvbdSyncProofs` | theorems about the types and the protocol of the synchronous stack |
| `CvbdSyncDataProofs` | theorems about its pointers and its data |
| `CvbdAsyncProofs` | theorems about coroutines, completions, assertions and the life of a `VolumeState` in the asynchronous stack |
| `CvbdAsyncDataProofs` | theorems about its types, flushes and data |

Definitions have the names of the functions they model. Operators named
`X_Something` are deliberately wrong versions of `X` (mutants, each marked in a
comment) that show that a property can fail; nothing uses them.

**Queues.** Removing a queue's name leaves the object to whoever has it mapped,
so objects and names are separate: `request_mq[e]` is the queue made by the
server's `e`-th start and `request_name` the one the name denotes now;
`reply_mq[c]` is made by client `c` and `reply_name[v]` is what volume `v`'s name
denotes now. Boost's queues are external: bounded, first in first out at equal
priority (the code only uses 0), blocking on full and on empty.

**Pointers.** A `VolumeState *` is named by the client whose OPEN allocated it.
A client sends one OPEN, so the name is as good as an address. The field `from`
of a request is this bookkeeping; no handler looks at it for anything else. A
handler that meets a pointer to nothing aborts in the model (`BadPointer`); in the
code a dangling one is undefined behaviour, and `HandlesResolve` shows that in the
synchronous stack there is none, with any faults. The one client without a pointer
is one whose OPEN failed unnoticed (see *Exceptions*).

**Steps.** One turn of `handle_requests` (receive, handle, reply) is one action:
only this thread touches the files and the `VolumeState`s, and the only other
effect is the reply. A `pwrite` can stop in the middle, by an error or because the
process is killed; what it transferred stays in the file (`WrittenInPart`). If the reply
queue is full the model's turn waits before the
receive, the code's after it; the difference is one free slot in the request
queue. On the client side a step ends where the code can block: the constructor
takes three steps (remove the name, open the request queue, create the reply
queue), a call two (send, receive). `cvbd_read` and `cvbd_write` take these steps
for each chunk. QEMU calls a device's driver from one thread at a time.

**Threads of the asynchronous client.** `pc` is QEMU's main thread, which runs the
coroutines one at a time and its event loop in between (`"idle"`); `thr` is the
reply thread. A step of either ends where the other could notice: before and after
each send, before and inside `pthread_cond_wait`, between the receive of a reply into
`reply_msg_` and its handling, between submitting and yielding. `acbs[c][a]` is the
`CVBDAIOCB` at address `a` with the state of its coroutine: `bh` once
`cvbd_finish_aio` has scheduled `cvbd_complete_aio`, `yielded` once the coroutine has
yielded. The bottom half resumes the coroutine, which frees the `CVBDAIOCB`; the
address can then be used again. `cvbd.h` and some members of the class are missing
from the repository and are taken from their use.

`send_getsize` does not wait. It returns whatever word of `reply_msg_` is at the
place of the size (`SizeWord`); in the `OpenReply` that is there after the open, this
word is the server's pointer, `HeapAddress`. QEMU's block layer asks for the length
once, right after a successful open, and makes no request before that.

The destructor frees `reply_msg_`, removes the name, sends the stop message and unmaps
the queue, all while the reply thread runs (`DtorFree`, `DtorStop`, `DtorDelete`). This
is undefined behaviour; the model takes every step either as if the memory were still
good or as the death of the process (`DtorCrashes`), in any order with the thread.

`send_open`, once woken, reads the answer word by word: the type it asserts, the error,
the pointer, the error again (`OpenReturns`). The reply thread may be receiving another
answer into the same buffer meanwhile, when one volume has several users.

**Exceptions.** Boost's `send` and `receive` throw when they cannot lock the queue. The C
wrappers catch that, and what their callers then do differs from call to call.
`CallsMayThrow` (synchronous: send and receive) and `SendMayFail` (asynchronous: send) let
it happen at any call. `create_volume` returns `-errno`, which may be 0: `cvbd_open` then
fails or succeeds without a volume (`OpenThrows`). `getsize_volume` returns 0
(`GetSizeThrows`), a failed `shared_mem_read` or `shared_mem_write` ends at an `assert(0)`
(`ReadWriteThrows`), and the result of `release_volume` is ignored (`CloseThrows`). In
the asynchronous stack these are `SendThrows` and `GetLengthThrows`. A throw from `receive` in
the reply thread is not caught: it ends the process, as a kill does.

**Abstract device.** `BlockDevice` has volumes with a write-back cache. A request
begins, takes effect in one or more atomic pieces, and ends; a read delivers what the
volume held when its pieces took effect; writes reach the file in the order they took
effect; a death of the server loses exactly those that have not. Both stacks implement
it with the effect of a message at the moment it is queued: this is why a write may
be reported done without an answer, and why that is safe only as long as the server
lives. In the synchronous stack a request is a sequence of pieces, in the asynchronous
one a single piece, with many requests of a device open at a time.

**Environment.** QEMU reads and writes only inside the length `cvbd_getlength`
reported (`Admitted`, as its block layer checks). System calls fail according
to `Faults`. The server may be killed (`ServerMayDie`) and is restarted up to
`MaxStarts` times; a second server beside a running one is not modelled. A QEMU
may be killed wherever its `pc` is in `KillPoints`; a reopen is a new client.
`Exclusive` says whether a volume has one user at a time. These constants
separate what the code guarantees from what it needs: see the runs.

**Uninitialised data.** `volume_` is not initialised before OPEN succeeds; the model
has `Null` there. The server does not read the field of an OPEN message. It is read only
of a client whose OPEN failed unnoticed: `Null` then stands for whatever word the memory
held, zero (for which `write` and `close` test) or the address of nothing. That the
word is an address left over from an earlier client, at which the server has
another `VolumeState` by now, is not considered.
`OpenRequest::init` copies the names without their NUL into a buffer that is
fresh (zero) memory in a new process; the model assumes that.

**Data.** Bytes are values of `Val`, files functions from offsets to bytes, and a
message carries an array of `max_data_size` bytes. Names, identifiers (`id_` is
never read), logging and URI parsing are left out.

**History.** `view` is the contents of each volume with all writes done that are
queued to the running server; when that server dies it falls back to the files.
`want` (`due` in the asynchronous stack) is what a running read should deliver
according to `view`; `due` also has the number of writes a flush must cover, and
`writes` how many writes of a volume have been queued, done and synced. They do not
influence the other variables.

## Runs

Instance for the synchronous stack: sector = 1 byte, block = 2, message = 4, file
= 6 bytes, two clients; each guest may issue a write that is split over two
messages (4 bytes at 2, across the boundary at 4), one that is not, one that is
misaligned, and a read that is split. Each client writes different bytes at each
place, so misplaced or foreign data is visible. Two clients suffice for every
interaction the code has (a queue, a name or a server shared by two users).

| run | shows |
|---|---|
| `copy_loop` | the iterator tiles the request (`PiecesTile`), each piece fits a block (`PiecesFit`), as few pieces as possible (`PiecesMinimal`), the loop ends (`Terminates`); offsets and lengths 0..9, blocks 1..5, so empty requests, unaligned starts and tails, and exact multiples all occur |
| `sync_volumes` | two volumes, QEMUs killed, queue of 2, server keeps running: `TypeOK`, `ReadsSeeWrites`, `AllWritesLand`, `CallsReturn`, `VolumesFreed` |
| `sync_reopen` | one volume, one user after the other, QEMU killed anywhere but in the open handshake, server death and restart: `RepliesMatch` (a reply queue holds only the awaited answer, so no assertion fails and the server never blocks), `HandlesLive` (no dangling or foreign pointer, nothing after CLOSE), `NoLostCall`, `NoVolumeLeak`, `ServerNeverAborts`, and the stack implements `BlockDevice` |
| `sync_unguarded` | two users at once, calls that throw, failing opens, creation, sizing and I/O (writes cut short included), deaths anywhere: `HandlesResolve` and `ReadsSeeWrites` hold even so (the others do not, but for `TypeOK` and `AllWritesLand`, which are proved) |
| `iov_copy` | `CopiesInBounds`, `CopiesInOrder`, `Result` for up to 3 iovecs of 0..3 bytes, offsets 0..5, 0..10 bytes: empty iovecs, offsets past all of them and lists that are too short all occur |
| `async_coroutines` | one QEMU, two requests in flight, spurious wake-ups, server keeps running: `AcbsLive` (a reply finds the request it belongs to, live and not yet completed), `NoLostCompletion`, `ReadsSeeWrites`, `FlushIsBarrier`, `EnteredAfterYield`, `TypeOK`, `CoroutinesResume`, `VolumesFreed` |
| `async_reopen` | one volume, one user after the other, deaths of both sides, restart, the racy destructor: `HandlesLive`, `NoVolumeLeak`, `ServerNeverAborts`, `ClientNeverAborts`, `AllWritesLand`, `FlushIsBarrier`, and the stack implements `BlockDevice` |
| `async_faults` | two users of a volume at once, sends that throw, failing file creation and I/O, requests that do not fit a message: `AcbsLive` and `ReadsSeeWrites` hold even so |
| `sync_killed_open`, `async_length`, `async_large`, `async_lost_wakeup` | violations, see below |

Instance for the asynchronous stack: sector = 1 byte, block = message = 2, file = 4
bytes. `async_coroutines` has one client, a write and a read of each block and a
misaligned write. The runs with two clients have a write and a read of one block
(`async_faults` also a read that does not fit) and flushes. `HeapAddress` is 100,
larger than the file, as heap addresses are.

Bounds: `MaxCalls` (synchronous: 3; a getlength, without which nothing is admitted, and
two I/Os, enough for a read after a write and for two writes; 2 in `sync_unguarded`, so
that one client reads what the other writes, and only the split write), `MaxStarts` (2: one
restart), `max_queue_size` (2 instead of 32, so that queues fill up). For the
asynchronous stack `MaxCalls` does not count the getlength: 3 with one client, so that
a write, a read and a flush, or three of a kind, overlap and addresses are reused; 1
for each of two clients. `Acbs` is the number of requests in flight, 2 or 1. In every
asynchronous run a client may also be stuck in `send_open` by the lost wake-up.
Deadlock is not checked: a client that has made all its calls, or whose server
is gone for good, stops.

Fairness (`FairSpec`): weak fairness of the handler thread and of each QEMU
thread inside a call, which is what an operating system that schedules runnable
threads provides. A sender blocked on a full queue needs no more, since in the
bounded instance others cannot refill it for ever. In the asynchronous stack these are
the handler thread, the reply thread, the main thread inside a call, and the event
loop as far as it has bottom halves to run. Nobody is obliged to make a
call, close a volume or restart a server.

### Findings

`sync_killed_open` refutes the assertion at `SharedMemClient.cpp:104`
(`assert(getsizereply_msg->header.type == REQ_GETSIZE)`). The server resolves the reply
queue's name when it handles an OPEN. A later client of the volume removes that name
and takes it; so two OPENs in the queue are both answered to the later client, and its
next call meets the extra reply. In the run the first client was killed while its OPEN
was queued and the volume is simply opened again; with `Exclusive = FALSE` TLC finds
the same for two concurrent users, without any death. `sync_reopen` shows
that these are the only two ways as long as no call throws: with one user at a time and no
death inside the open handshake every assertion on a reply holds (proved in general as
`RepliesAlwaysMatch`).

The asynchronous client has some of its own.

- `async_length`: `send_getsize` returns without waiting for its answer, so the device's
  length is the server's heap address. A read past the end of the file is admitted and
  trips `assert(dataSize == req->size_in_bytes)` (`server.c:219`): one guest ends the
  server for all. The requests of the other runs lie inside the file.
- `async_large`: requests are not split; one that exceeds a message trips the assertion
  of `send_readv` (`SharedMemClientASync.cpp:291`).
- `async_lost_wakeup`: a reply handled before the main thread waits (`:188`) is a lost
  wake-up, and `cvbd_open` never returns. The counterexample is under `FairSpec`.
- Not a run of its own: the condition wait tests no condition, so with
  `SpuriousWakeups` `ClientNeverAborts` fails at the assertion of `send_open` (`:189`).
- The comment at `cvbd.c:255` says that the callback is called from the reply thread;
  for a write it runs in the submitting coroutine. This does no harm:
  `EnteredAfterYield`.

Two more limits are visible through the constants and are stated as hazards: a
failed file creation leaves the client waiting (`"create" \in Faults` breaks
`NoLostCall`), and a client of a dead server waits for ever (`ServerMayDie`
breaks `CallsReturn`). In the asynchronous stack, likewise, `SendMayFail` breaks
`NoLostCompletion` (the result of a failed fsync request is not noticed). It also breaks
`HandlesResolve`, which is therefore checked in no asynchronous run: a failed OPEN may
be taken for a success, and a flush, which unlike a read or write is not limited by the
length, is then sent with the unset pointer.

## Proofs

All theorems hold for every value of the constants that satisfies the named
assumptions: `SharedMemAssumption`, `ServerAssumption`, `ClientAssumption`, `ClientASyncAssumption`, the
`CvbdAssumption` of each stack, `LoopAssumption` and `IovAssumption`. They ask for types,
for sizes that are not zero, for a `Null` that is no client, message or other value, and
that the buffer of a guest's write has the length of the request; in the asynchronous
stack also that writes lie inside the file. So: any number of clients, volumes and
requests in flight, any sizes of files, messages and queues, any guest requests, any
number of restarts. TLC evaluates the same assumptions in the runs.

| theorem | says | provided |
|---|---|---|
| `LoopTypeCorrect` | `TypeOK` of the loop | - |
| `TilesRequest` | `PiecesTile` | - |
| `FitsBlocks` | `PiecesFit` | - |
| `OnePiecePerBlock` | `PiecesMinimal` | - |
| `StaysInBounds` | `CopiesInBounds` | - |
| `MovesInOrder` | `CopiesInOrder` | - |
| `ResultIsRight` | `Result` | - |
| *synchronous stack* | | |
| `TypeCorrect` | `TypeOK` | - |
| `HandlesAlwaysResolve` | `HandlesResolve` | - |
| `ReadsAlwaysSeeWrites` | `ReadsSeeWrites` | - |
| `WritesAlwaysLand` | `AllWritesLand` | - |
| `RepliesAlwaysMatch` | `RepliesMatch` | (P): one user per volume (`Exclusive`); no QEMU killed while its OPEN is unanswered (`"wait_open" \notin KillPoints`); no call throws (`~CallsMayThrow`) |
| `HandlesAlwaysLive` | `HandlesLive` | (P) |
| `NoVolumeIsLeaked` | `NoVolumeLeak` | (P) |
| `NoCallIsLost` | `NoLostCall` | (P), and the server can create files |
| `ServerAlwaysSurvives` | `ServerNeverAborts` | (P), and opening, reading and writing the files does not fail |
| *asynchronous stack* | | |
| `AsyncTypeCorrect` | `TypeOK` | - |
| `ResumedAfterYield` | `EnteredAfterYield` | - |
| `RepliesFindTheirAcb` | `AcbsLive` | - |
| `FlushesAreBarriers` | `FlushIsBarrier` | - |
| `AsyncReadsSeeWrites` | `ReadsSeeWrites` | - |
| `AsyncWritesLand` | `AllWritesLand` | - |
| `CompletionsAreNotLost` | `NoLostCompletion` | no send throws (`~SendMayFail`) |
| `ClientsNeverAbort` | `ClientNeverAborts` | no send throws, no spurious wake-ups, aligned requests fit a message |
| `AsyncHandlesLive` | `HandlesLive` | (Q), `CarefulUse`: one user per volume, no send throws, no spurious wake-ups, no QEMU killed while its OPEN is unanswered |
| `AsyncVolumesNotLeaked` | `NoVolumeLeak` | (Q) |
| `AsyncServerSurvives` | `ServerNeverAborts` | (Q), opening, reading and writing the files does not fail, and the guests read inside the files (`ReadsInFile`) |

No part of (P) can be dropped: `sync_killed_open` is a counterexample without the
second, TLC finds one with `Exclusive = FALSE`, and with `CallsMayThrow` it violates all of the
five but `NoLostCall`, which holds on that instance and is proved for (P) only (the answer
to a call that threw in `receive` is still in the queue when the next call is made, an
OPEN that threw leaves no pointer, a CLOSE that threw leaks its `VolumeState`). The provisos
of the asynchronous theorems are needed too: `SendThrows` lets a flush whose request was
never queued wait, `SpuriousWakeups` breaks the assertion of `send_open`, and
`async_large` that of `send_readv`. On the instance of `async_reopen`, which satisfies (Q),
TLC violates each of the three invariants as soon as any one of the four parts of
(Q) is dropped, and `async_length` violates `ServerNeverAborts` without `ReadsInFile`. "-" means, in either stack: several users of a volume at once, every
failing system call, throwing calls (`CallsMayThrow`, `SendMayFail`), and deaths of both sides
at any moment are all allowed.

### The chunk iterator and the iovec copies

`OnePiecePerBlock` follows from an invariant that counts: the pieces made so far are
as many as the blocks from the first one to the present position.

For the iovec copies `Inv` adds to the properties `Position` (until the first memcpy the
bytes passed and what is left of the offset add up to the argument; from then on
buffer and iovecs advance together) and `Behind` (no earlier memcpy touched a byte
that is not counted yet), which is what makes each byte's copy unique.

### The synchronous stack

`TypeCorrect` is inductive as it stands, because `TypeOK` carries the arithmetic
of the data path: the iterator's position lies inside its request, the request
inside the file, the buffers have the request's length. `ChunkBounds` turns that
into bounds on every index the code computes, and the type of each slice and copy
follows. One lemma per action, combined in `TypeNext`.

`RepliesMatch` and `HandlesLive` are not inductive. `Inv` adds to them:

- `OneUser`: of two clients of a volume at most one is not done with it. Follows
  from `Exclusive`, and is needed because any constructor or destructor changes
  what the volume's name denotes.
- `NameInv`: from the creation of its reply queue to its destructor, the volume's
  name denotes the client's own queue. This is why the server, which resolves the
  name when it handles the OPEN, allocates a `VolumeState` that answers the sender.
- `VolsInv`, `HandleInv`: a `VolumeState` belongs to a client of the running
  server that has sent its OPEN, and a client that uses a volume of the running
  server has one, at the address it sends.
- `ReplyInv`: what a reply queue holds, given where its client stands.
- `RequestInv`: what a queued request says of its sender (`RequestOK`), and that
  only a WRITE is followed by another request of the same client. So once an
  answer is due, no other answer to the client is, and nothing follows a CLOSE.
- `EpochInv`: nobody has mapped a request queue that is yet to be made, so that a
  restarted server meets no request and no pointer of an earlier one.

Each action has a lemma that it preserves `Inv`. Those of a client go through
`OrdinaryStep` (or `NameStep`, where the name changes) and, for the queue,
`RequestsSent` and `RequestsKept`; those of the server through `ServerTurn`, which
reduces a turn of the loop to what it does to the sender of the request. TLC has
checked `Inv` too, on two-volume and one-volume instances with server restarts and
every fault. `ServerAlwaysSurvives` follows since `NameInv` leaves `OpenAborts` no way to
fire, and `RequestOK` none to `IoAborts`. `NoCallIsLost` and `NoVolumeIsLeaked` each add
one invariant to `Inv`: that a waiting client of the running server has its request in
the queue or its answer in its own queue, and that a `VolumeState` whose client has
closed has its CLOSE queued.

Without (P) this picture is false: clients take each other's answers. What remains
true is in `PtrInv` of `CvbdSyncDataProofs`: the pointer to a `VolumeState` is in one place
at a time, nowhere before its OPEN is sent, then in that OPEN, in the answer, or with
the one client that took the answer; it is of the volume that client opened; and
nothing follows the CLOSE that carries it. A client that took an exception of
`create_volume` for success has no pointer (`UnsetInv`), but it is never told a length either,
since the server does not survive its GETSIZE; so QEMU admits no request of it but empty
ones, for which nothing is sent. `HandlesAlwaysResolve` is a consequence: no READ or WRITE
lacks a pointer.
`DataInv` builds on it: `view` is the files with the pending writes done in
queue order (`ViewInv`), a pending READ will return what `want` says (`Asked`), one that
is answered does (`Delivered`), and the part of the guest's buffer before the iterator's
position has it (`BufferInv`). What a queue does to a byte is the function `ByteAfter`: the last
pending write that covers it, or the file. Adding a request at the end or taking the
first one changes it as one write does; these are lemmas of `SharedMemServerProofs`, used by
both stacks.

### The asynchronous stack

The steps are first sorted by what they do to the state the invariants
speak of: `ClientKinds` says that a step of a client posts a request, receives a
reply, completes or starts or frees a `CVBDAIOCB`, yields, moves or perishes;
`ServerKinds` that a step of the server stops it, starts it, or takes the first request
and answers it or not. The invariants are then preserved case by case:

- `Shape`: the types, and what they rest on: only an open client has `CVBDAIOCB`s, at most
  one coroutine runs, the reply thread has a reply when it handles one.
- `PtrInv`: nobody holds a pointer before it was handed out, and a `VolumeState` that a
  client holds is of its volume and has its reply queue; and before `send_open` has returned,
  all that is queued or on its way to the client is about OPENs (`OpenOnly`), whatever
  the reply thread receives while the answer is being read. So an answer goes to the
  client that asked (`GoesHome`), although the server takes the queue from the pointer.
- `AcbInv`: every message that will be handled as a completion (a request, a reply in
  the queue, the reply in `reply_msg_`) is about a `CVBDAIOCB` that is allocated, of that
  type, waiting, and no two are about the same. This is where reuse of addresses and
  completion by two threads could go wrong; `RepliesFindTheirAcb` follows.
- `EpochInv`, `LostInv`: conversely, each waiting `CVBDAIOCB` of a client of the running
  server has such a message (`CompletionsAreNotLost`).
- `EarlyInv`: without spurious wake-ups `send_open` is woken only when there is an answer.
  `DeathCauses` lists the ways a client can die, and `ClientsNeverAbort`
  excludes each.
- `FlushInv`: pending requests are ranked by the writes before them (`Ranks`); a
  pending flush is due no more writes than will be done at its turn, an answered one no
  more than are synced.
- `DoomInv`: a client that takes a failed OPEN for a success has no `VolumeState`, and the
  server would drop its writes. But QEMU asks for the length first; if that is queued the
  server dies of it before it meets a write, and if not, the length is 0 and the writes
  are empty. `AllWritesLand` needs this.
- `DataInv`: as above, with `due` for `want`.
- `UserInv`, `LifeInv`: the life of a `VolumeState`, under (Q). While a client opens, the
  volume's name leads to its queue, so the server's answer comes to it, and that answer
  tells the truth about its `VolumeState` and is the only one, so that it cannot change
  between the reads of its words (`Promised`); while it makes calls it has one if
  its server still runs; once it is in the destructor its CLOSE is queued or the
  `VolumeState` is gone. Of the queue `InOrder` says that an OPEN's sender is still waiting
  for the first answer, that any other request carries its sender's own pointer to a
  `VolumeState` that is there, and that a CLOSE is its sender's last request.
- `ReachInv`: a READ is queued as the guest asked for it, so it ends inside the file if
  the guest's read does. With `LifeInv` it leaves `OpenAborts` and `IoAborts` no way to fire.

TLC has checked these invariants on the asynchronous instances before the proofs.

### Only model-checked

- Liveness is out of the prover's reach: `CallsReturn`, `VolumesFreed`, `CoroutinesResume`,
  `Terminates` (and `OpenCompletes`, which `async_lost_wakeup` refutes).
- The refinements of `BlockDevice` by the two stacks: their refinement mappings select the
  writes of the server's queue with `SelectSeq`, which the provers cannot expand.

## Not modelled, and the plan

Next: the refinements, step by step. The mapping needs a definition of the queued writes
that the provers can expand, and what appending a request to the queue or taking the
first one does to it: an induction on the length of the queue, by way of the shortest
counterexample (a non-empty set of numbers has a least element: `WFMin`).

Left out:

- `~SharedMemServer`: `main` joins the handler thread, whose loop never ends, before
  the server object goes out of scope, so the destructor never runs.
- `IOHandler::close(vdiskid_t)`: nothing calls it, and what it uses does not exist.
- `send_read` and `send_write` of the asynchronous client, and its `shared_mem_read` and
  `shared_mem_write`: `cvbd.c` calls none of them.
- Writes past the end of the file, which would extend it (only the wrong length of the
  asynchronous stack admits them); the assumption `CvbdAssumption` excludes them.
- The bytes after the volume name in OPEN, when the buffer is not fresh memory.
- The `CVBDAIOCB` that a misaligned request leaks: nothing refers to it any more.
- URI and option parsing, logging, counters in `CVBDState`.
