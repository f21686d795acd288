-------------------------------- MODULE IovCopy --------------------------------
(***************************************************************************)
(* The loop of iov_from_buf and of iov_to_buf, by which the asynchronous   *)
(* client moves the data of a message to and from the iovecs of a          *)
(* QEMUIOVector.  The two differ only in the direction of the memcpy, so   *)
(* what is kept of a turn is which bytes it moves.  iov is the sequence of *)
(* the iov_len fields; the code's index i is i - 1 here.                   *)
(***************************************************************************)
EXTENDS Integers, Sequences

CONSTANTS Iovs, Starts, Sizes   \* iovec lists, arguments offset and bytes

ASSUME IovAssumption ==
  /\ \A v \in Iovs : v \in Seq(Nat)
  /\ Starts \subseteq Nat
  /\ Sizes \subseteq Nat

VARIABLES
  iov, start, bytes,  \* the arguments; start is the initial value of offset
  i, done, offset,    \* the locals of the loop
  passed,             \* history: bytes in the iovecs before i
  copies              \* history: the memcpy calls
args == <<iov, start, bytes>>
vars == <<args, i, done, offset, passed, copies>>

Init ==
  /\ iov \in Iovs /\ start \in Starts /\ bytes \in Sizes
  /\ i = 1 /\ done = 0 /\ offset = start
  /\ passed = 0
  /\ copies = {}

\* The loop condition.
Continues == (offset # 0 \/ done < bytes) /\ i <= Len(iov)

\* Mutant: the offset into the first iovec is forgotten.
CopyLen_WholeIovec == IF iov[i] < bytes - done THEN iov[i] ELSE bytes - done

CopyLen == IF iov[i] - offset < bytes - done THEN iov[i] - offset ELSE bytes - done

\* Mutant: the bytes moved by earlier turns are not added up.
Copy_NoSum ==
  /\ Continues
  /\ offset < iov[i]
  /\ copies' = copies \cup
       {[iov |-> i, at |-> offset, from |-> done, len |-> CopyLen, flat |-> passed + offset]}
  /\ done' = CopyLen
  /\ offset' = 0
  /\ i' = i + 1
  /\ passed' = passed + iov[i]
  /\ UNCHANGED args

\* Mutant: the offset is applied to every iovec.
Copy_KeepsOffset ==
  /\ Continues
  /\ offset < iov[i]
  /\ copies' = copies \cup
       {[iov |-> i, at |-> offset, from |-> done, len |-> CopyLen, flat |-> passed + offset]}
  /\ done' = done + CopyLen
  /\ offset' = IF done' < bytes THEN offset ELSE 0
  /\ i' = i + 1
  /\ passed' = passed + iov[i]
  /\ UNCHANGED args

\* A turn that moves bytes between iov[i] at offset and the buffer at done.
Copy ==
  /\ Continues
  /\ offset < iov[i]
  /\ copies' = copies \cup
       {[iov |-> i, at |-> offset, from |-> done, len |-> CopyLen, flat |-> passed + offset]}
  /\ done' = done + CopyLen
  /\ offset' = 0
  /\ i' = i + 1
  /\ passed' = passed + iov[i]
  /\ UNCHANGED args

\* A turn that passes an iovec that lies before the offset, or an empty one.
Skip ==
  /\ Continues
  /\ offset >= iov[i]
  /\ offset' = offset - iov[i]
  /\ i' = i + 1
  /\ passed' = passed + iov[i]
  /\ UNCHANGED <<args, done, copies>>

Next == Copy \/ Skip

Spec == Init /\ [][Next]_vars

--------------------------------------------------------------------------------
\* No memcpy leaves its iovec or the buffer of the message.
CopiesInBounds ==
  \A p \in copies : p.at >= 0 /\ p.at + p.len <= iov[p.iov] /\ p.from + p.len <= bytes

(***************************************************************************)
(* Byte k of the buffer is moved exactly once, to or from byte start + k   *)
(* of the iovecs taken as one area, for every k below the result so far.   *)
(***************************************************************************)
CopiesInOrder ==
  /\ \A p \in copies : p.flat = start + p.from
  /\ \A k \in 0 .. done - 1 :
       \E p \in copies : /\ k \in p.from .. p.from + p.len - 1
                         /\ \A q \in copies \ {p} : k \notin q.from .. q.from + q.len - 1

(***************************************************************************)
(* What the function returns: everything asked for, unless the iovecs end  *)
(* first, and then all that they hold.  The assertion offset == 0 after    *)
(* the loop fails only if start lies past the last iovec.                  *)
(***************************************************************************)
Result ==
  ~Continues =>
    /\ done = bytes \/ (i = Len(iov) + 1 /\ (offset = 0 => passed = start + done))
    /\ offset # 0 => start > passed
================================================================================
