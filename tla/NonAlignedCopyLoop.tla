-------------------------- MODULE NonAlignedCopyLoop --------------------------
(***************************************************************************)
(* The loop around the iterator, as cvbd_read and cvbd_write run it:       *)
(*                                                                         *)
(*     NonAlignedCopyInit(&a, offset, size, MSGQ_MAX_SIZE);                *)
(*     while (NonAlignedCopyIsValid(&a)) {                                 *)
(*         NonAlignedCopyNext(&a, &retOff, &retSz);  ... one request ...   *)
(*     }                                                                   *)
(*                                                                         *)
(* pieces is the sequence of <<retOff, retSz>> handed to the transport.    *)
(***************************************************************************)
EXTENDS NonAlignedCopy, Sequences

CONSTANTS Starts,       \* offsets a request may start at
          Lens,         \* lengths a request may have
          BlockSizes    \* block sizes the iterator may be given

ASSUME LoopAssumption ==
  /\ Starts \subseteq Nat
  /\ Lens \subseteq Nat
  /\ BlockSizes \subseteq Nat \ {0}

VARIABLES a, pieces
vars == <<a, pieces>>

Init ==
  /\ \E s \in Starts, l \in Lens, b \in BlockSizes : a = NonAlignedCopyInit(s, l, b)
  /\ pieces = << >>

\* Mutant: the loop leaves the last, incomplete block undone.
Iterate_SkipsTail ==
  /\ Remaining(a) >= a.blockSize
  /\ pieces' = Append(pieces, <<a.cur, RetSize(a)>>)
  /\ a' = NonAlignedCopyNext(a)

Iterate ==
  /\ NonAlignedCopyIsValid(a)
  /\ pieces' = Append(pieces, <<a.cur, RetSize(a)>>)
  /\ a' = NonAlignedCopyNext(a)

Next == Iterate

Spec == Init /\ [][Next]_vars /\ WF_vars(Iterate)

-------------------------------------------------------------------------------
TypeOK ==
  /\ IsNonAlignedCopy(a)
  /\ pieces \in Seq(Nat \X Nat)

End(p) == p[1] + p[2]

(***************************************************************************)
(* The pieces handed out so far tile [start, cur): the first begins at     *)
(* start, each begins where its predecessor ended, and the last ends at    *)
(* cur.  No byte of a request is skipped, sent twice or sent out of place  *)
(* by the loops of cvbd_read and cvbd_write.                               *)
(***************************************************************************)
PiecesTile ==
  /\ pieces = << >> => a.cur = a.start
  /\ pieces # << >> => pieces[1][1] = a.start /\ End(pieces[Len(pieces)]) = a.cur
  /\ \A i \in 1 .. (Len(pieces) - 1) : pieces[i + 1][1] = End(pieces[i])

(***************************************************************************)
(* Every piece is non-empty, stays inside the request and does not cross a *)
(* block boundary: its last byte is in the block of its first.  Hence it   *)
(* fits the fixed data array of a WriteRequest or ReadReply, which is what *)
(* the assertions of send_write and send_read demand.                      *)
(***************************************************************************)
PiecesFit ==
  \A i \in 1 .. Len(pieces) :
    LET off == pieces[i][1]
        sz  == pieces[i][2]
    IN  /\ sz > 0
        /\ (off % a.blockSize) + sz <= a.blockSize
        /\ a.start <= off /\ off + sz <= a.start + a.len

(***************************************************************************)
(* The loop uses as few pieces as block boundaries allow: when it stops,   *)
(* there is one piece per block the request touches, the reference         *)
(* definition the header's comment illustrates (8K at 6K over 4K blocks    *)
(* takes 3 pieces).                                                        *)
(***************************************************************************)
BlocksTouched ==
  IF a.len = 0 THEN 0
  ELSE ((a.start + a.len - 1) \div a.blockSize) - (a.start \div a.blockSize) + 1

PiecesMinimal == ~NonAlignedCopyIsValid(a) => Len(pieces) = BlocksTouched

\* The loop of cvbd_read and cvbd_write ends, having covered the request.
Terminates == <>(a.cur = a.start + a.len /\ ~NonAlignedCopyIsValid(a))
===============================================================================
