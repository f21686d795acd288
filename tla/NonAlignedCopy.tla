---------------------------- MODULE NonAlignedCopy ----------------------------
(***************************************************************************)
(* The iterator of NonAlignedCopy.h, which cuts an I/O of len bytes at     *)
(* start into pieces that never cross a multiple of blockSize.  A          *)
(* NonAlignedCopy struct is a record; NonAlignedCopyNext, which returns    *)
(* its two results through pointers and advances cur_, is split into the   *)
(* size it returns and the struct it leaves behind (the offset it returns  *)
(* is the old cur).  Offsets and lengths are never negative in the         *)
(* callers, so C's % is TLA+'s.                                            *)
(***************************************************************************)
EXTENDS Integers

NonAlignedCopyInit(start, len, blockSize) ==
  [start |-> start, len |-> len, blockSize |-> blockSize, cur |-> start]

Remaining(a) == a.start + a.len - a.cur

NonAlignedCopyIsValid(a) == Remaining(a) > 0

\* Mutant: the position inside the block is forgotten.
RetSize_FullBlock(a) == IF a.blockSize > Remaining(a) THEN Remaining(a) ELSE a.blockSize

\* Mutant: the last piece is not cut to the request.
RetSize_Uncut(a) == a.blockSize - (a.cur % a.blockSize)

\* Mutant: one byte at a time.
RetSize_OneByte(a) == 1

\* *retSize: what is left in the current block, or of the request if less.
RetSize(a) ==
  LET avail == a.blockSize - (a.cur % a.blockSize)
  IN  IF avail > Remaining(a) THEN Remaining(a) ELSE avail

\* Mutant: the position moves on by a block whatever was returned.
NonAlignedCopyNext_WholeBlock(a) == [a EXCEPT !.cur = @ + a.blockSize]

NonAlignedCopyNext(a) == [a EXCEPT !.cur = @ + RetSize(a)]

\* The structs a caller can hold: initialised, then only advanced.
IsNonAlignedCopy(a) ==
  /\ a = [start |-> a.start, len |-> a.len, blockSize |-> a.blockSize, cur |-> a.cur]
  /\ a.start \in Nat /\ a.len \in Nat /\ a.blockSize \in Nat \ {0}
  /\ a.cur \in a.start .. (a.start + a.len)
===============================================================================
