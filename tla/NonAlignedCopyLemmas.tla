------------------------- MODULE NonAlignedCopyLemmas -------------------------
(***************************************************************************)
(* What one use of the iterator does, for every request and block size.    *)
(***************************************************************************)
EXTENDS NonAlignedCopy, TLAPS

(***************************************************************************)
(* What NonAlignedCopyNext returns on a struct with something left: a size *)
(* that is positive, fits in what is left of the request and in what is    *)
(* left of the current block.                                              *)
(***************************************************************************)
LEMMA RetSizeBounds ==
  ASSUME NEW x, IsNonAlignedCopy(x), NonAlignedCopyIsValid(x)
  PROVE  /\ RetSize(x) \in 1 .. x.blockSize
         /\ (x.cur % x.blockSize) + RetSize(x) <= x.blockSize
         /\ x.cur + RetSize(x) <= x.start + x.len
<1>1. x.cur \in Nat /\ x.blockSize \in Nat \ {0} /\ x.start \in Nat /\ x.len \in Nat
  BY DEF IsNonAlignedCopy
<1>2. x.cur % x.blockSize \in 0 .. (x.blockSize - 1)
  BY <1>1
<1>3. Remaining(x) \in Nat \ {0}
  BY <1>1 DEF NonAlignedCopyIsValid, Remaining
<1> QED
  BY <1>1, <1>2, <1>3 DEF RetSize, Remaining

\* NonAlignedCopyNext leaves a struct its caller may go on using.
LEMMA NextIsNonAlignedCopy ==
  ASSUME NEW x, IsNonAlignedCopy(x), NonAlignedCopyIsValid(x)
  PROVE  /\ IsNonAlignedCopy(NonAlignedCopyNext(x))
         /\ NonAlignedCopyNext(x).start = x.start
         /\ NonAlignedCopyNext(x).len = x.len
         /\ NonAlignedCopyNext(x).blockSize = x.blockSize
         /\ NonAlignedCopyNext(x).cur = x.cur + RetSize(x)
<1>0. /\ RetSize(x) \in 1 .. x.blockSize
      /\ x.cur + RetSize(x) <= x.start + x.len
  BY RetSizeBounds
<1>1. RetSize(x) \in Nat /\ x.cur + RetSize(x) <= x.start + x.len
  BY <1>0 DEF IsNonAlignedCopy
<1>2. x = [start |-> x.start, len |-> x.len, blockSize |-> x.blockSize, cur |-> x.cur]
  BY DEF IsNonAlignedCopy
<1>3. NonAlignedCopyNext(x) =
        [start |-> x.start, len |-> x.len, blockSize |-> x.blockSize,
         cur |-> x.cur + RetSize(x)]
  BY <1>2 DEF NonAlignedCopyNext
<1> QED
  BY <1>1, <1>3 DEF IsNonAlignedCopy
===============================================================================
