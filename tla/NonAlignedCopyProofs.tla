------------------------- MODULE NonAlignedCopyProofs -------------------------
(***************************************************************************)
(* Proofs about the loop around the iterator, for every offset, length and *)
(* block size.                                                             *)
(***************************************************************************)
EXTENDS NonAlignedCopyLoop, NonAlignedCopyLemmas, TLAPS

-------------------------------------------------------------------------------
Inv == TypeOK /\ PiecesTile /\ PiecesFit

LEMMA InvInit == Init => Inv
<1> SUFFICES ASSUME Init PROVE Inv
  OBVIOUS
<1>1. PICK s \in Starts, l \in Lens, b \in BlockSizes : a = NonAlignedCopyInit(s, l, b)
  BY DEF Init
<1>2. IsNonAlignedCopy(a) /\ a.cur = a.start
  BY <1>1, LoopAssumption DEF NonAlignedCopyInit, IsNonAlignedCopy
<1>3. pieces = << >> /\ Len(pieces) = 0
  BY DEF Init
<1> QED
  BY <1>2, <1>3 DEF Inv, TypeOK, PiecesTile, PiecesFit

LEMMA InvNext == Inv /\ [Next]_vars => Inv'
<1> SUFFICES ASSUME Inv, [Next]_vars PROVE Inv'
  OBVIOUS
<1>1. CASE Iterate
  <2> DEFINE n == Len(pieces)
  <2>1. /\ IsNonAlignedCopy(a) /\ NonAlignedCopyIsValid(a)
        /\ a' = NonAlignedCopyNext(a)
        /\ pieces' = Append(pieces, <<a.cur, RetSize(a)>>)
        /\ pieces \in Seq(Nat \X Nat)
    BY <1>1 DEF Iterate, Inv, TypeOK
  <2>2. /\ RetSize(a) \in Nat \ {0}
        /\ (a.cur % a.blockSize) + RetSize(a) <= a.blockSize
        /\ a.start <= a.cur
        /\ a.cur + RetSize(a) <= a.start + a.len
        /\ a.cur \in Nat
    <3>1. /\ RetSize(a) \in 1 .. a.blockSize
          /\ (a.cur % a.blockSize) + RetSize(a) <= a.blockSize
          /\ a.cur + RetSize(a) <= a.start + a.len
      BY <2>1, RetSizeBounds
    <3> QED BY <2>1, <3>1 DEF IsNonAlignedCopy
  <2>3. /\ IsNonAlignedCopy(a')
        /\ a'.start = a.start /\ a'.len = a.len /\ a'.blockSize = a.blockSize
        /\ a'.cur = a.cur + RetSize(a)
    BY <2>1, NextIsNonAlignedCopy
  <2>4. /\ Len(pieces') = n + 1 /\ n \in Nat
        /\ pieces'[n + 1] = <<a.cur, RetSize(a)>>
        /\ \A i \in 1 .. n : pieces'[i] = pieces[i]
        /\ pieces' \in Seq(Nat \X Nat)
    BY <2>1, <2>2
  <2>5. TypeOK'
    BY <2>3, <2>4 DEF TypeOK
  <2>6. PiecesTile'
    <3>1. pieces' # << >> /\ End(pieces'[n + 1]) = a'.cur
      BY <2>2, <2>3, <2>4 DEF End
    <3>2. pieces'[1][1] = a'.start
      <4>1. CASE n = 0
        BY <4>1, <2>1, <2>3, <2>4 DEF Inv, PiecesTile
      <4>2. CASE n > 0
        BY <4>2, <2>1, <2>3, <2>4 DEF Inv, PiecesTile
      <4> QED BY <4>1, <4>2, <2>4
    <3>3. ASSUME NEW i \in 1 .. n PROVE pieces'[i + 1][1] = End(pieces'[i])
      <4>1. CASE i = n
        BY <4>1, <2>1, <2>4 DEF Inv, PiecesTile, End
      <4>2. CASE i < n
        <5>1. i \in 1 .. (n - 1) /\ i + 1 \in 1 .. n
          <6>1. n \in Nat
            BY <2>4
          <6> HIDE DEF n
          <6> QED BY <4>2, <6>1
        <5>2. pieces[i + 1][1] = End(pieces[i])
          BY <5>1 DEF Inv, PiecesTile
        <5>3. pieces'[i + 1] = pieces[i + 1] /\ pieces'[i] = pieces[i]
          BY <5>1, <2>4
        <5> QED BY <5>2, <5>3 DEF End
      <4> QED BY <4>1, <4>2, <2>4
    <3> QED BY <3>1, <3>2, <3>3, <2>4 DEF PiecesTile
  <2>7. PiecesFit'
    <3> SUFFICES ASSUME NEW i \in 1 .. (n + 1)
                 PROVE  /\ pieces'[i][2] > 0
                        /\ (pieces'[i][1] % a.blockSize) + pieces'[i][2] <= a.blockSize
                        /\ a.start <= pieces'[i][1]
                        /\ pieces'[i][1] + pieces'[i][2] <= a.start + a.len
      BY <2>3, <2>4 DEF PiecesFit
    <3>1. CASE i = n + 1
      BY <3>1, <2>2, <2>4
    <3>2. CASE i \in 1 .. n
      BY <3>2, <2>4 DEF Inv, PiecesFit
    <3> QED BY <3>1, <3>2, <2>4
  <2> QED BY <2>5, <2>6, <2>7 DEF Inv
<1>2. CASE UNCHANGED vars
  BY <1>2 DEF vars, Inv, TypeOK, PiecesTile, PiecesFit, End
<1> QED
  BY <1>1, <1>2 DEF Next

(***************************************************************************)
(* Whatever the request and the block size, the pieces the driver's loops  *)
(* send tile the part of the request already covered.                      *)
(***************************************************************************)
THEOREM TilesRequest == Spec => []PiecesTile
<1>1. Inv => PiecesTile
  BY DEF Inv
<1> QED
  BY <1>1, InvInit, InvNext, PTL DEF Spec

(***************************************************************************)
(* Whatever the request and the block size, every piece lies inside the    *)
(* request and inside one block, so it fits a message.                     *)
(***************************************************************************)
THEOREM FitsBlocks == Spec => []PiecesFit
<1>1. Inv => PiecesFit
  BY DEF Inv
<1> QED
  BY <1>1, InvInit, InvNext, PTL DEF Spec

(***************************************************************************)
(* The iterator and the pieces it has handed out are always well formed.   *)
(***************************************************************************)
THEOREM LoopTypeCorrect == Spec => []TypeOK
<1>1. Inv => TypeOK
  BY DEF Inv
<1> QED
  BY <1>1, InvInit, InvNext, PTL DEF Spec

-------------------------------------------------------------------------------
(***************************************************************************)
(* Counting the pieces.  Every piece but the last ends at a multiple of    *)
(* the block size, so there is one for each block from that of start to    *)
(* that of the last byte covered.                                          *)
(***************************************************************************)
BlockOf(x, b) == x \div b

CountInv ==
  pieces # << >> =>
    /\ a.start < a.cur
    /\ Len(pieces) = BlockOf(a.cur - 1, a.blockSize) - BlockOf(a.start, a.blockSize) + 1
    /\ NonAlignedCopyIsValid(a) => a.cur % a.blockSize = 0

\* Division of a natural number, written out.
LEMMA Division ==
  ASSUME NEW b \in Nat \ {0}, NEW x \in Nat
  PROVE  /\ x = b * (x \div b) + (x % b)
         /\ x % b \in 0 .. b - 1 /\ x \div b \in Nat
OBVIOUS

LEMMA BlockOfSum ==
  ASSUME NEW b \in Nat \ {0}, NEW q \in Int, NEW m \in 0 .. b - 1
  PROVE  (b * q + m) \div b = q
OBVIOUS

\* The last byte of a piece lies in the block of its first.
LEMMA PieceInBlock ==
  ASSUME NEW b \in Nat \ {0}, NEW x \in Nat, NEW r \in Nat \ {0}, (x % b) + r <= b
  PROVE  BlockOf(x + r - 1, b) = BlockOf(x, b)
<1>1. x = b * (x \div b) + (x % b) /\ x % b \in 0 .. b - 1 /\ x \div b \in Nat
  BY Division
<1>2. PICK q \in Nat, m \in 0 .. b - 1 : q = x \div b /\ m = x % b /\ x = b * q + m
  BY <1>1
<1>3. x + r - 1 = b * q + (m + r - 1) /\ m + r - 1 \in 0 .. b - 1
  BY <1>2
<1>4. (b * q + (m + r - 1)) \div b = q
  BY <1>3, BlockOfSum
<1> QED BY <1>2, <1>3, <1>4 DEF BlockOf

\* A piece that fills its block ends at a multiple of the block size.
LEMMA BlockFilled ==
  ASSUME NEW b \in Nat \ {0}, NEW x \in Nat
  PROVE  (x + (b - (x % b))) % b = 0
<1>1. x = b * (x \div b) + (x % b) /\ x % b \in 0 .. b - 1 /\ x \div b \in Nat
  BY Division
<1>2. PICK q \in Nat, m \in 0 .. b - 1 : q = x \div b /\ m = x % b /\ x = b * q + m
  BY <1>1
<1>3. x + (b - m) = b * (q + 1)
  BY <1>2
<1>4. (b * (q + 1)) % b = 0
  OBVIOUS
<1> QED BY <1>2, <1>3, <1>4

\* The byte before a multiple of the block size is in the block before it.
LEMMA BlockBefore ==
  ASSUME NEW b \in Nat \ {0}, NEW x \in Nat \ {0}, x % b = 0
  PROVE  BlockOf(x - 1, b) = BlockOf(x, b) - 1
<1>1. x = b * (x \div b) + (x % b) /\ x \div b \in Nat
  BY Division
<1>2. PICK q \in Nat : q = x \div b /\ x = b * q
  BY <1>1
<1>3. x - 1 = b * (q - 1) + (b - 1) /\ b - 1 \in 0 .. b - 1 /\ q - 1 \in Int
  BY <1>2
<1>4. (b * (q - 1) + (b - 1)) \div b = q - 1
  BY <1>3, BlockOfSum
<1> QED BY <1>2, <1>3, <1>4 DEF BlockOf

LEMMA CountNext == ASSUME Inv, CountInv, [Next]_vars PROVE CountInv'
<1>1. CASE Iterate
  <2>1. /\ IsNonAlignedCopy(a) /\ NonAlignedCopyIsValid(a)
        /\ a' = NonAlignedCopyNext(a)
        /\ pieces' = Append(pieces, <<a.cur, RetSize(a)>>)
        /\ pieces \in Seq(Nat \X Nat)
    BY <1>1 DEF Iterate, Inv, TypeOK
  <2>2. /\ RetSize(a) \in Nat \ {0} /\ a.blockSize \in Nat \ {0} /\ a.cur \in Nat
        /\ a.start \in Nat /\ a.len \in Nat /\ a.start <= a.cur
        /\ (a.cur % a.blockSize) + RetSize(a) <= a.blockSize
    <3>1. /\ RetSize(a) \in 1 .. a.blockSize
          /\ (a.cur % a.blockSize) + RetSize(a) <= a.blockSize
      BY <2>1, RetSizeBounds
    <3> QED BY <2>1, <3>1 DEF IsNonAlignedCopy
  <2>3. /\ a'.start = a.start /\ a'.len = a.len /\ a'.blockSize = a.blockSize
        /\ a'.cur = a.cur + RetSize(a)
    BY <2>1, NextIsNonAlignedCopy
  <2>4. /\ Len(pieces') = Len(pieces) + 1 /\ Len(pieces) \in Nat
        /\ pieces = << >> => Len(pieces) = 0
    BY <2>1, <2>2
  <2>5. PICK b, s, x, r : b = a.blockSize /\ s = a.start /\ x = a.cur /\ r = RetSize(a)
    OBVIOUS
  <2>6. BlockOf(x + r - 1, b) = BlockOf(x, b)
    BY <2>2, <2>5, PieceInBlock
  <2>7. BlockOf(x, b) \in Int /\ BlockOf(s, b) \in Int
    BY <2>2, <2>5 DEF BlockOf
  <2>8. Len(pieces') = BlockOf(x + r - 1, b) - BlockOf(s, b) + 1
    <3>1. CASE pieces = << >>
      BY <2>4, <2>5, <2>6, <2>7, <3>1 DEF Inv, PiecesTile
    <3>2. CASE pieces # << >>
      <4>1. s < x /\ x % b = 0 /\ Len(pieces) = BlockOf(x - 1, b) - BlockOf(s, b) + 1
        BY <2>1, <2>5, <3>2 DEF CountInv
      <4>2. BlockOf(x - 1, b) = BlockOf(x, b) - 1
        BY <2>2, <2>5, <4>1, BlockBefore
      <4> QED BY <2>4, <2>6, <2>7, <4>1, <4>2
    <3> QED BY <3>1, <3>2
  <2>9. ASSUME NonAlignedCopyIsValid(a)' PROVE (x + r) % b = 0
    <3>1. Remaining(a) = s + a.len - x /\ s + a.len - (x + r) > 0
      BY <2>3, <2>5, <2>9 DEF NonAlignedCopyIsValid, Remaining
    <3>2. b \in Nat \ {0} /\ x \in Nat /\ x % b \in Int /\ r \in Nat /\ s \in Nat /\ a.len \in Nat
      BY <2>2, <2>5
    <3>3. r = b - (x % b)
      BY <2>5, <3>1, <3>2 DEF RetSize
    <3> QED BY <3>2, <3>3, BlockFilled
  <2>10. a'.start < a'.cur /\ a'.cur - 1 = x + r - 1 /\ a'.cur = x + r
    BY <2>2, <2>3, <2>5
  <2> QED BY <2>3, <2>5, <2>8, <2>9, <2>10 DEF CountInv, NonAlignedCopyIsValid, Remaining, BlockOf
<1>2. CASE UNCHANGED vars
  BY <1>2 DEF vars, CountInv, NonAlignedCopyIsValid, Remaining, BlockOf
<1> QED
  BY <1>1, <1>2 DEF Next

(***************************************************************************)
(* Whatever the request and the block size, cvbd_read and cvbd_write send  *)
(* exactly one message for each block the request touches, and none for an *)
(* empty request.                                                          *)
(***************************************************************************)
THEOREM OnePiecePerBlock == Spec => []PiecesMinimal
<1>1. Init => CountInv
  BY DEF Init, CountInv
<1>2. Inv /\ CountInv => PiecesMinimal
  <2> SUFFICES ASSUME Inv, CountInv, ~NonAlignedCopyIsValid(a) PROVE Len(pieces) = BlocksTouched
    BY DEF PiecesMinimal
  <2>1. /\ a.start \in Nat /\ a.len \in Nat /\ a.cur \in a.start .. (a.start + a.len)
        /\ a.cur = a.start + a.len
    BY DEF Inv, TypeOK, IsNonAlignedCopy, NonAlignedCopyIsValid, Remaining
  <2>2. CASE pieces = << >>
    BY <2>1, <2>2 DEF Inv, PiecesTile, BlocksTouched
  <2>3. CASE pieces # << >>
    <3>1. a.len # 0 /\ Len(pieces) = BlockOf(a.cur - 1, a.blockSize) - BlockOf(a.start, a.blockSize) + 1
      BY <2>1, <2>3 DEF CountInv
    <3> QED BY <2>1, <3>1 DEF BlocksTouched, BlockOf
  <2> QED BY <2>2, <2>3
<1>3. Inv /\ CountInv /\ [Next]_vars => Inv' /\ CountInv'
  BY InvNext, CountNext
<1> QED
  BY <1>1, <1>2, <1>3, InvInit, PTL DEF Spec
===============================================================================
