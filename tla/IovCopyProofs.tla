----------------------------- MODULE IovCopyProofs -----------------------------
(***************************************************************************)
(* What iov_from_buf and iov_to_buf do, for every list of iovecs, offset   *)
(* and number of bytes.                                                    *)
(***************************************************************************)
EXTENDS IovCopy, TLAPS

TypeInv ==
  /\ iov \in Seq(Nat) /\ start \in Nat /\ bytes \in Nat
  /\ i \in 1 .. Len(iov) + 1
  /\ done \in 0 .. bytes /\ offset \in Nat /\ passed \in Nat
  /\ \A p \in copies : /\ p.iov \in 1 .. Len(iov)
                       /\ p.at \in Nat /\ p.from \in Nat /\ p.len \in Nat /\ p.flat \in Nat

\* Until the first memcpy what is left of the offset lies before the iovec at
\* hand; from then on the buffer and the iovecs advance together.
Position ==
  /\ copies = {} => done = 0 /\ passed + offset = start
  /\ copies # {} => offset = 0 /\ (done < bytes => passed = start + done)

\* The memcpy calls so far only touched what is counted in done.
Behind == \A p \in copies : p.from + p.len <= done

Inv == TypeInv /\ Position /\ Behind /\ CopiesInBounds /\ CopiesInOrder

--------------------------------------------------------------------------------
\* Before the loop nothing has been moved.
LEMMA InvInit == Init => Inv
<1> SUFFICES ASSUME Init PROVE Inv
  OBVIOUS
<1>1. iov \in Seq(Nat) /\ start \in Nat /\ bytes \in Nat
  BY IovAssumption DEF Init
<1>2. Len(iov) \in Nat
  BY <1>1
<1> QED
  BY <1>1, <1>2 DEF Init, Inv, TypeInv, Position, Behind, CopiesInBounds, CopiesInOrder

\* A turn of the loop that moves bytes keeps the invariant.
LEMMA InvCopy == Inv /\ Copy => Inv'
<1> SUFFICES ASSUME Inv, Copy PROVE Inv'
  OBVIOUS
<1> DEFINE len == CopyLen
           new == [iov |-> i, at |-> offset, from |-> done, len |-> len, flat |-> passed + offset]
<1>0. start \in Nat /\ bytes \in Nat /\ done \in Nat /\ offset \in Nat /\ passed \in Nat
  BY DEF Inv, TypeInv
<1>1. /\ i \in 1 .. Len(iov) /\ iov[i] \in Nat /\ Len(iov) \in Nat
      /\ offset < iov[i]
  BY DEF Inv, TypeInv, Copy, Continues
<1>2. len \in Nat /\ offset + len <= iov[i] /\ done + len <= bytes
  BY <1>1 DEF Inv, TypeInv, CopyLen
<1>3. passed + offset = start + done
  BY DEF Inv, Position, TypeInv, Copy, Continues
<1>4. done + len < bytes => len = iov[i] - offset
  BY <1>1, <1>2 DEF Inv, TypeInv, CopyLen
<1>5. /\ copies' = copies \cup {new}
      /\ done' = done + len /\ offset' = 0 /\ i' = i + 1 /\ passed' = passed + iov[i]
      /\ iov' = iov /\ start' = start /\ bytes' = bytes
  BY DEF Copy, args
<1> HIDE DEF len
<1>6. /\ new.iov = i /\ new.at = offset /\ new.from = done /\ new.len = len
      /\ new.flat = start + done
  BY <1>3
<1> HIDE DEF new
<1>7. TypeInv'
  <2>1. i + 1 \in 1 .. Len(iov) + 1 /\ done + len \in 0 .. bytes /\ passed + iov[i] \in Nat
    BY <1>1, <1>2 DEF Inv, TypeInv
  <2>2. \A p \in copies' : /\ p.iov \in 1 .. Len(iov)
                           /\ p.at \in Nat /\ p.from \in Nat /\ p.len \in Nat /\ p.flat \in Nat
    <3>1. /\ new.iov \in 1 .. Len(iov)
          /\ new.at \in Nat /\ new.from \in Nat /\ new.len \in Nat /\ new.flat \in Nat
      BY <1>0, <1>1, <1>2, <1>6
    <3> QED
      BY <3>1, <1>5 DEF Inv, TypeInv
  <2> QED
    BY <2>1, <2>2, <1>5 DEF Inv, TypeInv
<1>8. Position'
  <2>1. done + len < bytes => passed + iov[i] = start + (done + len)
    BY <1>0, <1>1, <1>2, <1>3, <1>4
  <2>2. copies' # {}
    BY <1>5
  <2>3. done' < bytes' => passed' = start' + done'
    BY <2>1, <1>5
  <2> QED
    BY <2>2, <2>3, <1>5 DEF Position
<1>9. Behind'
  BY <1>2, <1>5, <1>6 DEF Inv, TypeInv, Behind
<1>10. CopiesInBounds'
  <2>1. new.at >= 0 /\ new.at + new.len <= iov[new.iov] /\ new.from + new.len <= bytes
    BY <1>0, <1>2, <1>6
  <2>2. \A p \in copies :
          p.at >= 0 /\ p.at + p.len <= iov[p.iov] /\ p.from + p.len <= bytes
    BY DEF Inv, CopiesInBounds
  <2> QED
    BY <2>1, <2>2, <1>5 DEF CopiesInBounds
<1>11. CopiesInOrder'
  <2>1. \A p \in copies' : p.flat = start' + p.from
    BY <1>5, <1>6 DEF Inv, CopiesInOrder
  <2>2. ASSUME NEW k \in 0 .. done' - 1
        PROVE  \E p \in copies' :
                 /\ k \in p.from .. p.from + p.len - 1
                 /\ \A q \in copies' \ {p} : k \notin q.from .. q.from + q.len - 1
    <3>1. CASE k < done
      <4>1. PICK p \in copies :
              /\ k \in p.from .. p.from + p.len - 1
              /\ \A q \in copies \ {p} : k \notin q.from .. q.from + q.len - 1
        <5>1. k \in 0 .. done - 1
          BY <3>1 DEF Inv, TypeInv
        <5> QED
          BY <5>1 DEF Inv, CopiesInOrder
      <4>2. k \notin new.from .. new.from + new.len - 1
        BY <3>1, <1>6 DEF Inv, TypeInv
      <4> QED
        BY <4>1, <4>2, <1>5
    <3>2. CASE ~(k < done)
      <4>1. k \in new.from .. new.from + new.len - 1
        BY <3>2, <1>2, <1>5, <1>6 DEF Inv, TypeInv
      <4>2. ASSUME NEW q \in copies PROVE k \notin q.from .. q.from + q.len - 1
        BY <3>2 DEF Inv, TypeInv, Behind
      <4> QED
        BY <4>1, <4>2, <1>5
    <3> QED
      BY <3>1, <3>2
  <2> QED
    BY <2>1, <2>2 DEF CopiesInOrder
<1> QED
  BY <1>7, <1>8, <1>9, <1>10, <1>11 DEF Inv

\* Passing n bytes takes them off the offset.
LEMMA Shift == \A a, b, n \in Nat : (a + n) + (b - n) = a + b
  OBVIOUS

\* A turn that passes an iovec keeps it.
LEMMA InvSkip == Inv /\ Skip => Inv'
<1> SUFFICES ASSUME Inv, Skip PROVE Inv'
  OBVIOUS
<1>0. start \in Nat /\ offset \in Nat /\ passed \in Nat
  BY DEF Inv, TypeInv
<1>1. i \in 1 .. Len(iov) /\ iov[i] \in Nat /\ Len(iov) \in Nat /\ offset - iov[i] \in Nat
  BY DEF Inv, TypeInv, Skip, Continues
<1>2. TypeInv'
  BY <1>1 DEF Inv, TypeInv, Skip, args
<1>3. Position'
  <2>0. /\ copies = {} => passed + offset = start
        /\ copies # {} => offset = 0
    BY DEF Inv, Position
  <2>1. copies = {} => (passed + iov[i]) + (offset - iov[i]) = start
    BY <2>0, <1>0, <1>1, Shift
  <2>2. copies # {} => offset - iov[i] = 0 /\ iov[i] = 0
    BY <2>0, <1>0, <1>1
  <2>3. /\ copies' = copies /\ done' = done /\ start' = start /\ bytes' = bytes
        /\ passed' = passed + iov[i] /\ offset' = offset - iov[i]
    BY DEF Skip, args
  <2>4. CASE copies = {}
    BY <2>1, <2>3, <2>4 DEF Inv, Position
  <2>5. CASE copies # {}
    <3>1. passed' = passed
      BY <2>2, <2>3, <2>5, <1>0
    <3> QED
      BY <2>2, <2>3, <2>5, <3>1 DEF Inv, Position
  <2> QED
    BY <2>4, <2>5
<1>4. Behind' /\ CopiesInBounds' /\ CopiesInOrder'
  BY DEF Inv, Behind, CopiesInBounds, CopiesInOrder, Skip, args
<1> QED
  BY <1>2, <1>3, <1>4 DEF Inv

\* The invariant holds throughout the loop.
LEMMA Invariance == Spec => []Inv
<1>1. Inv /\ UNCHANGED vars => Inv'
  BY DEF Inv, TypeInv, Position, Behind, CopiesInBounds, CopiesInOrder, vars, args
<1>2. Inv /\ [Next]_vars => Inv'
  BY <1>1, InvCopy, InvSkip DEF Next
<1> QED
  BY InvInit, <1>2, PTL DEF Spec

(***************************************************************************)
(* Neither function ever reads or writes outside an iovec or outside the   *)
(* bytes of the message it was given.                                      *)
(***************************************************************************)
THEOREM StaysInBounds == Spec => []CopiesInBounds
<1>1. Inv => CopiesInBounds
  BY DEF Inv
<1> QED
  BY <1>1, Invariance, PTL

(***************************************************************************)
(* Byte k of the message is moved exactly once, and to or from byte        *)
(* start + k of the iovecs: the scattered copy is a contiguous one.        *)
(***************************************************************************)
THEOREM MovesInOrder == Spec => []CopiesInOrder
<1>1. Inv => CopiesInOrder
  BY DEF Inv
<1> QED
  BY <1>1, Invariance, PTL

(***************************************************************************)
(* The functions move all they are asked to move or all there is, and      *)
(* their assertion fails only for an offset past the last iovec (both      *)
(* callers pass 0).                                                        *)
(***************************************************************************)
THEOREM ResultIsRight == Spec => []Result
<1>1. Inv => Result
  <2> SUFFICES ASSUME Inv, ~Continues PROVE
         /\ done = bytes \/ (i = Len(iov) + 1 /\ (offset = 0 => passed = start + done))
         /\ offset # 0 => start > passed
    BY DEF Result
  <2>1. Len(iov) \in Nat
    BY DEF Inv, TypeInv
  <2>2. offset # 0 => start > passed
    BY DEF Inv, TypeInv, Position
  <2>3. ASSUME done # bytes PROVE i = Len(iov) + 1 /\ (offset = 0 => passed = start + done)
    BY <2>1, <2>3 DEF Inv, TypeInv, Position, Continues
  <2> QED
    BY <2>2, <2>3
<1> QED
  BY <1>1, Invariance, PTL
================================================================================
