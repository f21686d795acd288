------------------------------ MODULE MCCvbdSync ------------------------------
(***************************************************************************)
(* Small instances of CvbdSync.  A sector is one byte, a block 2 sectors,  *)
(* a message carries 2 blocks and a file has 3: the request of 2 blocks at *)
(* the second block therefore takes two messages.  A client writes its own *)
(* bytes, a different one at each place, so that misplaced data shows.     *)
(***************************************************************************)
EXTENDS CvbdSyncDevice, TLC

CONSTANTS c1, c2, v1, v2

OneEach == (c1 :> v1) @@ (c2 :> v2)
Shared == (c1 :> v1) @@ (c2 :> v1)

Bytes == 0 .. 8
FirstByte == (c1 :> 1) @@ (c2 :> 5)

Fill(c, s, n) ==
  [sector_num |-> s, nb_sectors |-> n, buffer |-> [k \in 0 .. n - 1 |-> FirstByte[c] + k]]

\* One write that is split, one that is not, one that is refused.
Writes == [c \in Clients |-> {Fill(c, 2, 4), Fill(c, 0, 2), Fill(c, 1, 1)}]
SplitWrites == [c \in Clients |-> {Fill(c, 2, 4)}]
Reads == [c \in Clients |-> {[sector_num |-> 2, nb_sectors |-> 4]}]

NoKill == {}
KillOutsideOpen == PC \ (Gone \cup {"wait_open"})
KillAnywhere == PC \ Gone
===============================================================================
