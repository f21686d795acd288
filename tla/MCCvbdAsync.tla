------------------------------ MODULE MCCvbdAsync ------------------------------
(***************************************************************************)
(* Small instances of CvbdAsync.  A sector is one byte, a block and a      *)
(* message 2 bytes, a file 2 blocks.  A client writes its own bytes, a     *)
(* different one at each place, so that misplaced data shows.              *)
(***************************************************************************)
EXTENDS CvbdAsyncDevice, TLC

CONSTANTS c1, c2, v1, v2, a1, a2, a3

One == c1 :> v1
OneEach == (c1 :> v1) @@ (c2 :> v2)
Shared == (c1 :> v1) @@ (c2 :> v1)

Bytes == 0 .. 8
FirstByte(c) == IF c = c1 THEN 1 ELSE 5

Fill(c, s, n) ==
  [sector_num |-> s, nb_sectors |-> n, buffer |-> [k \in 0 .. n - 1 |-> FirstByte(c) + s + k]]
Read(s, n) == [sector_num |-> s, nb_sectors |-> n]

\* A write and a read of each block, and a write that is misaligned.
Writes == [c \in Clients |-> {Fill(c, 0, 2), Fill(c, 2, 2), Fill(c, 1, 1)}]
Reads == [c \in Clients |-> {Read(0, 2), Read(2, 2)}]

\* A write and a read of the same block.
OneWrite == [c \in Clients |-> {Fill(c, 2, 2)}]
OneRead == [c \in Clients |-> {Read(2, 2)}]

\* A read past the end of the file, and one that does not fit a message.
ReadsBeyond == [c \in Clients |-> {Read(4, 2)}]
ReadsLarge == [c \in Clients |-> {Read(0, 4)}]

\* One that is served and one that does not fit.
AnyReads == [c \in Clients |-> {Read(2, 2), Read(0, 4)}]

NoRequests == [c \in Clients |-> {}]

NoKill == {}
KillInUse == {"open", "idle"}
================================================================================
