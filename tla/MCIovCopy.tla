------------------------------- MODULE MCIovCopy -------------------------------
(***************************************************************************)
(* Every list of at most 3 iovecs of 0 to 3 bytes.                         *)
(***************************************************************************)
EXTENDS IovCopy

SmallIovs == UNION {[1 .. n -> 0 .. 3] : n \in 0 .. 3}
================================================================================
