------------------------------ MODULE BlockDevice ------------------------------
(***************************************************************************)
(* What a guest can rely on, whichever driver serves it: volumes that are  *)
(* read and written piecewise, with a write-back cache in front of a file. *)
(*                                                                         *)
(*   - A request takes effect in pieces, each of them atomically and each  *)
(*     byte once, between its begin and its end.                           *)
(*   - A read delivers what the volume held when the piece took effect,    *)
(*     all earlier writes included, those of other users too.              *)
(*   - Writes reach the file later, in the order they took effect.         *)
(*   - When the server dies, the writes that have not reached the file are *)
(*     lost, save that of the oldest some bytes may be there; users of the *)
(*     dead server write into the void.                                    *)
(***************************************************************************)
EXTENDS Integers, Sequences

CONSTANTS
  Users, VolumeFor,  \* request slots, and the volume each belongs to
  Volumes, FileSize, Zero, Null,
  Ops                \* [Users -> sets of requests [write, start, buf]]

VARIABLES
  contents,  \* what reads see
  file,      \* what has reached the file
  behind,    \* the writes in between, oldest first
  online,    \* the users of the server that runs
  gone,      \* users whose process has died
  op         \* the request of each user, or Null
vars == <<contents, file, behind, online, gone, op>>

Blank == [v \in Volumes |-> [p \in 0 .. FileSize - 1 |-> Zero]]
Undelivered(buf) == [k \in DOMAIN buf |-> Null]

\* f with the bytes of g, a function on some of its offsets, put in.
Patch(f, g) == [p \in DOMAIN f |-> IF p \in DOMAIN g THEN g[p] ELSE f[p]]

Init ==
  /\ contents = Blank /\ file = Blank
  /\ behind = << >>
  /\ online = {} /\ gone = {}
  /\ op = [u \in Users |-> Null]

--------------------------------------------------------------------------------
\* todo: bytes that have not taken effect; got: what a read saw when they did.
Begin(u) ==
  /\ u \notin gone /\ op[u] = Null
  /\ \E o \in Ops[u] :
       op' = [op EXCEPT ![u] =
                [write |-> o.write, start |-> o.start, buf |-> o.buf,
                 got |-> Undelivered(o.buf), todo |-> DOMAIN o.buf]]
  /\ UNCHANGED <<contents, file, behind, online, gone>>

WritePiece(u) ==
  /\ op[u] # Null /\ op[u].write
  /\ \E S \in SUBSET op[u].todo :
       LET o == op[u]
           bytes == [p \in {o.start + k : k \in S} |-> o.buf[p - o.start]]
       IN  /\ op' = [op EXCEPT ![u].todo = @ \ S]
           /\ IF u \in online
              THEN /\ contents' = [contents EXCEPT ![VolumeFor[u]] = Patch(@, bytes)]
                   /\ behind' = Append(behind, [volume |-> VolumeFor[u], bytes |-> bytes])
              ELSE UNCHANGED <<contents, behind>>
  /\ UNCHANGED <<file, online, gone>>

ReadPiece(u) ==
  /\ op[u] # Null /\ ~op[u].write
  /\ \E S \in SUBSET op[u].todo :
       op' = [op EXCEPT
         ![u].todo = @ \ S,
         ![u].got = Patch(@, [k \in S |-> contents[VolumeFor[u]][op[u].start + k]])]
  /\ UNCHANGED <<contents, file, behind, online, gone>>

Deliver(u) ==
  /\ op[u] # Null /\ ~op[u].write
  /\ \E S \in SUBSET (DOMAIN op[u].buf \ op[u].todo) :
       op' = [op EXCEPT ![u].buf = Patch(@, [k \in S |-> op[u].got[k]])]
  /\ UNCHANGED <<contents, file, behind, online, gone>>

End(u) ==
  /\ u \notin gone /\ op[u] # Null
  /\ op[u].todo = {}
  /\ ~op[u].write => op[u].buf = op[u].got
  /\ op' = [op EXCEPT ![u] = Null]
  /\ UNCHANGED <<contents, file, behind, online, gone>>

\* The oldest write reaches its file.
Land ==
  /\ behind # << >>
  /\ LET w == Head(behind) IN file' = [file EXCEPT ![w.volume] = Patch(@, w.bytes)]
  /\ behind' = Tail(behind)
  /\ UNCHANGED <<contents, online, gone, op>>

Connect ==
  /\ \E U \in SUBSET (Users \ online) : U # {} /\ online' = online \cup U
  /\ UNCHANGED <<contents, file, behind, gone, op>>

ServerDies ==
  /\ \/ UNCHANGED file
     \/ /\ behind # << >>
        /\ LET w == Head(behind)
           IN  \E S \in SUBSET DOMAIN w.bytes :
                 file' = [file EXCEPT ![w.volume] = Patch(@, [p \in S |-> w.bytes[p]])]
  /\ contents' = file'
  /\ behind' = << >>
  /\ online' = {}
  /\ UNCHANGED <<gone, op>>

UsersDie ==
  \E U \in SUBSET (Users \ gone) :
    /\ U # {}
    /\ gone' = gone \cup U
    /\ op' = [u \in Users |-> IF u \in U THEN Null ELSE op[u]]
    /\ UNCHANGED <<contents, file, behind, online>>

Next ==
  \/ \E u \in Users : Begin(u) \/ WritePiece(u) \/ ReadPiece(u) \/ Deliver(u) \/ End(u)
  \/ Land \/ Connect \/ ServerDies \/ UsersDie

Spec == Init /\ [][Next]_vars
================================================================================
