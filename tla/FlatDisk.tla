------------------------------ MODULE FlatDisk ------------------------------
(***************************************************************************)
(* What a disk promises: a request moves each of its sectors once, in any  *)
(* order and in any portions, between its buffer and its place on the      *)
(* disk, and ends when all of them have been moved.                        *)
(***************************************************************************)
EXTENDS Integers, Sequences

CONSTANTS Reqs, NrSectors, SectorValues

VARIABLES
  disk,   \* what is on the disk
  req     \* for each request: dir, first sector, buffer, sectors moved

flat_vars == <<disk, req>>

Idle == [dir |-> "none", sector |-> 0, buf |-> <<>>, moved |-> {}]

FlatInit ==
  /\ disk \in [0 .. NrSectors - 1 -> SectorValues]
  /\ req = [r \in Reqs |-> Idle]

\* A request that lies on the disk.
Ask(r) ==
  /\ req[r] = Idle
  /\ \E dir \in {"read", "write"}, n \in 1 .. NrSectors :
       \E sector \in 0 .. NrSectors - n, buf \in [1 .. n -> SectorValues] :
         req' = [req EXCEPT ![r] =
                   [dir |-> dir, sector |-> sector, buf |-> buf, moved |-> {}]]
  /\ UNCHANGED disk

\* Some of the sectors that are still to be moved are moved.
Move(r) ==
  /\ req[r].dir # "none"
  /\ \E K \in SUBSET (DOMAIN req[r].buf \ req[r].moved) :
       LET At(k) == req[r].sector + k - 1
           buf == [k \in DOMAIN req[r].buf |->
                     IF req[r].dir = "read" /\ k \in K THEN disk[At(k)] ELSE req[r].buf[k]]
       IN  /\ K # {}
           /\ disk' = [s \in DOMAIN disk |->
                         IF req[r].dir = "write" /\ \E k \in K : At(k) = s
                         THEN req[r].buf[s - req[r].sector + 1] ELSE disk[s]]
           /\ req' = [req EXCEPT ![r] = [dir |-> @.dir, sector |-> @.sector, buf |-> buf,
                                          moved |-> @.moved \cup K]]

End(r) ==
  /\ req[r].dir # "none"
  /\ req[r].moved = DOMAIN req[r].buf
  /\ req' = [req EXCEPT ![r] = Idle]
  /\ UNCHANGED disk

FlatNext == \E r \in Reqs : Ask(r) \/ Move(r) \/ End(r)

FlatSafe == FlatInit /\ [][FlatNext]_flat_vars

\* Every request comes to its end.
FlatSpec == FlatSafe /\ \A r \in Reqs : WF_flat_vars(Move(r)) /\ WF_flat_vars(End(r))
=============================================================================
