----------------------------- MODULE BoundedFifo -----------------------------
(***************************************************************************)
(* What the fifo drivers (01.kernelnewbies, 03.mcdevdrvs) promise: every   *)
(* device is a bounded first-in first-out queue of bytes.  A write adds,   *)
(* in one step, the first bytes of its caller's buffer, as many as it      *)
(* could; a read removes bytes from the head.  Byte i of process p's       *)
(* buffer is the pair <<p, i>>.                                            *)
(***************************************************************************)
EXTENDS Integers, Sequences

CONSTANTS Procs, Devs, Capacity

VARIABLE queue     \* the contents of every device

Chunk(p, n) == [i \in 1..n |-> <<p, i>>]

Init == queue = [d \in Devs |-> << >>]

Put(d, p, n) ==
  /\ Len(queue[d]) + n <= Capacity
  /\ queue' = [queue EXCEPT ![d] = @ \o Chunk(p, n)]

Get(d, n) ==
  /\ n <= Len(queue[d])
  /\ queue' = [queue EXCEPT ![d] = SubSeq(@, n + 1, Len(@))]

Next ==
  \E d \in Devs : \E n \in 1..Capacity :
    Get(d, n) \/ \E p \in Procs : Put(d, p, n)

Spec == Init /\ [][Next]_queue
=============================================================================
