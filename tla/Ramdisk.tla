------------------------------ MODULE Ramdisk ------------------------------
(***************************************************************************)
(* linux-device-drivers/21.ramdisk_blkdev/ramdisk_blk.c: the requests of a *)
(* disk in memory, and their end when the module is unloaded (its set-up   *)
(* is in Setup).                                                           *)
(*                                                                         *)
(* The block layer hands over requests that lie within the capacity, each  *)
(* a list of segments; queue_rq may run for several of them at once, and a *)
(* request's segments are copied one by one.  The memory of the segments   *)
(* is one buffer here, in which each segment has its place.  del_gendisk   *)
(* lets no new request in and waits for those in flight.                   *)
(***************************************************************************)
EXTENDS Integers, Sequences

CONSTANTS
  Reqs,        \* the requests of the tag set
  NrSectors,   \* NR_SECTORS, also the capacity
  SectorValues,\* what a sector may hold
  Zero,        \* what kzalloc leaves in it
  Shapes       \* bound: how a request may be cut, the sector at which each segment ends

ASSUME RamdiskAssumption ==
  /\ NrSectors \in Nat \ {0} /\ Zero \in SectorValues
  /\ \A ends \in Shapes :
       /\ ends \in Seq(1 .. NrSectors) /\ ends # <<>>
       /\ \A i, j \in DOMAIN ends : i < j => ends[i] < ends[j]

VARIABLES
  data,    \* blk_prv->data
  freed,   \* data was freed
  rq,      \* for each request: where it is, its direction, memory, iter and pos
  exit_pc  \* where ramdisk_blkdev_exit is

ramdisk_vars == <<data, freed, rq, exit_pc>>

NoRq == [at |-> "idle", dir |-> "none", sector |-> 0, buf |-> <<>>, ends |-> <<>>,
         iter |-> 1, pos |-> 0]

RamdiskStart ==
  /\ data = [s \in 0 .. NrSectors - 1 |-> Zero]
  /\ freed = FALSE
  /\ rq = [r \in Reqs |-> NoRq]
  /\ exit_pc = "loaded"

-----------------------------------------------------------------------------
(* The block layer *)

\* What the caller has put into the n sectors of a write; a read's are empty.
Buffers(dir, n) == IF dir = "write" THEN [1 .. n -> SectorValues] ELSE {[k \in 1 .. n |-> Zero]}

Submit(r) ==
  /\ exit_pc = "loaded"
  /\ rq[r] = NoRq
  /\ \E dir \in {"read", "write"}, ends \in Shapes :
       LET n == ends[Len(ends)]
       IN  \E sector \in 0 .. NrSectors - n, buf \in Buffers(dir, n) :
             rq' = [rq EXCEPT ![r] = [at |-> "queued", dir |-> dir, sector |-> sector,
                                      buf |-> buf, ends |-> ends, iter |-> 1, pos |-> 0]]
  /\ UNCHANGED <<data, freed, exit_pc>>

-----------------------------------------------------------------------------
(* ramdisk_blkdev_queue_rq and request_handle *)

QueueRq(r) ==
  /\ rq[r].at = "queued"
  /\ rq' = [rq EXCEPT ![r].at = "started", ![r].pos = rq[r].sector]
  /\ UNCHANGED <<data, freed, exit_pc>>

\* b_buf: where the segment at hand of request q begins.
B_buf(q) == IF q.iter = 1 THEN 0 ELSE q.ends[q.iter - 1]

\* b_len: its length, cut at the end of the disk.
B_len(q) ==
  LET len == q.ends[q.iter] - B_buf(q)
  IN  IF q.pos + len > NrSectors THEN NrSectors - q.pos ELSE len

\* Mutant: the next segment starts where this one did.
AdvanceNot(pos, n) == pos

\* pos += b_len.
Advance(pos, n) == pos + n

\* One round of rq_for_each_segment.  Freed memory holds anything and keeps
\* nothing.
Segment(r) ==
  /\ rq[r].at = "started" /\ rq[r].iter <= Len(rq[r].ends)
  /\ LET pos == rq[r].pos
         b_buf == B_buf(rq[r])
         n == B_len(rq[r])
     IN  \/ /\ rq[r].dir = "write"
            /\ data' = [s \in DOMAIN data |-> IF ~freed /\ s \in pos .. pos + n - 1
                                              THEN rq[r].buf[b_buf + s - pos + 1] ELSE data[s]]
            /\ rq' = [rq EXCEPT ![r].iter = @ + 1, ![r].pos = Advance(@, n)]
         \/ /\ rq[r].dir = "read"
            /\ \E memory \in IF freed THEN [DOMAIN data -> SectorValues] ELSE {data} :
                 rq' = [rq EXCEPT ![r].buf = [k \in DOMAIN @ |->
                                     IF k \in b_buf + 1 .. b_buf + n
                                     THEN memory[pos + k - b_buf - 1] ELSE @[k]],
                                  ![r].iter = @ + 1, ![r].pos = Advance(@, n)]
            /\ UNCHANGED data
  /\ UNCHANGED <<freed, exit_pc>>

\* blk_mq_end_request.
EndRequest(r) ==
  /\ rq[r].at = "started" /\ rq[r].iter > Len(rq[r].ends)
  /\ rq' = [rq EXCEPT ![r] = NoRq]
  /\ UNCHANGED <<data, freed, exit_pc>>

-----------------------------------------------------------------------------
(* ramdisk_blkdev_exit *)

\* del_gendisk: no new request.
DelGendisk ==
  /\ exit_pc = "loaded"
  /\ exit_pc' = "draining"
  /\ UNCHANGED <<data, freed, rq>>

\* It returns when no request is in flight.
Drained ==
  /\ exit_pc = "draining"
  /\ \A r \in Reqs : rq[r] = NoRq
  /\ exit_pc' = "free"
  /\ UNCHANGED <<data, freed, rq>>

\* The tag set, data and blk_prv.
FreeAll ==
  /\ exit_pc = "free"
  /\ exit_pc' = "gone"
  /\ freed' = TRUE
  /\ UNCHANGED <<data, rq>>

RamdiskRequest(r) == QueueRq(r) \/ Segment(r) \/ EndRequest(r)

RamdiskNext ==
  \/ \E r \in Reqs : Submit(r) \/ RamdiskRequest(r)
  \/ DelGendisk \/ Drained \/ FreeAll

RamdiskSpec == RamdiskStart /\ [][RamdiskNext]_ramdisk_vars

\* A request that was handed over is worked on to its end.
RamdiskFairness == \A r \in Reqs : WF_ramdisk_vars(RamdiskRequest(r))

-----------------------------------------------------------------------------
(* Properties *)

\* What the abstract disk is asked; what has been moved lies before pos.
Asked(q) ==
  [dir |-> q.dir, sector |-> q.sector, buf |-> q.buf,
   moved |-> IF q.at = "started" THEN 1 .. q.pos - q.sector ELSE {}]

Requests == [r \in Reqs |-> Asked(rq[r])]

Flat == INSTANCE FlatDisk WITH disk <- data, req <- Requests

\* However its segments are cut, whichever other request runs in between and
\* even when the module is being unloaded, a request does what a disk promises:
\* each sector is moved once, to or from its own place in memory that is still
\* there, none is cut off, and the request ends.
IsFlatDisk == Flat!FlatSpec
=============================================================================
