------------------------------- MODULE ChrFifo -------------------------------
(***************************************************************************)
(* The read and write operations of the two plain fifo drivers,            *)
(* 01.kernelnewbies (one device) and 03.mcdevdrvs (one fifo, two mutexes   *)
(* and one cdev per minor).  Their code is the same line for line; a file  *)
(* is bound to its device in open.                                         *)
(*                                                                         *)
(* Here the kfifo is a ring: slot (counter % Size) of buf, with the        *)
(* counters in and out running freely and wrapping at CounterMod (2^32 in  *)
(* the kernel).  The writers' mutex and the readers' mutex are different,  *)
(* so a writer fills slots while a reader empties others, a byte at a      *)
(* time; each publishes its counter when it has finished or when the       *)
(* caller's buffer faulted.                                                *)
(***************************************************************************)
EXTENDS Integers, Sequences

CONSTANTS
  Procs,        \* the processes, each with one open file
  Devs,         \* the minors
  None,         \* "no owner", "no byte"
  Size,         \* the size of each kfifo, a power of two
  CounterMod,   \* where in and out wrap
  Counts        \* the byte counts passed to read and write

ASSUME RingAssumption ==
  /\ Size \in Nat \ {0}
  /\ CounterMod \in Nat /\ CounterMod % Size = 0 /\ CounterMod > Size
  /\ Counts \subseteq Nat
  /\ None \notin Procs

VARIABLES
  buf, in, out,       \* the kfifo of every device
  w_f_lock, r_f_lock, \* the owners of its mutexes
  file,               \* the device each process has open, or None
  pc,                 \* where each process is
  count,              \* the count argument of its call
  len,                \* how many bytes its kfifo copy will move
  done,               \* how many it has moved
  got                 \* what a reader has copied to its caller

kfifo == <<buf, in, out>>
mutexes == <<w_f_lock, r_f_lock>>
vars == <<kfifo, mutexes, file, pc, count, len, done, got>>

Lesser(a, b) == IF a <= b THEN a ELSE b

Goto(p, l) == pc' = [pc EXCEPT ![p] = l]

\* kfifo_len: the counters are unsigned, their difference wraps with them.
Used(d) == (in[d] - out[d]) % CounterMod

Return(p) ==
  /\ Goto(p, "idle")
  /\ count' = [count EXCEPT ![p] = 0]
  /\ len'  = [len EXCEPT ![p] = 0]
  /\ done' = [done EXCEPT ![p] = 0]
  /\ got'  = [got EXCEPT ![p] = << >>]

Call(p, l) ==
  /\ pc[p] = "idle"
  /\ file[p] # None
  /\ \E c \in Counts : count' = [count EXCEPT ![p] = c]
  /\ Goto(p, l)
  /\ UNCHANGED <<kfifo, mutexes, file, len, done, got>>

Init ==
  /\ buf = [d \in Devs |-> [i \in 0..Size - 1 |-> None]]
  /\ in = [d \in Devs |-> 0]
  /\ out = [d \in Devs |-> 0]
  /\ w_f_lock = [d \in Devs |-> None]
  /\ r_f_lock = [d \in Devs |-> None]
  /\ file = [p \in Procs |-> None]
  /\ pc = [p \in Procs |-> "idle"]
  /\ count = [p \in Procs |-> 0]
  /\ len = [p \in Procs |-> 0]
  /\ done = [p \in Procs |-> 0]
  /\ got = [p \in Procs |-> << >>]

-----------------------------------------------------------------------------

Open(p) ==
  /\ file[p] = None
  /\ \E d \in Devs : file' = [file EXCEPT ![p] = d]
  /\ UNCHANGED <<kfifo, mutexes, pc, count, len, done, got>>

Release(p) ==
  /\ pc[p] = "idle"
  /\ file[p] # None
  /\ file' = [file EXCEPT ![p] = None]
  /\ UNCHANGED <<kfifo, mutexes, pc, count, len, done, got>>

-----------------------------------------------------------------------------
(* write *)

WriteCall(p) == Call(p, "w_lock")

WriteLock(p) ==
  /\ pc[p] = "w_lock"
  /\ w_f_lock[file[p]] = None
  /\ w_f_lock' = [w_f_lock EXCEPT ![file[p]] = p]
  /\ Goto(p, "w_len")
  /\ UNCHANGED <<kfifo, r_f_lock, file, count, len, done, got>>

\* mutex_lock_interruptible, ended by a signal.
WriteLockIntr(p) ==
  /\ pc[p] = "w_lock"
  /\ w_f_lock[file[p]] # None
  /\ Return(p)
  /\ UNCHANGED <<kfifo, mutexes, file>>

\* kfifo_from_user begins: out is read here and may move on afterwards.
WriteLen(p) ==
  /\ pc[p] = "w_len"
  /\ len' = [len EXCEPT ![p] = Lesser(count[p], Size - Used(file[p]))]
  /\ Goto(p, "w_copy")
  /\ UNCHANGED <<kfifo, mutexes, file, count, done, got>>

WriteByte(p) ==
  /\ pc[p] = "w_copy"
  /\ done[p] < len[p]
  /\ LET d == file[p]
     IN  buf' = [buf EXCEPT ![d][(in[d] + done[p]) % Size] = <<p, done[p] + 1>>]
  /\ done' = [done EXCEPT ![p] = @ + 1]
  /\ UNCHANGED <<in, out, mutexes, file, pc, count, len, got>>

\* in moves past what was copied: all of len, or less after a fault.  write
\* returns count, or -EFAULT, whichever part of the caller's bytes this was.
WritePublish(p) ==
  /\ pc[p] = "w_copy"
  /\ in' = [in EXCEPT ![file[p]] = (@ + done[p]) % CounterMod]
  /\ w_f_lock' = [w_f_lock EXCEPT ![file[p]] = None]
  /\ Return(p)
  /\ UNCHANGED <<buf, out, r_f_lock, file>>

-----------------------------------------------------------------------------
(* read *)

ReadCall(p) == Call(p, "r_lock")

\* Mutant: readers do not exclude each other.
ReadNoLock(p) ==
  /\ pc[p] = "r_lock"
  /\ r_f_lock' = [r_f_lock EXCEPT ![file[p]] = p]
  /\ Goto(p, "r_len")
  /\ UNCHANGED <<kfifo, w_f_lock, file, count, len, done, got>>

ReadLock(p) ==
  /\ pc[p] = "r_lock"
  /\ r_f_lock[file[p]] = None
  /\ r_f_lock' = [r_f_lock EXCEPT ![file[p]] = p]
  /\ Goto(p, "r_len")
  /\ UNCHANGED <<kfifo, w_f_lock, file, count, len, done, got>>

ReadLockIntr(p) ==
  /\ pc[p] = "r_lock"
  /\ r_f_lock[file[p]] # None
  /\ Return(p)
  /\ UNCHANGED <<kfifo, mutexes, file>>

ReadLen(p) ==
  /\ pc[p] = "r_len"
  /\ len' = [len EXCEPT ![p] = Lesser(count[p], Used(file[p]))]
  /\ Goto(p, "r_copy")
  /\ UNCHANGED <<kfifo, mutexes, file, count, done, got>>

ReadByte(p) ==
  /\ pc[p] = "r_copy"
  /\ done[p] < len[p]
  /\ LET d == file[p]
     IN  got' = [got EXCEPT ![p] = Append(@, buf[d][(out[d] + done[p]) % Size])]
  /\ done' = [done EXCEPT ![p] = @ + 1]
  /\ UNCHANGED <<kfifo, mutexes, file, pc, count, len>>

\* Mutant: out moves by what was asked for, not by what was copied.
ReadPublishCount(p) ==
  /\ pc[p] = "r_copy"
  /\ out' = [out EXCEPT ![file[p]] = (@ + count[p]) % CounterMod]
  /\ r_f_lock' = [r_f_lock EXCEPT ![file[p]] = None]
  /\ Return(p)
  /\ UNCHANGED <<buf, in, w_f_lock, file>>

ReadPublish(p) ==
  /\ pc[p] = "r_copy"
  /\ out' = [out EXCEPT ![file[p]] = (@ + done[p]) % CounterMod]
  /\ r_f_lock' = [r_f_lock EXCEPT ![file[p]] = None]
  /\ Return(p)
  /\ UNCHANGED <<buf, in, w_f_lock, file>>

-----------------------------------------------------------------------------

Acquire(p) == WriteLock(p) \/ ReadLock(p)

Driver(p) ==
  \/ WriteLen(p) \/ WriteByte(p) \/ WritePublish(p)
  \/ ReadLen(p) \/ ReadByte(p) \/ ReadPublish(p)

Environment(p) ==
  \/ Open(p) \/ Release(p) \/ WriteCall(p) \/ ReadCall(p)
  \/ WriteLockIntr(p) \/ ReadLockIntr(p)

Next == \E p \in Procs : Environment(p) \/ Acquire(p) \/ Driver(p)

Spec == Init /\ [][Next]_vars

-----------------------------------------------------------------------------
(* Properties *)

\* The unread bytes of a device, in order.
Contents(d) == [i \in 1..Used(d) |-> buf[d][(out[d] + i - 1) % Size]]

\* Although bytes move one at a time, faults cut copies short, the counters
\* wrap and the two ends share no mutex, each device behaves as a bounded
\* queue to which a write adds one unbroken piece of its caller's buffer.
Fifo == INSTANCE BoundedFifo WITH
          Capacity <- Size, queue <- [d \in Devs |-> Contents(d)]

IsBoundedFifo == Fifo!Spec

\* What a reader has copied so far is the head of the queue: no writer reuses
\* a slot under it, and no other reader moves out (kfifo_to_user, line 93).
ReadsHead ==
  \A p \in Procs : pc[p] = "r_copy" =>
    /\ len[p] <= Used(file[p])
    /\ got[p] = SubSeq(Contents(file[p]), 1, done[p])

=============================================================================
