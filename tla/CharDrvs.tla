------------------------------- MODULE CharDrvs -------------------------------
(***************************************************************************)
(* The file operations of the chardrvs character driver                    *)
(* (linux-device-drivers/02.chardrvs/chardrvs.c): open, release, write,    *)
(* read, ioctl and poll, called by concurrent processes on one device.     *)
(*                                                                         *)
(* The device holds a kfifo guarded by two mutexes, w_f_lock for the       *)
(* writers and r_f_lock for the readers, so one writer and one reader may  *)
(* be inside the kfifo at once.  The free space is cached in dev->avail,   *)
(* which each writer and each reader refreshes under a third mutex, lock,  *)
(* AFTER it has left the kfifo's own mutex.  A writer sleeps on wq_f until *)
(* the cached value covers its request.  Everything that is hard in this   *)
(* driver comes from that cache.                                           *)
(*                                                                         *)
(* A step is the code between two points where another process can be     *)
(* seen: taking or dropping a mutex, reading or writing a shared field,    *)
(* sleeping.  The bytes are abstracted to their number: used is            *)
(* kfifo->in - kfifo->out.                                                 *)
(***************************************************************************)
EXTENDS Integers, FiniteSets

CONSTANTS
  Procs,             \* the processes that use the device, one open file each
  None,              \* "no owner" of a mutex
  fsize,             \* module parameter fsize
  Size,              \* what kfifo_alloc makes of fsize
  Counts,            \* the byte counts the processes pass to read and write
  Admins,            \* the processes with CAP_SYS_ADMIN
  Limits,            \* the values CHARDRVS_IOCSETNRUSERS may set
  Killable,          \* the processes a signal may reach
  DEFAULT_NR_USERS

ASSUME ProcsAssumption ==
  /\ IsFiniteSet(Procs)
  /\ None \notin Procs
  /\ Admins \subseteq Procs
  /\ Killable \subseteq Procs

\* kfifo_alloc rounds the size up to a power of two and refuses one below 2.
ASSUME KfifoAllocAssumption ==
  /\ fsize \in Nat /\ fsize >= 2
  /\ Size \in Nat /\ fsize <= Size /\ Size < 2 * fsize
  /\ \E k \in 1..fsize : Size = 2^k

ASSUME RequestAssumption ==
  /\ Counts \subseteq Nat \ {0}
  /\ Limits \subseteq Nat
  /\ DEFAULT_NR_USERS \in Nat

VARIABLES
  usrs_cnt,   \* dev->usrs_cnt, how many files may be open
  ref_cntr,   \* dev->ref_cntr, how many are
  avail,      \* dev->avail, the cached free space
  used,       \* bytes in dev->myfifo
  w_f_lock, r_f_lock, lock,   \* the owners of the three mutexes
  wq_f,       \* the processes asleep on dev->wq_f
  file,       \* the processes with an open file
  pc,         \* where each process is in the driver
  cnt,        \* the count argument of its read or write
  len,        \* the number of bytes its kfifo copy moves
  seen        \* a shared value it has read and will use in a later step

dev   == <<usrs_cnt, ref_cntr, avail, used>>
locks == <<w_f_lock, r_f_lock, lock>>
local == <<cnt, len, seen>>
vars  == <<dev, locks, wq_f, file, pc, local>>

WritePcs == {"w_lock", "w_wait", "w_sleep", "w_copy", "w_commit"}
ReadPcs  == {"r_lock", "r_copy", "r_commit", "r_wake"}
PollPcs  == {"p_test", "p_sleep"}
Pcs == {"idle", "open_inc", "rel_dec", "wu_lock", "wu_store", "ru_lock", "ru_store"}
         \cup WritePcs \cup ReadPcs \cup PollPcs

Unused == Size - used      \* kfifo_avail(&dev->myfifo)

Lesser(a, b) == IF a <= b THEN a ELSE b

Goto(p, l) == pc' = [pc EXCEPT ![p] = l]

\* A call returns to user space; its local variables disappear.
Return(p) ==
  /\ Goto(p, "idle")
  /\ cnt'  = [cnt EXCEPT ![p] = 0]
  /\ len'  = [len EXCEPT ![p] = 0]
  /\ seen' = [seen EXCEPT ![p] = 0]

\* A call with argument c begins at l on p's open file.
Call(p, l, c) ==
  /\ pc[p] = "idle"
  /\ p \in file
  /\ Goto(p, l)
  /\ cnt' = [cnt EXCEPT ![p] = c]
  /\ UNCHANGED <<len, seen>>

\* setup_chardrvs has run: the device is ready and nobody has opened it.
Init ==
  /\ usrs_cnt = DEFAULT_NR_USERS
  /\ ref_cntr = 0
  /\ avail = fsize
  /\ used = 0
  /\ w_f_lock = None /\ r_f_lock = None /\ lock = None
  /\ wq_f = {}
  /\ file = {}
  /\ pc = [p \in Procs |-> "idle"]
  /\ cnt = [p \in Procs |-> 0]
  /\ len = [p \in Procs |-> 0]
  /\ seen = [p \in Procs |-> 0]

-----------------------------------------------------------------------------
(* open and release *)

\* atomic_read and the comparison; the increment is a later step.  (With
\* ref_cntr >= usrs_cnt open returns -EMFILE and nothing changes.)
OpenCheck(p) ==
  /\ pc[p] = "idle"
  /\ p \notin file
  /\ ref_cntr < usrs_cnt
  /\ Goto(p, "open_inc")
  /\ UNCHANGED <<dev, locks, wq_f, file, local>>

OpenInc(p) ==
  /\ pc[p] = "open_inc"
  /\ ref_cntr' = ref_cntr + 1
  /\ file' = file \cup {p}
  /\ Return(p)
  /\ UNCHANGED <<usrs_cnt, avail, used, locks, wq_f>>

ReleaseCheck(p) ==
  /\ pc[p] = "idle"
  /\ p \in file
  /\ seen' = [seen EXCEPT ![p] = ref_cntr]
  /\ Goto(p, "rel_dec")
  /\ UNCHANGED <<dev, locks, wq_f, file, cnt, len>>

\* Mutant: release compares with 1.
ReleaseDecOffByOne(p) ==
  /\ pc[p] = "rel_dec"
  /\ ref_cntr' = IF seen[p] > 1 THEN ref_cntr - 1 ELSE ref_cntr
  /\ file' = file \ {p}
  /\ Return(p)
  /\ UNCHANGED <<usrs_cnt, avail, used, locks, wq_f>>

\* The decrement is skipped when the earlier atomic_read found no user.
ReleaseDec(p) ==
  /\ pc[p] = "rel_dec"
  /\ ref_cntr' = IF seen[p] > 0 THEN ref_cntr - 1 ELSE ref_cntr
  /\ file' = file \ {p}
  /\ Return(p)
  /\ UNCHANGED <<usrs_cnt, avail, used, locks, wq_f>>

-----------------------------------------------------------------------------
(* write *)

WriteCall(p) ==
  /\ \E c \in Counts : Call(p, "w_lock", c)
  /\ UNCHANGED <<dev, locks, wq_f, file>>

\* Mutant: write does not wait for w_f_lock.
WriteNoLock(p) ==
  /\ pc[p] = "w_lock"
  /\ w_f_lock' = p
  /\ Goto(p, "w_wait")
  /\ UNCHANGED <<dev, r_f_lock, lock, wq_f, file, local>>

WriteLock(p) ==
  /\ pc[p] = "w_lock"
  /\ w_f_lock = None
  /\ w_f_lock' = p
  /\ Goto(p, "w_wait")
  /\ UNCHANGED <<dev, r_f_lock, lock, wq_f, file, local>>

\* mutex_lock_interruptible fails when a signal ends the wait for the mutex.
WriteLockIntr(p) ==
  /\ pc[p] = "w_lock"
  /\ p \in Killable
  /\ w_f_lock # None
  /\ Return(p)
  /\ UNCHANGED <<dev, locks, wq_f, file>>

\* Mutant: the sleep ends when there is any space, as in poll.
WriteWaitAnySpace(p) ==
  /\ pc[p] = "w_wait"
  /\ \/ /\ avail # 0
        /\ Goto(p, "w_copy")
        /\ UNCHANGED wq_f
     \/ /\ avail = 0
        /\ Goto(p, "w_sleep")
        /\ wq_f' = wq_f \cup {p}
  /\ UNCHANGED <<dev, locks, file, local>>

\* One evaluation of wait_event_interruptible's condition on the cached avail.
WriteWait(p) ==
  /\ pc[p] = "w_wait"
  /\ \/ /\ avail >= cnt[p]
        /\ Goto(p, "w_copy")
        /\ UNCHANGED wq_f
     \/ /\ avail < cnt[p]
        /\ Goto(p, "w_sleep")
        /\ wq_f' = wq_f \cup {p}
  /\ UNCHANGED <<dev, locks, file, local>>

WriteWoken(p) ==
  /\ pc[p] = "w_sleep"
  /\ p \notin wq_f
  /\ Goto(p, "w_wait")
  /\ UNCHANGED <<dev, locks, wq_f, file, local>>

\* A signal ends the sleep: the code returns at once and keeps w_f_lock.
WriteIntr(p) ==
  /\ pc[p] = "w_sleep"
  /\ p \in Killable
  /\ avail < cnt[p]
  /\ wq_f' = wq_f \ {p}
  /\ Return(p)
  /\ UNCHANGED <<dev, locks, file>>

\* kfifo_from_user first fixes how much it will copy.
WriteCopy(p) ==
  /\ pc[p] = "w_copy"
  /\ len' = [len EXCEPT ![p] = Lesser(cnt[p], Unused)]
  /\ Goto(p, "w_commit")
  /\ UNCHANGED <<dev, locks, wq_f, file, cnt, seen>>

\* Mutant: the error path of kfifo_from_user keeps w_f_lock.
WriteCommitKeepsLock(p) ==
  /\ pc[p] = "w_commit"
  /\ \E k \in 0..len[p] :
       /\ used' = used + k
       /\ w_f_lock' = IF k < len[p] THEN w_f_lock ELSE None
  /\ Goto(p, "wu_lock")
  /\ cnt' = [cnt EXCEPT ![p] = 0]
  /\ len' = [len EXCEPT ![p] = 0]
  /\ UNCHANGED <<usrs_cnt, ref_cntr, avail, r_f_lock, lock, wq_f, file, seen>>

\* It then publishes the k bytes it could copy (k < len: the user's buffer
\* faulted, and the write will return -EFAULT although it added k bytes) and
\* the driver drops w_f_lock.
WriteCommit(p) ==
  /\ pc[p] = "w_commit"
  /\ \E k \in 0..len[p] : used' = used + k
  /\ w_f_lock' = None
  /\ Goto(p, "wu_lock")
  /\ cnt' = [cnt EXCEPT ![p] = 0]
  /\ len' = [len EXCEPT ![p] = 0]
  /\ UNCHANGED <<usrs_cnt, ref_cntr, avail, r_f_lock, lock, wq_f, file, seen>>

-----------------------------------------------------------------------------
(* The refresh of dev->avail that ends every write and every read: take    *)
(* lock and compute kfifo_avail; store it and drop lock.                   *)

\* Mutant: the refresh does not wait for lock.
AvailReadNoLock(p, from, to) ==
  /\ pc[p] = from
  /\ lock' = p
  /\ seen' = [seen EXCEPT ![p] = Unused]
  /\ Goto(p, to)
  /\ UNCHANGED <<dev, w_f_lock, r_f_lock, wq_f, file, cnt, len>>

AvailRead(p, from, to) ==
  /\ pc[p] = from
  /\ lock = None
  /\ lock' = p
  /\ seen' = [seen EXCEPT ![p] = Unused]
  /\ Goto(p, to)
  /\ UNCHANGED <<dev, w_f_lock, r_f_lock, wq_f, file, cnt, len>>

AvailStore(p, from) ==
  /\ pc[p] = from
  /\ avail' = seen[p]
  /\ lock' = None
  /\ Return(p)
  /\ UNCHANGED <<usrs_cnt, ref_cntr, used, w_f_lock, r_f_lock, wq_f, file>>

WriteAvailRead(p)  == AvailRead(p, "wu_lock", "wu_store")
WriteAvailStore(p) == AvailStore(p, "wu_store")
ReadAvailRead(p)   == AvailRead(p, "ru_lock", "ru_store")
ReadAvailStore(p)  == AvailStore(p, "ru_store")

-----------------------------------------------------------------------------
(* read *)

ReadCall(p) ==
  /\ \E c \in Counts : Call(p, "r_lock", c)
  /\ UNCHANGED <<dev, locks, wq_f, file>>

ReadLock(p) ==
  /\ pc[p] = "r_lock"
  /\ r_f_lock = None
  /\ r_f_lock' = p
  /\ Goto(p, "r_copy")
  /\ UNCHANGED <<dev, w_f_lock, lock, wq_f, file, local>>

ReadLockIntr(p) ==
  /\ pc[p] = "r_lock"
  /\ p \in Killable
  /\ r_f_lock # None
  /\ Return(p)
  /\ UNCHANGED <<dev, locks, wq_f, file>>

ReadCopy(p) ==
  /\ pc[p] = "r_copy"
  /\ len' = [len EXCEPT ![p] = Lesser(cnt[p], used)]
  /\ Goto(p, "r_commit")
  /\ UNCHANGED <<dev, locks, wq_f, file, cnt, seen>>

ReadCommit(p) ==
  /\ pc[p] = "r_commit"
  /\ \E k \in 0..len[p] : used' = used - k
  /\ Goto(p, "r_wake")
  /\ cnt' = [cnt EXCEPT ![p] = 0]
  /\ len' = [len EXCEPT ![p] = 0]
  /\ UNCHANGED <<usrs_cnt, ref_cntr, avail, locks, wq_f, file, seen>>

\* Mutant: a read returns without the refresh.
ReadWakeNoRefresh(p) ==
  /\ pc[p] = "r_wake"
  /\ wq_f' = {}
  /\ r_f_lock' = None
  /\ Return(p)
  /\ UNCHANGED <<dev, w_f_lock, lock, file>>

\* Mutant: a read keeps r_f_lock.
ReadWakeKeepsLock(p) ==
  /\ pc[p] = "r_wake"
  /\ wq_f' = {}
  /\ Goto(p, "ru_lock")
  /\ UNCHANGED <<dev, locks, file, local>>

\* wake_up_interruptible wakes every sleeper of wq_f, before avail is refreshed.
ReadWake(p) ==
  /\ pc[p] = "r_wake"
  /\ wq_f' = {}
  /\ r_f_lock' = None
  /\ Goto(p, "ru_lock")
  /\ UNCHANGED <<dev, w_f_lock, lock, file, local>>

-----------------------------------------------------------------------------
(* ioctl and poll *)

\* CHARDRVS_IOCSETNRUSERS.  __get_user stores 0 in its destination when the
\* user's address faults.  The other commands, and this one for a process
\* without CAP_SYS_ADMIN, change nothing.
IoctlSetUsers(p) ==
  /\ pc[p] = "idle"
  /\ p \in file
  /\ p \in Admins
  /\ usrs_cnt' \in Limits \cup {0}
  /\ UNCHANGED <<ref_cntr, avail, used, locks, wq_f, file, pc, local>>

\* poll_wait registers p on wq_f, under lock, before avail is tested: a
\* wake-up that comes between the two is not missed.
PollCall(p) ==
  /\ Call(p, "p_test", 0)
  /\ lock = None
  /\ wq_f' = wq_f \cup {p}
  /\ UNCHANGED <<dev, locks, file>>

PollTest(p) ==
  /\ pc[p] = "p_test"
  /\ \/ /\ avail # 0
        /\ wq_f' = wq_f \ {p}
        /\ Return(p)
     \/ /\ avail = 0
        /\ Goto(p, "p_sleep")
        /\ UNCHANGED <<wq_f, local>>
  /\ UNCHANGED <<dev, locks, file>>

\* The registration outlives a wake-up; the driver is asked again.
PollWoken(p) ==
  /\ pc[p] = "p_sleep"
  /\ p \notin wq_f
  /\ lock = None
  /\ wq_f' = wq_f \cup {p}
  /\ Goto(p, "p_test")
  /\ UNCHANGED <<dev, locks, file, local>>

PollTimeout(p) ==
  /\ pc[p] = "p_sleep"
  /\ wq_f' = wq_f \ {p}
  /\ Return(p)
  /\ UNCHANGED <<dev, locks, file>>

-----------------------------------------------------------------------------

\* What a process chooses to do, or what happens to it from outside.
Environment(p) ==
  \/ OpenCheck(p) \/ ReleaseCheck(p) \/ WriteCall(p) \/ ReadCall(p)
  \/ IoctlSetUsers(p) \/ PollCall(p)
  \/ WriteLockIntr(p) \/ WriteIntr(p) \/ ReadLockIntr(p) \/ PollTimeout(p)

\* The steps that wait for a mutex.
Acquire(p) ==
  \/ WriteLock(p) \/ ReadLock(p) \/ WriteAvailRead(p) \/ ReadAvailRead(p)
  \/ PollWoken(p)

\* The steps the driver takes once a call has begun.
Driver(p) ==
  \/ OpenInc(p) \/ ReleaseDec(p)
  \/ WriteWait(p) \/ WriteWoken(p) \/ WriteCopy(p) \/ WriteCommit(p)
  \/ WriteAvailStore(p)
  \/ ReadCopy(p) \/ ReadCommit(p) \/ ReadWake(p) \/ ReadAvailStore(p)
  \/ PollTest(p)

Next == \E p \in Procs : Environment(p) \/ Acquire(p) \/ Driver(p)

Spec == Init /\ [][Next]_vars

\* A runnable process is scheduled, and the kernel's mutexes hand over to
\* their waiters in order.  Nothing obliges a process to make another call.
FairSpec ==
  /\ Spec
  /\ \A p \in Procs : WF_vars(Driver(p)) /\ SF_vars(Acquire(p))

-----------------------------------------------------------------------------
(* Properties *)

TypeOK ==
  /\ usrs_cnt \in Nat /\ ref_cntr \in Nat /\ avail \in Nat /\ used \in Nat
  /\ w_f_lock \in Procs \cup {None}
  /\ r_f_lock \in Procs \cup {None}
  /\ lock \in Procs \cup {None}
  /\ wq_f \subseteq Procs
  /\ file \subseteq Procs
  /\ pc \in [Procs -> Pcs]
  /\ cnt \in [Procs -> Nat]
  /\ len \in [Procs -> Nat]
  /\ seen \in [Procs -> Nat]

WriterUpdating(p) == pc[p] \in {"wu_lock", "wu_store"}

\* The cached dev->avail that write and poll act on promises more space than
\* the kfifo has only while a writer has published its bytes and not yet
\* stored the new value (lines 92 to 96): no interleaving of refreshes may
\* leave a too large value behind.
AvailNotOptimistic ==
  (\A p \in Procs : ~WriterUpdating(p)) => avail <= Unused

\* The cache promises less space than there is only while a reader's refresh
\* (lines 117 to 126) is outstanding: a slower writer's store never erases the
\* space a reader has reported.  (Before the first refresh the cache holds
\* fsize, which may be less than what kfifo_alloc provided.)
AvailNotPessimistic ==
  (\A p \in Procs : pc[p] \notin {"r_wake", "ru_lock", "ru_store"})
    => avail >= Lesser(fsize, Unused)

\* kfifo copies without a lock of its own.  With w_f_lock and r_f_lock as the
\* driver takes them, the amounts a writer and a reader fixed before they
\* copied still fit when they publish, whatever ran in between.
CopyFits ==
  /\ used <= Size
  /\ \A p \in Procs :
       /\ pc[p] = "w_commit" => used + len[p] <= Size
       /\ pc[p] = "r_commit" => len[p] <= used

\* ref_cntr, a check and an update in two steps in both open and release, is
\* exactly the number of open files, so release never skips its decrement.
RefCountExact == ref_cntr = Cardinality(file)

\* write leaves w_f_lock locked behind it only on the one return path of
\* line 89, a signal during the sleep; every other return has unlocked it,
\* and read never leaves r_f_lock or lock behind.
LeakOnlyBySignal ==
  /\ \A p \in Procs :
       w_f_lock = p /\ pc[p] \notin WritePcs => p \in Killable
  /\ \A p \in Procs : r_f_lock = p => pc[p] \in ReadPcs
  /\ \A p \in Procs : lock = p => pc[p] \in {"wu_store", "ru_store"}

\* A write that passes the test of line 88 while no other write has a refresh
\* outstanding finds room for its whole request.  (A write may return short
\* only when it overtook the refresh of an earlier one.)
FullWriteUnlessOvertaking ==
  [][\A p \in Procs :
        /\ pc[p] = "w_wait" /\ pc'[p] = "w_copy"
        /\ \A q \in Procs : ~WriterUpdating(q)
        => cnt[p] <= Unused]_vars

\* Every read returns: r_f_lock and lock are never held across a sleep.
ReadReturns ==
  \A p \in Procs : pc[p] \in ReadPcs \cup {"ru_lock", "ru_store"} ~> pc[p] = "idle"

\* "wake up writer" (line 119): a sleeping writer whose request fits in the
\* kfifo does not sleep forever.
WriterWokenUp ==
  \A p \in Procs : pc[p] = "w_sleep" /\ cnt[p] <= Unused ~> pc[p] # "w_sleep"
=============================================================================
