---------------------------- MODULE CharDrvs_proofs ----------------------------
(***************************************************************************)
(* Proofs of the safety properties of CharDrvs, for any number of          *)
(* processes and any fifo size.  IndInv is the inductive invariant; its    *)
(* parts are preserved one lemma each.                                     *)
(***************************************************************************)
EXTENDS CharDrvs, FiniteSetTheorems, TLAPS

\* Who holds which mutex, from where everybody is.  w_f_lock alone may outlive
\* its critical section, and only in the hands of a process a signal can reach.
MutexInv ==
  \A p \in Procs :
    /\ lock = p <=> pc[p] \in {"wu_store", "ru_store"}
    /\ r_f_lock = p <=> pc[p] \in {"r_copy", "r_commit", "r_wake"}
    /\ pc[p] \in {"w_wait", "w_sleep", "w_copy", "w_commit"} => w_f_lock = p
    /\ w_f_lock = p /\ pc[p] \notin WritePcs => p \in Killable

\* Only a process with an open file is inside a call, and a process about to
\* decrement ref_cntr has seen at least its own reference.
RefInv ==
  /\ RefCountExact
  /\ \A p \in Procs :
       /\ pc[p] = "open_inc" => p \notin file
       /\ pc[p] \notin {"idle", "open_inc"} => p \in file
       /\ pc[p] = "rel_dec" => seen[p] > 0

ReadOutstanding(p) == pc[p] \in {"r_wake", "ru_lock", "ru_store"}

\* The value the holder of lock is about to store is as good as the cache must
\* be, unless another process will refresh the cache after it.
SeenInv ==
  \A h \in Procs : pc[h] \in {"wu_store", "ru_store"} =>
    /\ (\A q \in Procs \ {h} : ~WriterUpdating(q)) => seen[h] <= Unused
    /\ (\A q \in Procs \ {h} : ~ReadOutstanding(q)) => seen[h] >= Unused

CacheInv == SeenInv /\ AvailNotOptimistic /\ AvailNotPessimistic

IndInv == TypeOK /\ CopyFits /\ MutexInv /\ RefInv /\ CacheInv
-----------------------------------------------------------------------------
\* The number of open files when p opens or releases one.
LEMMA FileCardinality ==
  ASSUME TypeOK, NEW p \in Procs
  PROVE  /\ Cardinality(file) \in Nat
         /\ p \notin file => Cardinality(file \cup {p}) = Cardinality(file) + 1
         /\ p \in file => /\ Cardinality(file) > 0
                          /\ Cardinality(file \ {p}) = Cardinality(file) - 1
<1>1. IsFiniteSet(file)
  BY ProcsAssumption, FS_Subset DEF TypeOK
<1>2. Cardinality(file) \in Nat
  BY <1>1, FS_CardinalityType
<1>3. ASSUME p \in file PROVE Cardinality(file) > 0
  <2>1. Cardinality(file) # 0
    BY <1>1, <1>3, FS_EmptySet
  <2>2. QED
    BY <1>2, <2>1
<1>4. ASSUME p \in file PROVE Cardinality(file \ {p}) = Cardinality(file) - 1
  BY <1>1, <1>4, FS_RemoveElement
<1>5. ASSUME p \notin file PROVE Cardinality(file \cup {p}) = Cardinality(file) + 1
  BY <1>1, <1>5, FS_AddElement
<1>6. QED
  BY <1>2, <1>3, <1>4, <1>5

\* Every step keeps the types.
LEMMA TypeStep ==
  TypeOK /\ CopyFits /\ RefInv /\ [Next]_vars => TypeOK'
<1> SUFFICES ASSUME TypeOK, CopyFits, RefInv, [Next]_vars PROVE TypeOK'
  OBVIOUS
<1> USE ProcsAssumption, KfifoAllocAssumption, RequestAssumption DEF TypeOK, CopyFits, Pcs, WritePcs, ReadPcs, PollPcs, Unused, Lesser
<1>1. CASE UNCHANGED vars
  BY <1>1 DEF vars, dev, locks, local
<1>2. ASSUME NEW p \in Procs, Environment(p) \/ Acquire(p) \/ Driver(p)
      PROVE  TypeOK'
  <2>1. CASE OpenCheck(p)
    BY <2>1 DEF OpenCheck, Goto, dev, locks, local
  <2>2. CASE OpenInc(p)
    BY <2>2 DEF OpenInc, Return, Goto, dev, locks, local
  <2>3. CASE ReleaseCheck(p)
    BY <2>3 DEF ReleaseCheck, Goto, dev, locks, local
  <2>4. CASE ReleaseDec(p)
    <3>1. p \in file /\ ref_cntr = Cardinality(file)
      BY <2>4 DEF ReleaseDec, RefInv, RefCountExact
    <3>2. Cardinality(file) \in Nat /\ Cardinality(file) > 0
      BY <3>1, FileCardinality, Zenon
    <3>3. ref_cntr - 1 \in Nat
      BY <3>1, <3>2
    <3>4. QED
      BY <2>4, <3>3 DEF ReleaseDec, Return, Goto, locks
  <2>5. CASE WriteCall(p)
    BY <2>5 DEF WriteCall, Call, Goto, dev, locks, local
  <2>6. CASE WriteLock(p)
    BY <2>6 DEF WriteLock, Goto, dev, locks, local
  <2>7. CASE WriteLockIntr(p)
    BY <2>7 DEF WriteLockIntr, Return, Goto, dev, locks, local
  <2>8. CASE WriteWait(p)
    BY <2>8 DEF WriteWait, Goto, dev, locks, local
  <2>9. CASE WriteWoken(p)
    BY <2>9 DEF WriteWoken, Goto, dev, locks, local
  <2>10. CASE WriteIntr(p)
    BY <2>10 DEF WriteIntr, Return, Goto, dev, locks, local
  <2>11. CASE WriteCopy(p)
    BY <2>11 DEF WriteCopy, Goto, dev, locks, local
  <2>12. CASE WriteCommit(p)
    BY <2>12 DEF WriteCommit, Goto, dev, locks, local
  <2>13. CASE WriteAvailRead(p)
    BY <2>13 DEF WriteAvailRead, AvailRead, Goto, dev, locks, local
  <2>14. CASE WriteAvailStore(p)
    BY <2>14 DEF WriteAvailStore, AvailStore, Return, Goto, dev, locks, local
  <2>15. CASE ReadCall(p)
    BY <2>15 DEF ReadCall, Call, Goto, dev, locks, local
  <2>16. CASE ReadLock(p)
    BY <2>16 DEF ReadLock, Goto, dev, locks, local
  <2>17. CASE ReadLockIntr(p)
    BY <2>17 DEF ReadLockIntr, Return, Goto, dev, locks, local
  <2>18. CASE ReadCopy(p)
    BY <2>18 DEF ReadCopy, Goto, dev, locks, local
  <2>19. CASE ReadCommit(p)
    BY <2>19 DEF ReadCommit, Goto, dev, locks, local
  <2>20. CASE ReadWake(p)
    BY <2>20 DEF ReadWake, Goto, dev, locks, local
  <2>21. CASE ReadAvailRead(p)
    BY <2>21 DEF ReadAvailRead, AvailRead, Goto, dev, locks, local
  <2>22. CASE ReadAvailStore(p)
    BY <2>22 DEF ReadAvailStore, AvailStore, Return, Goto, dev, locks, local
  <2>23. CASE IoctlSetUsers(p)
    BY <2>23 DEF IoctlSetUsers, dev, locks, local
  <2>24. CASE PollCall(p)
    BY <2>24 DEF PollCall, Call, Goto, dev, locks, local
  <2>25. CASE PollTest(p)
    BY <2>25 DEF PollTest, Return, Goto, dev, locks, local
  <2>26. CASE PollWoken(p)
    BY <2>26 DEF PollWoken, Goto, dev, locks, local
  <2>27. CASE PollTimeout(p)
    BY <2>27 DEF PollTimeout, Return, Goto, dev, locks, local
  <2>28. QED
    BY <1>2, <2>1, <2>2, <2>3, <2>4, <2>5, <2>6, <2>7, <2>8, <2>9, <2>10, <2>11, <2>12, <2>13, <2>14, <2>15, <2>16, <2>17, <2>18, <2>19, <2>20, <2>21, <2>22, <2>23, <2>24, <2>25, <2>26, <2>27
       DEF Environment, Acquire, Driver
<1>3. QED
  BY <1>1, <1>2 DEF Next

\* What a copy fixed before it began still fits: the two fifo mutexes exclude
\* the only steps that could take the space or the bytes away.
LEMMA CopyStep ==
  TypeOK /\ MutexInv /\ CopyFits /\ [Next]_vars => CopyFits'
<1> SUFFICES ASSUME TypeOK, MutexInv, CopyFits, [Next]_vars PROVE CopyFits'
  OBVIOUS
<1> USE ProcsAssumption, KfifoAllocAssumption DEF TypeOK, MutexInv, CopyFits, Pcs, WritePcs, ReadPcs, PollPcs, Unused, Lesser
<1>1. CASE UNCHANGED vars
  BY <1>1 DEF vars, dev, locks, local
<1>2. ASSUME NEW p \in Procs, Environment(p) \/ Acquire(p) \/ Driver(p)
      PROVE  CopyFits'
  <2>1. CASE OpenCheck(p)
    BY <2>1 DEF OpenCheck, Goto, dev, locks, local
  <2>2. CASE OpenInc(p)
    BY <2>2 DEF OpenInc, Return, Goto, dev, locks, local
  <2>3. CASE ReleaseCheck(p)
    BY <2>3 DEF ReleaseCheck, Goto, dev, locks, local
  <2>4. CASE ReleaseDec(p)
    BY <2>4 DEF ReleaseDec, Return, Goto, dev, locks, local
  <2>5. CASE WriteCall(p)
    BY <2>5 DEF WriteCall, Call, Goto, dev, locks, local
  <2>6. CASE WriteLock(p)
    BY <2>6 DEF WriteLock, Goto, dev, locks, local
  <2>7. CASE WriteLockIntr(p)
    BY <2>7 DEF WriteLockIntr, Return, Goto, dev, locks, local
  <2>8. CASE WriteWait(p)
    BY <2>8 DEF WriteWait, Goto, dev, locks, local
  <2>9. CASE WriteWoken(p)
    BY <2>9 DEF WriteWoken, Goto, dev, locks, local
  <2>10. CASE WriteIntr(p)
    BY <2>10 DEF WriteIntr, Return, Goto, dev, locks, local
  <2>11. CASE WriteCopy(p)
    BY <2>11 DEF WriteCopy, Goto, dev, locks, local
  <2>12. CASE WriteCommit(p)
    BY <2>12 DEF WriteCommit, Goto, dev, locks, local
  <2>13. CASE WriteAvailRead(p)
    BY <2>13 DEF WriteAvailRead, AvailRead, Goto, dev, locks, local
  <2>14. CASE WriteAvailStore(p)
    BY <2>14 DEF WriteAvailStore, AvailStore, Return, Goto, dev, locks, local
  <2>15. CASE ReadCall(p)
    BY <2>15 DEF ReadCall, Call, Goto, dev, locks, local
  <2>16. CASE ReadLock(p)
    BY <2>16 DEF ReadLock, Goto, dev, locks, local
  <2>17. CASE ReadLockIntr(p)
    BY <2>17 DEF ReadLockIntr, Return, Goto, dev, locks, local
  <2>18. CASE ReadCopy(p)
    BY <2>18 DEF ReadCopy, Goto, dev, locks, local
  <2>19. CASE ReadCommit(p)
    BY <2>19 DEF ReadCommit, Goto, dev, locks, local
  <2>20. CASE ReadWake(p)
    BY <2>20 DEF ReadWake, Goto, dev, locks, local
  <2>21. CASE ReadAvailRead(p)
    BY <2>21 DEF ReadAvailRead, AvailRead, Goto, dev, locks, local
  <2>22. CASE ReadAvailStore(p)
    BY <2>22 DEF ReadAvailStore, AvailStore, Return, Goto, dev, locks, local
  <2>23. CASE IoctlSetUsers(p)
    BY <2>23 DEF IoctlSetUsers, dev, locks, local
  <2>24. CASE PollCall(p)
    BY <2>24 DEF PollCall, Call, Goto, dev, locks, local
  <2>25. CASE PollTest(p)
    BY <2>25 DEF PollTest, Return, Goto, dev, locks, local
  <2>26. CASE PollWoken(p)
    BY <2>26 DEF PollWoken, Goto, dev, locks, local
  <2>27. CASE PollTimeout(p)
    BY <2>27 DEF PollTimeout, Return, Goto, dev, locks, local
  <2>28. QED
    BY <1>2, <2>1, <2>2, <2>3, <2>4, <2>5, <2>6, <2>7, <2>8, <2>9, <2>10, <2>11, <2>12, <2>13, <2>14, <2>15, <2>16, <2>17, <2>18, <2>19, <2>20, <2>21, <2>22, <2>23, <2>24, <2>25, <2>26, <2>27
       DEF Environment, Acquire, Driver
<1>3. QED
  BY <1>1, <1>2 DEF Next

\* Every step keeps the mutexes with the processes that hold them.
LEMMA MutexStep ==
  TypeOK /\ MutexInv /\ [Next]_vars => MutexInv'
<1> SUFFICES ASSUME TypeOK, MutexInv, [Next]_vars PROVE MutexInv'
  OBVIOUS
<1> USE ProcsAssumption DEF TypeOK, MutexInv, Pcs, WritePcs, ReadPcs, PollPcs
<1>1. CASE UNCHANGED vars
  BY <1>1 DEF vars, dev, locks, local
<1>2. ASSUME NEW p \in Procs, Environment(p) \/ Acquire(p) \/ Driver(p)
      PROVE  MutexInv'
  <2>1. CASE OpenCheck(p)
    BY <2>1 DEF OpenCheck, Goto, dev, locks, local
  <2>2. CASE OpenInc(p)
    BY <2>2 DEF OpenInc, Return, Goto, dev, locks, local
  <2>3. CASE ReleaseCheck(p)
    BY <2>3 DEF ReleaseCheck, Goto, dev, locks, local
  <2>4. CASE ReleaseDec(p)
    BY <2>4 DEF ReleaseDec, Return, Goto, dev, locks, local
  <2>5. CASE WriteCall(p)
    BY <2>5 DEF WriteCall, Call, Goto, dev, locks, local
  <2>6. CASE WriteLock(p)
    BY <2>6 DEF WriteLock, Goto, dev, locks, local
  <2>7. CASE WriteLockIntr(p)
    BY <2>7 DEF WriteLockIntr, Return, Goto, dev, locks, local
  <2>8. CASE WriteWait(p)
    BY <2>8 DEF WriteWait, Goto, dev, locks, local
  <2>9. CASE WriteWoken(p)
    BY <2>9 DEF WriteWoken, Goto, dev, locks, local
  <2>10. CASE WriteIntr(p)
    BY <2>10 DEF WriteIntr, Return, Goto, dev, locks, local
  <2>11. CASE WriteCopy(p)
    BY <2>11 DEF WriteCopy, Goto, dev, locks, local
  <2>12. CASE WriteCommit(p)
    BY <2>12 DEF WriteCommit, Goto, dev, locks, local
  <2>13. CASE WriteAvailRead(p)
    BY <2>13 DEF WriteAvailRead, AvailRead, Goto, dev, locks, local
  <2>14. CASE WriteAvailStore(p)
    BY <2>14 DEF WriteAvailStore, AvailStore, Return, Goto, dev, locks, local
  <2>15. CASE ReadCall(p)
    BY <2>15 DEF ReadCall, Call, Goto, dev, locks, local
  <2>16. CASE ReadLock(p)
    BY <2>16 DEF ReadLock, Goto, dev, locks, local
  <2>17. CASE ReadLockIntr(p)
    BY <2>17 DEF ReadLockIntr, Return, Goto, dev, locks, local
  <2>18. CASE ReadCopy(p)
    BY <2>18 DEF ReadCopy, Goto, dev, locks, local
  <2>19. CASE ReadCommit(p)
    BY <2>19 DEF ReadCommit, Goto, dev, locks, local
  <2>20. CASE ReadWake(p)
    BY <2>20 DEF ReadWake, Goto, dev, locks, local
  <2>21. CASE ReadAvailRead(p)
    BY <2>21 DEF ReadAvailRead, AvailRead, Goto, dev, locks, local
  <2>22. CASE ReadAvailStore(p)
    BY <2>22 DEF ReadAvailStore, AvailStore, Return, Goto, dev, locks, local
  <2>23. CASE IoctlSetUsers(p)
    BY <2>23 DEF IoctlSetUsers, dev, locks, local
  <2>24. CASE PollCall(p)
    BY <2>24 DEF PollCall, Call, Goto, dev, locks, local
  <2>25. CASE PollTest(p)
    BY <2>25 DEF PollTest, Return, Goto, dev, locks, local
  <2>26. CASE PollWoken(p)
    BY <2>26 DEF PollWoken, Goto, dev, locks, local
  <2>27. CASE PollTimeout(p)
    BY <2>27 DEF PollTimeout, Return, Goto, dev, locks, local
  <2>28. QED
    BY <1>2, <2>1, <2>2, <2>3, <2>4, <2>5, <2>6, <2>7, <2>8, <2>9, <2>10, <2>11, <2>12, <2>13, <2>14, <2>15, <2>16, <2>17, <2>18, <2>19, <2>20, <2>21, <2>22, <2>23, <2>24, <2>25, <2>26, <2>27
       DEF Environment, Acquire, Driver
<1>3. QED
  BY <1>1, <1>2 DEF Next

\* Every step keeps ref_cntr equal to the number of open files.
LEMMA RefStep ==
  TypeOK /\ RefInv /\ [Next]_vars => RefInv'
<1> SUFFICES ASSUME TypeOK, RefInv, [Next]_vars PROVE RefInv'
  OBVIOUS
<1> USE DEF TypeOK, RefInv, RefCountExact, Pcs, WritePcs, ReadPcs, PollPcs
<1>1. CASE UNCHANGED vars
  BY <1>1 DEF vars, dev, locks, local
<1>2. ASSUME NEW p \in Procs, Environment(p) \/ Acquire(p) \/ Driver(p)
      PROVE  RefInv'
  <2>1. CASE OpenCheck(p)
    BY <2>1 DEF OpenCheck, Goto, dev, locks, local
  <2>2. CASE OpenInc(p)
    BY <2>2, FileCardinality DEF OpenInc, Return, Goto
  <2>3. CASE ReleaseCheck(p)
    BY <2>3, FileCardinality DEF ReleaseCheck, Goto, dev
  <2>4. CASE ReleaseDec(p)
    BY <2>4, FileCardinality DEF ReleaseDec, Return, Goto
  <2>5. CASE WriteCall(p)
    BY <2>5 DEF WriteCall, Call, Goto, dev, locks, local
  <2>6. CASE WriteLock(p)
    BY <2>6 DEF WriteLock, Goto, dev, locks, local
  <2>7. CASE WriteLockIntr(p)
    BY <2>7 DEF WriteLockIntr, Return, Goto, dev, locks, local
  <2>8. CASE WriteWait(p)
    BY <2>8 DEF WriteWait, Goto, dev, locks, local
  <2>9. CASE WriteWoken(p)
    BY <2>9 DEF WriteWoken, Goto, dev, locks, local
  <2>10. CASE WriteIntr(p)
    BY <2>10 DEF WriteIntr, Return, Goto, dev, locks, local
  <2>11. CASE WriteCopy(p)
    BY <2>11 DEF WriteCopy, Goto, dev, locks, local
  <2>12. CASE WriteCommit(p)
    BY <2>12 DEF WriteCommit, Goto, dev, locks, local
  <2>13. CASE WriteAvailRead(p)
    BY <2>13 DEF WriteAvailRead, AvailRead, Goto, dev, locks, local
  <2>14. CASE WriteAvailStore(p)
    BY <2>14 DEF WriteAvailStore, AvailStore, Return, Goto, dev, locks, local
  <2>15. CASE ReadCall(p)
    BY <2>15 DEF ReadCall, Call, Goto, dev, locks, local
  <2>16. CASE ReadLock(p)
    BY <2>16 DEF ReadLock, Goto, dev, locks, local
  <2>17. CASE ReadLockIntr(p)
    BY <2>17 DEF ReadLockIntr, Return, Goto, dev, locks, local
  <2>18. CASE ReadCopy(p)
    BY <2>18 DEF ReadCopy, Goto, dev, locks, local
  <2>19. CASE ReadCommit(p)
    BY <2>19 DEF ReadCommit, Goto, dev, locks, local
  <2>20. CASE ReadWake(p)
    BY <2>20 DEF ReadWake, Goto, dev, locks, local
  <2>21. CASE ReadAvailRead(p)
    BY <2>21 DEF ReadAvailRead, AvailRead, Goto, dev, locks, local
  <2>22. CASE ReadAvailStore(p)
    BY <2>22 DEF ReadAvailStore, AvailStore, Return, Goto, dev, locks, local
  <2>23. CASE IoctlSetUsers(p)
    BY <2>23 DEF IoctlSetUsers, dev, locks, local
  <2>24. CASE PollCall(p)
    BY <2>24 DEF PollCall, Call, Goto, dev, locks, local
  <2>25. CASE PollTest(p)
    BY <2>25 DEF PollTest, Return, Goto, dev, locks, local
  <2>26. CASE PollWoken(p)
    BY <2>26 DEF PollWoken, Goto, dev, locks, local
  <2>27. CASE PollTimeout(p)
    BY <2>27 DEF PollTimeout, Return, Goto, dev, locks, local
  <2>28. QED
    BY <1>2, <2>1, <2>2, <2>3, <2>4, <2>5, <2>6, <2>7, <2>8, <2>9, <2>10, <2>11, <2>12, <2>13, <2>14, <2>15, <2>16, <2>17, <2>18, <2>19, <2>20, <2>21, <2>22, <2>23, <2>24, <2>25, <2>26, <2>27
       DEF Environment, Acquire, Driver
<1>3. QED
  BY <1>1, <1>2 DEF Next

\* Every step keeps the cached avail, and the value about to replace it, right.
LEMMA CacheStep ==
  TypeOK /\ CopyFits /\ MutexInv /\ CacheInv /\ [Next]_vars => CacheInv'
<1> SUFFICES ASSUME TypeOK, CopyFits, MutexInv, CacheInv, [Next]_vars PROVE CacheInv'
  OBVIOUS
<1> USE ProcsAssumption, KfifoAllocAssumption DEF TypeOK, CopyFits, MutexInv, CacheInv, SeenInv, AvailNotOptimistic, AvailNotPessimistic, WriterUpdating, ReadOutstanding, Pcs, WritePcs, ReadPcs, PollPcs, Unused, Lesser
<1>1. CASE UNCHANGED vars
  BY <1>1 DEF vars, dev, locks, local
<1>2. ASSUME NEW p \in Procs, Environment(p) \/ Acquire(p) \/ Driver(p)
      PROVE  CacheInv'
  <2>1. CASE OpenCheck(p)
    BY <2>1 DEF OpenCheck, Goto, dev, locks, local
  <2>2. CASE OpenInc(p)
    BY <2>2 DEF OpenInc, Return, Goto, dev, locks, local
  <2>3. CASE ReleaseCheck(p)
    BY <2>3 DEF ReleaseCheck, Goto, dev, locks, local
  <2>4. CASE ReleaseDec(p)
    BY <2>4 DEF ReleaseDec, Return, Goto, dev, locks, local
  <2>5. CASE WriteCall(p)
    BY <2>5 DEF WriteCall, Call, Goto, dev, locks, local
  <2>6. CASE WriteLock(p)
    BY <2>6 DEF WriteLock, Goto, dev, locks, local
  <2>7. CASE WriteLockIntr(p)
    BY <2>7 DEF WriteLockIntr, Return, Goto, dev, locks, local
  <2>8. CASE WriteWait(p)
    BY <2>8 DEF WriteWait, Goto, dev, locks, local
  <2>9. CASE WriteWoken(p)
    BY <2>9 DEF WriteWoken, Goto, dev, locks, local
  <2>10. CASE WriteIntr(p)
    BY <2>10 DEF WriteIntr, Return, Goto, dev, locks, local
  <2>11. CASE WriteCopy(p)
    BY <2>11 DEF WriteCopy, Goto, dev, locks, local
  <2>12. CASE WriteCommit(p)
    BY <2>12 DEF WriteCommit, Goto, dev, locks, local
  <2>13. CASE WriteAvailRead(p)
    BY <2>13 DEF WriteAvailRead, AvailRead, Goto, dev, locks, local
  <2>14. CASE WriteAvailStore(p)
    BY <2>14 DEF WriteAvailStore, AvailStore, Return, Goto, dev, locks, local
  <2>15. CASE ReadCall(p)
    BY <2>15 DEF ReadCall, Call, Goto, dev, locks, local
  <2>16. CASE ReadLock(p)
    BY <2>16 DEF ReadLock, Goto, dev, locks, local
  <2>17. CASE ReadLockIntr(p)
    BY <2>17 DEF ReadLockIntr, Return, Goto, dev, locks, local
  <2>18. CASE ReadCopy(p)
    BY <2>18 DEF ReadCopy, Goto, dev, locks, local
  <2>19. CASE ReadCommit(p)
    BY <2>19 DEF ReadCommit, Goto, dev, locks, local
  <2>20. CASE ReadWake(p)
    BY <2>20 DEF ReadWake, Goto, dev, locks, local
  <2>21. CASE ReadAvailRead(p)
    BY <2>21 DEF ReadAvailRead, AvailRead, Goto, dev, locks, local
  <2>22. CASE ReadAvailStore(p)
    BY <2>22 DEF ReadAvailStore, AvailStore, Return, Goto, dev, locks, local
  <2>23. CASE IoctlSetUsers(p)
    BY <2>23 DEF IoctlSetUsers, dev, locks, local
  <2>24. CASE PollCall(p)
    BY <2>24 DEF PollCall, Call, Goto, dev, locks, local
  <2>25. CASE PollTest(p)
    BY <2>25 DEF PollTest, Return, Goto, dev, locks, local
  <2>26. CASE PollWoken(p)
    BY <2>26 DEF PollWoken, Goto, dev, locks, local
  <2>27. CASE PollTimeout(p)
    BY <2>27 DEF PollTimeout, Return, Goto, dev, locks, local
  <2>28. QED
    BY <1>2, <2>1, <2>2, <2>3, <2>4, <2>5, <2>6, <2>7, <2>8, <2>9, <2>10, <2>11, <2>12, <2>13, <2>14, <2>15, <2>16, <2>17, <2>18, <2>19, <2>20, <2>21, <2>22, <2>23, <2>24, <2>25, <2>26, <2>27
       DEF Environment, Acquire, Driver
<1>3. QED
  BY <1>1, <1>2 DEF Next

-----------------------------------------------------------------------------

\* The state setup_chardrvs leaves behind satisfies the invariant.
LEMMA InitInv == Init => IndInv
<1> SUFFICES ASSUME Init PROVE IndInv
  OBVIOUS
<1> USE ProcsAssumption, KfifoAllocAssumption, RequestAssumption
    DEF Init, Unused, Lesser, Pcs, WritePcs, ReadPcs, PollPcs
<1>1. TypeOK /\ CopyFits /\ MutexInv
  BY DEF TypeOK, CopyFits, MutexInv
<1>2. RefInv
  BY FS_EmptySet DEF RefInv, RefCountExact
<1>3. CacheInv
  BY DEF CacheInv, SeenInv, AvailNotOptimistic, AvailNotPessimistic
<1>4. QED
  BY <1>1, <1>2, <1>3 DEF IndInv

\* The invariant the other theorems rest on.
THEOREM Inductive == Spec => []IndInv
<1>1. IndInv /\ [Next]_vars => IndInv'
  BY TypeStep, CopyStep, MutexStep, RefStep, CacheStep DEF IndInv
<1>2. QED
  BY InitInv, <1>1, PTL DEF Spec

\* Every variable keeps its type; ref_cntr, avail and the byte counts are
\* never negative.
THEOREM TypeCorrect == Spec => []TypeOK
BY Inductive, PTL DEF IndInv

\* However the refreshes of dev->avail interleave, the cache never promises
\* space the kfifo lacks once the writers have stored their values.
THEOREM CacheNotOptimistic == Spec => []AvailNotOptimistic
BY Inductive, PTL DEF IndInv, CacheInv

\* ... and never hides space once the readers have stored theirs.
THEOREM CacheNotPessimistic == Spec => []AvailNotPessimistic
BY Inductive, PTL DEF IndInv, CacheInv

\* The kfifo never over- or underflows although its copies take no lock that
\* covers both ends.
THEOREM FifoSafe == Spec => []CopyFits
BY Inductive, PTL DEF IndInv

\* ref_cntr counts the open files, whatever opens and releases run at once.
THEOREM RefCounts == Spec => []RefCountExact
BY Inductive, PTL DEF IndInv, RefInv

\* No mutex is left locked except w_f_lock by a signal.
THEOREM OnlySignalsLeak == Spec => []LeakOnlyBySignal
<1>1. IndInv => LeakOnlyBySignal
  BY DEF IndInv, MutexInv, LeakOnlyBySignal, ReadPcs
<1>2. QED
  BY Inductive, <1>1, PTL

\* A write that starts its copy while no other write has a refresh
\* outstanding has room for its whole request.
THEOREM FullWrites == Spec => FullWriteUnlessOvertaking
<1>1. ASSUME IndInv, [Next]_vars, NEW p \in Procs,
             pc[p] = "w_wait", pc'[p] = "w_copy",
             \A q \in Procs : ~WriterUpdating(q)
      PROVE  cnt[p] <= Unused
  <2>1. WriteWait(p)
    <3> USE DEF IndInv, TypeOK, Goto, Return
    <3>1. PICK q \in Procs : Environment(q) \/ Acquire(q) \/ Driver(q)
      BY <1>1 DEF Next, vars
    <3>2. q = p
      BY <1>1, <3>1
         DEF Environment, OpenCheck, ReleaseCheck, WriteCall, ReadCall, Call,
             IoctlSetUsers, PollCall, WriteLockIntr, WriteIntr, ReadLockIntr,
             PollTimeout, Acquire, WriteLock, ReadLock, WriteAvailRead,
             ReadAvailRead, AvailRead, PollWoken, Driver, OpenInc, ReleaseDec,
             WriteWait, WriteWoken, WriteCopy, WriteCommit, WriteAvailStore,
             ReadCopy, ReadCommit, ReadWake, ReadAvailStore, AvailStore, PollTest
    <3>3. QED
      BY <1>1, <3>1, <3>2
         DEF Environment, OpenCheck, ReleaseCheck, WriteCall, ReadCall, Call,
             IoctlSetUsers, PollCall, WriteLockIntr, WriteIntr, ReadLockIntr,
             PollTimeout, Acquire, WriteLock, ReadLock, WriteAvailRead,
             ReadAvailRead, AvailRead, PollWoken, Driver, OpenInc, ReleaseDec,
             WriteWoken, WriteCopy, WriteCommit, WriteAvailStore,
             ReadCopy, ReadCommit, ReadWake, ReadAvailStore, AvailStore, PollTest
  <2>2. cnt[p] <= avail
    BY <1>1, <2>1 DEF WriteWait, Goto, IndInv, TypeOK
  <2>3. avail <= Unused
    BY <1>1 DEF IndInv, CacheInv, AvailNotOptimistic
  <2>4. QED
    BY <1>1, <2>2, <2>3, KfifoAllocAssumption DEF IndInv, TypeOK, Unused
<1>2. IndInv /\ [Next]_vars
        => [\A p \in Procs :
              /\ pc[p] = "w_wait" /\ pc'[p] = "w_copy"
              /\ \A q \in Procs : ~WriterUpdating(q)
              => cnt[p] <= Unused]_vars
  BY <1>1
<1>3. QED
  BY Inductive, <1>2, PTL DEF Spec, FullWriteUnlessOvertaking
=============================================================================
