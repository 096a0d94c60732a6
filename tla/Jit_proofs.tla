------------------------------- MODULE Jit_proofs -------------------------------
(***************************************************************************)
(* Proofs of the safety properties of the two groups of files of jit.c:    *)
(* JitAsync, for any number of readers, allocations and loops, and         *)
(* JitDelay, for any delay and any width of jiffies that leaves the delay  *)
(* below half of its range, as the kernel's time_before asks for.          *)
(***************************************************************************)
EXTENDS JitAsync, JitDelay, TLAPS

-----------------------------------------------------------------------------
(* JitAsync *)

\* A reader inside a read owns one allocation, whose m leads back to it, and
\* only a reader that can be killed ever has a signal.
OwnInv ==
  /\ \A r \in Readers :
       /\ pc[r] # "idle" <=> mine[r] # None
       /\ mine[r] # None => mine[r] \in live /\ m[mine[r]] = r
  /\ sig \subseteq Killable
  /\ \A d \in live : m[d] \in Readers

\* An allocation that still has lines to print is live and has loops left; a
\* reader that leaves without a signal has seen them run out.
LoopInv ==
  /\ \A d \in Data : d \in armed \/ cb[d] = "count" => d \in live /\ loops[d] > 0
  /\ \A d \in armed : cb[d] # "count"
  /\ \A r \in Readers : pc[r] = "leave" /\ r \notin sig => loops[mine[r]] = 0

\* The lines that the callback of d has printed, and the first one of the read.
Printed(d) ==
  JIT_ASYNC_LOOPS - loops[d] + (IF cb[d] = "count" THEN 2 ELSE 1)

\* A read in progress has its lines so far, and no others if it cannot be
\* killed: then no earlier read of the same reader can have left a callback.
LineInv ==
  \A r \in Readers : mine[r] # None =>
    /\ lines[r] >= Printed(mine[r])
    /\ r \notin Killable => lines[r] = Printed(mine[r])

\* A read that has loops left has its callback armed or about to count, and a reader
\* sleeps on memory of its own.
WakeInv ==
  /\ \A r \in Readers : mine[r] # None /\ loops[mine[r]] > 0 =>
       mine[r] \in armed \/ cb[mine[r]] = "count"
  /\ \A r \in asleep : pc[r] = "sleep"
  /\ SleeperHasCallback

IndInv == TypeOK /\ OwnInv /\ LoopInv /\ AbandonedOnlyBySignal /\ LineInv /\ WakeInv
-----------------------------------------------------------------------------
\* The invariant holds when the module is loaded.
LEMMA InitInd == Init => IndInv
BY JitAssumption DEF Init, IndInv, TypeOK, OwnInv, LoopInv, AbandonedOnlyBySignal, LineInv,
                     Printed, WakeInv, SleeperHasCallback

\* Every step keeps the types: loops is decremented only above 0.
LEMMA TypeStep == IndInv /\ [Next]_vars => TypeOK'
<1> SUFFICES ASSUME IndInv, [Next]_vars PROVE TypeOK'
  OBVIOUS
<1> USE JitAssumption DEF IndInv, TypeOK
<1>1. CASE UNCHANGED vars
  BY <1>1 DEF vars, objects
<1>2. ASSUME NEW d \in Data, Fire(d) PROVE TypeOK'
  BY <1>2 DEF Fire, OwnInv, LoopInv
<1>3. ASSUME NEW d \in Data, Count(d) PROVE TypeOK'
  BY <1>3 DEF Count, LoopInv
<1>4. ASSUME NEW d \in Data, Wake(d) PROVE TypeOK'
  BY <1>4 DEF Wake
<1>5. ASSUME NEW r \in Readers, Show(r) PROVE TypeOK'
  BY <1>5 DEF Show, Goto
<1>6. ASSUME NEW r \in Readers, Wait(r) PROVE TypeOK'
  BY <1>6 DEF Wait, Goto, objects
<1>7. ASSUME NEW r \in Readers, Woken(r) PROVE TypeOK'
  BY <1>7 DEF Woken, Goto, objects
<1>8. ASSUME NEW r \in Readers, Leave(r) PROVE TypeOK'
  BY <1>8 DEF Leave, Goto
<1>9. ASSUME NEW r \in Readers, Signal(r) PROVE TypeOK'
  BY <1>9 DEF Signal, objects
<1>10. QED
  BY <1>1, <1>2, <1>3, <1>4, <1>5, <1>6, <1>7, <1>8, <1>9 DEF Next, Callback, Reader

\* Every step keeps the owner and its allocation in agreement.
LEMMA OwnStep == IndInv /\ [Next]_vars => OwnInv'
<1> SUFFICES ASSUME IndInv, [Next]_vars PROVE OwnInv'
  OBVIOUS
<1> USE JitAssumption DEF IndInv, TypeOK, OwnInv
<1>1. CASE UNCHANGED vars
  BY <1>1 DEF vars, objects
<1>2. ASSUME NEW d \in Data, Fire(d) PROVE OwnInv'
  BY <1>2 DEF Fire
<1>3. ASSUME NEW d \in Data, Count(d) PROVE OwnInv'
  BY <1>3 DEF Count
<1>4. ASSUME NEW d \in Data, Wake(d) PROVE OwnInv'
  BY <1>4 DEF Wake
<1>5. ASSUME NEW r \in Readers, Show(r) PROVE OwnInv'
  BY <1>5 DEF Show, Goto
<1>6. ASSUME NEW r \in Readers, Wait(r) PROVE OwnInv'
  BY <1>6 DEF Wait, Goto, objects
<1>7. ASSUME NEW r \in Readers, Woken(r) PROVE OwnInv'
  BY <1>7 DEF Woken, Goto, objects
<1>8. ASSUME NEW r \in Readers, Leave(r) PROVE OwnInv'
  BY <1>8 DEF Leave, Goto
<1>9. ASSUME NEW r \in Readers, Signal(r) PROVE OwnInv'
  BY <1>9 DEF Signal, objects
<1>10. QED
  BY <1>1, <1>2, <1>3, <1>4, <1>5, <1>6, <1>7, <1>8, <1>9 DEF Next, Callback, Reader

\* Every step keeps the callbacks on live allocations.
LEMMA LoopStep == IndInv /\ [Next]_vars => LoopInv'
<1> SUFFICES ASSUME IndInv, [Next]_vars PROVE LoopInv'
  OBVIOUS
<1> USE JitAssumption DEF IndInv, TypeOK, OwnInv, LoopInv
<1>1. CASE UNCHANGED vars
  BY <1>1 DEF vars, objects
<1>2. ASSUME NEW d \in Data, Fire(d) PROVE LoopInv'
  BY <1>2 DEF Fire
<1>3. ASSUME NEW d \in Data, Count(d) PROVE LoopInv'
  BY <1>3 DEF Count
<1>4. ASSUME NEW d \in Data, Wake(d) PROVE LoopInv'
  BY <1>4 DEF Wake
<1>5. ASSUME NEW r \in Readers, Show(r) PROVE LoopInv'
  BY <1>5 DEF Show, Goto
<1>6. ASSUME NEW r \in Readers, Wait(r) PROVE LoopInv'
  BY <1>6 DEF Wait, Goto, objects
<1>7. ASSUME NEW r \in Readers, Woken(r) PROVE LoopInv'
  BY <1>7 DEF Woken, Goto, objects
<1>8. ASSUME NEW r \in Readers, Leave(r) PROVE LoopInv'
  BY <1>8 DEF Leave, Goto
<1>9. ASSUME NEW r \in Readers, Signal(r) PROVE LoopInv'
  BY <1>9 DEF Signal, objects
<1>10. QED
  BY <1>1, <1>2, <1>3, <1>4, <1>5, <1>6, <1>7, <1>8, <1>9 DEF Next, Callback, Reader

\* Every step keeps each live allocation owned or abandoned by a signal.
LEMMA AbandonStep == IndInv /\ [Next]_vars => AbandonedOnlyBySignal'
<1> SUFFICES ASSUME IndInv, [Next]_vars PROVE AbandonedOnlyBySignal'
  OBVIOUS
<1> USE JitAssumption DEF IndInv, TypeOK, OwnInv, AbandonedOnlyBySignal
<1>1. CASE UNCHANGED vars
  BY <1>1 DEF vars, objects
<1>2. ASSUME NEW d \in Data, Fire(d) \/ Count(d) \/ Wake(d) PROVE AbandonedOnlyBySignal'
  BY <1>2 DEF Fire, Count, Wake
<1>3. ASSUME NEW r \in Readers, Show(r) PROVE AbandonedOnlyBySignal'
  BY <1>3 DEF Show
<1>4. ASSUME NEW r \in Readers, Wait(r) \/ Woken(r) \/ Signal(r) PROVE AbandonedOnlyBySignal'
  BY <1>4 DEF Wait, Woken, Signal, objects
<1>5. ASSUME NEW r \in Readers, Leave(r) PROVE AbandonedOnlyBySignal'
  BY <1>5 DEF Leave
<1>6. QED
  BY <1>1, <1>2, <1>3, <1>4, <1>5 DEF Next, Callback, Reader

\* Every step keeps the count of lines.
LEMMA LineStep == IndInv /\ [Next]_vars => LineInv'
<1> SUFFICES ASSUME IndInv, [Next]_vars PROVE LineInv'
  OBVIOUS
<1> USE JitAssumption DEF IndInv, TypeOK, OwnInv, LoopInv, LineInv, Printed
<1>1. CASE UNCHANGED vars
  BY <1>1 DEF vars, objects
<1>2. ASSUME NEW d \in Data, Fire(d) PROVE LineInv'
  BY <1>2 DEF Fire, AbandonedOnlyBySignal
<1>3. ASSUME NEW d \in Data, Count(d) PROVE LineInv'
  BY <1>3 DEF Count
<1>4. ASSUME NEW d \in Data, Wake(d) PROVE LineInv'
  BY <1>4 DEF Wake
<1>5. ASSUME NEW r \in Readers, Show(r) PROVE LineInv'
  BY <1>5 DEF Show, Goto
<1>6. ASSUME NEW r \in Readers, Wait(r) PROVE LineInv'
  BY <1>6 DEF Wait, Goto, objects
<1>7. ASSUME NEW r \in Readers, Woken(r) PROVE LineInv'
  BY <1>7 DEF Woken, Goto, objects
<1>8. ASSUME NEW r \in Readers, Leave(r) PROVE LineInv'
  BY <1>8 DEF Leave, Goto
<1>9. ASSUME NEW r \in Readers, Signal(r) PROVE LineInv'
  BY <1>9 DEF Signal, objects
<1>10. QED
  BY <1>1, <1>2, <1>3, <1>4, <1>5, <1>6, <1>7, <1>8, <1>9 DEF Next, Callback, Reader

\* Every step keeps the wake-up ahead of a sleeping reader.
LEMMA WakeStep == IndInv /\ [Next]_vars => WakeInv'
<1> SUFFICES ASSUME IndInv, [Next]_vars PROVE WakeInv'
  OBVIOUS
<1> USE JitAssumption DEF IndInv, TypeOK, OwnInv, LoopInv, WakeInv, SleeperHasCallback
<1>1. CASE UNCHANGED vars
  BY <1>1 DEF vars, objects
<1>2. ASSUME NEW d \in Data, Fire(d) PROVE WakeInv'
  BY <1>2 DEF Fire
<1>3. ASSUME NEW d \in Data, Count(d) PROVE WakeInv'
  BY <1>3 DEF Count
<1>4. ASSUME NEW d \in Data, Wake(d) PROVE WakeInv'
  BY <1>4 DEF Wake
<1>5. ASSUME NEW r \in Readers, Show(r) PROVE WakeInv'
  BY <1>5 DEF Show, Goto
<1>6. ASSUME NEW r \in Readers, Wait(r) PROVE WakeInv'
  BY <1>6 DEF Wait, Goto, objects
<1>7. ASSUME NEW r \in Readers, Woken(r) PROVE WakeInv'
  BY <1>7 DEF Woken, Goto, objects
<1>8. ASSUME NEW r \in Readers, Leave(r) PROVE WakeInv'
  BY <1>8 DEF Leave, Goto
<1>9. ASSUME NEW r \in Readers, Signal(r) PROVE WakeInv'
  BY <1>9 DEF Signal, objects
<1>10. QED
  BY <1>1, <1>2, <1>3, <1>4, <1>5, <1>6, <1>7, <1>8, <1>9 DEF Next, Callback, Reader

\* The invariant holds throughout.
LEMMA Invariance == Spec => []IndInv
<1>1. IndInv /\ [Next]_vars => IndInv'
  BY TypeStep, OwnStep, LoopStep, AbandonStep, LineStep, WakeStep DEF IndInv
<1>2. QED
  BY InitInd, <1>1, PTL DEF Spec
-----------------------------------------------------------------------------
\* No callback that has still to print, count or rearm works on a freed
\* jit_data (jit_timer_fn and jit_tasklet_fn against kfree in the shows).
THEOREM NoCallbackAfterFree == Spec => []FreedAfterLastLine
<1>1. IndInv => FreedAfterLastLine
  BY DEF IndInv, LoopInv, FreedAfterLastLine
<1>2. QED
  BY Invariance, <1>1, PTL

\* Only the early return of an interrupted read leaves a jit_data behind.
THEOREM OnlySignalsAbandon == Spec => []AbandonedOnlyBySignal
<1>1. IndInv => AbandonedOnlyBySignal
  BY DEF IndInv
<1>2. QED
  BY Invariance, <1>1, PTL

\* No wake-up is lost between the reader's test of loops and its sleep, nor by the
\* reuse of freed memory: the safety half of the end of every read (jit_timer_show,
\* jit_tasklet_show).
THEOREM NoReaderForgotten == Spec => []SleeperHasCallback
<1>1. IndInv => SleeperHasCallback
  BY DEF IndInv, WakeInv
<1>2. QED
  BY Invariance, <1>1, PTL

\* A read that ends without a signal has received every line of its callback.
THEOREM ReadsComplete == Spec => []ReadComplete
<1>1. IndInv => ReadComplete
  <2> SUFFICES ASSUME IndInv, NEW r \in Readers, pc[r] = "leave", r \notin sig
               PROVE  /\ lines[r] >= JIT_ASYNC_LOOPS + 1
                      /\ r \notin Killable => lines[r] = JIT_ASYNC_LOOPS + 1
    BY DEF ReadComplete
  <2>1. mine[r] \in live /\ loops[mine[r]] = 0
    BY DEF IndInv, OwnInv, LoopInv
  <2>2. cb[mine[r]] # "count"
    BY <2>1 DEF IndInv, TypeOK, LoopInv
  <2>3. Printed(mine[r]) = JIT_ASYNC_LOOPS + 1
    BY <2>1, <2>2, JitAssumption DEF Printed
  <2>4. QED
    BY <2>1, <2>3, JitAssumption DEF IndInv, TypeOK, OwnInv, LineInv
<1>2. QED
  BY Invariance, <1>1, PTL
-----------------------------------------------------------------------------
(* JitDelay *)

Ticks == 0 .. JiffiesMod - 1

\* jiffies j, d ticks later.
Ahead(j, d) == IF j + d < JiffiesMod THEN j + d ELSE j + d - JiffiesMod

DelayTypeInv ==
  /\ jiffies \in Ticks
  /\ delay_pc \in [Delayed -> {"idle", "loop", "asleep", "print"}]
  /\ file \in [Delayed -> Files]
  /\ j1 \in [Delayed -> Ticks]
  /\ waited \in [Delayed -> Nat]
  /\ delay_sig \subseteq Delayed

\* As long as the delay is not over, jiffies is as far from j1 as a clock that
\* does not wrap would say.
TargetInv ==
  \A r \in Delayed : delay_pc[r] \in {"loop", "asleep"} /\ waited[r] < delay
    => j1[r] = Ahead(jiffies, delay - waited[r])

\* Only the two files that sleep have sleeping readers.
SleepInv ==
  \A r \in Delayed : delay_pc[r] = "asleep" => file[r] \in {"JIT_QUEUE", "JIT_SCHEDTO"}

DelayInd == DelayTypeInv /\ TargetInv /\ SleepInv /\ DelayKept

\* Sums of a tick and a delay wrap once.
LEMMA WrapSum ==
  \A j \in Ticks, d \in 0 .. delay + 1 : (j + d) % JiffiesMod = Ahead(j, d) /\ Ahead(j, d) \in Ticks
<1> SUFFICES ASSUME NEW j \in Ticks, NEW d \in 0 .. delay + 1
             PROVE  (j + d) % JiffiesMod = Ahead(j, d) /\ Ahead(j, d) \in Ticks
  OBVIOUS
<1>1. JiffiesMod \in Nat \ {0} /\ d <= JiffiesMod
  BY DelayAssumption
<1>2. QED
  BY <1>1, DelayAssumption DEF Ticks, Ahead

\* A tick that lies up to delay ticks ahead has not come yet.
LEMMA BeforeTarget ==
  ASSUME NEW j \in Ticks, NEW d \in 1 .. delay
  PROVE  time_before(j, Ahead(j, d))
<1>1. JiffiesMod \in Nat \ {0} /\ 2 * d < JiffiesMod /\ 2 * (JiffiesMod \div 2) = JiffiesMod
  BY DelayAssumption
<1>2. (j - Ahead(j, d)) % JiffiesMod = JiffiesMod - d
  BY <1>1 DEF Ahead, Ticks
<1>3. QED
  BY <1>1, <1>2 DEF time_before

\* The invariant holds when nobody reads.
LEMMA DelayInitInd == DelayInit => DelayInd
BY DelayAssumption DEF DelayInit, DelayInd, DelayTypeInv, Ticks, Files, TargetInv, SleepInv, DelayKept

\* A tick brings every waiting reader one tick nearer to its j1, and lets
\* those go that have reached it.
LEMMA TickStep == ASSUME DelayInd, Jiffy PROVE DelayInd'
<1> USE DelayAssumption DEF DelayInd, DelayTypeInv
<1>1. jiffies' = Ahead(jiffies, 1) /\ jiffies' \in Ticks
  BY WrapSum DEF Jiffy
<1>2. DelayTypeInv'
  BY <1>1 DEF Jiffy
<1>3. ASSUME NEW r \in Delayed, delay_pc[r] \in {"loop", "asleep"}, waited'[r] < delay
      PROVE  j1[r] = Ahead(jiffies', delay - waited'[r])
  <2>1. waited'[r] = waited[r] + 1
    BY <1>3 DEF Jiffy
  <2>2. QED
    BY <1>1, <1>3, <2>1 DEF TargetInv, Ahead, Ticks
<1>4. ASSUME NEW r \in Delayed, delay_pc[r] = "asleep", delay_pc'[r] = "print"
      PROVE  waited'[r] >= delay
  <2> SUFFICES ASSUME waited'[r] < delay PROVE FALSE
    BY <1>2
  <2>1. time_before(jiffies', j1[r])
    BY <1>1, <1>2, <1>3, <1>4, BeforeTarget
  <2>2. QED
    BY <1>4, <2>1 DEF Jiffy
<1>5. TargetInv'
  BY <1>3 DEF Jiffy, TargetInv
<1>6. SleepInv'
  BY DEF Jiffy, SleepInv
<1>7. DelayKept'
  BY <1>2, <1>4 DEF Jiffy, DelayKept
<1>8. QED
  BY <1>2, <1>5, <1>6, <1>7

\* Every step of a reader keeps the invariant.
LEMMA DelayReaderStep ==
  ASSUME DelayInd, NEW r \in Delayed, DelayShow(r) \/ Loop(r) \/ DelaySignal(r) \/ PrintTimes(r)
  PROVE  DelayInd'
<1> USE DelayAssumption DEF DelayInd, DelayTypeInv, TargetInv, SleepInv, DelayKept, DelayGoto
<1>1. CASE DelayShow(r)
  <2>1. j1'[r] = Ahead(jiffies, delay) /\ j1'[r] \in Ticks
    BY <1>1, WrapSum DEF DelayShow
  <2>2. QED
    BY <1>1, <2>1 DEF DelayShow, Files
<1>2. CASE Loop(r)
  <2>1. waited[r] >= delay
    BY <1>2, BeforeTarget DEF Loop
  <2>2. QED
    BY <1>2, <2>1 DEF Loop
<1>3. CASE DelaySignal(r)
  BY <1>3 DEF DelaySignal
<1>4. CASE PrintTimes(r)
  BY <1>4 DEF PrintTimes, Ticks
<1>5. QED
  BY <1>1, <1>2, <1>3, <1>4

\* No delayed read returns early but by a signal that wakes its sleep, also
\* when jiffies wraps during the wait (jit_fn_show).
THEOREM DelaysKept == DelaySpec => []DelayKept
<1>1. DelayInd /\ [DelayNext]_delay_vars => DelayInd'
  <2> SUFFICES ASSUME DelayInd, [DelayNext]_delay_vars PROVE DelayInd'
    OBVIOUS
  <2>1. CASE UNCHANGED delay_vars
    BY <2>1 DEF delay_vars, DelayInd, DelayTypeInv, TargetInv, SleepInv, DelayKept
  <2>2. QED
    BY <2>1, TickStep, DelayReaderStep DEF DelayNext
<1>2. DelayInd => DelayKept
  BY DEF DelayInd
<1>3. QED
  BY DelayInitInd, <1>1, <1>2, PTL DEF DelaySpec
=============================================================================
