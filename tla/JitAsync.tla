------------------------------- MODULE JitAsync -------------------------------
(***************************************************************************)
(* linux-device-drivers/04.time/jit.c, the files jitimer, jitasklet and    *)
(* jitasklethi.  A read allocates a struct jit_data, arms a timer (or      *)
(* schedules a tasklet) that prints JIT_ASYNC_LOOPS lines, one per run,    *)
(* and sleeps until data->loops is 0.  jit_timer_fn and jit_tasklet_fn,    *)
(* and the two show functions, differ only in how the next run is          *)
(* requested, so one model stands for both.                                *)
(*                                                                         *)
(* Data are the places kmalloc may return; a freed one can be returned     *)
(* again while the callback of its last user is still running.             *)
(***************************************************************************)
EXTENDS Integers

CONSTANTS
  Readers,          \* the processes that read the files
  Killable,         \* the ones a signal may reach
  Data,             \* the allocations that can exist at once
  None,
  JIT_ASYNC_LOOPS

ASSUME JitAssumption ==
  /\ Killable \subseteq Readers
  /\ None \notin Data \cup Readers
  /\ JIT_ASYNC_LOOPS \in Nat \ {0}

VARIABLES
  live,     \* the allocated jit_data
  loops, m, \* data->loops and data->m (the reader whose seq_file it is)
  armed,    \* the jit_data whose timer or tasklet is to run
  cb,       \* where the callback of each jit_data is
  pc, mine, \* where each reader is, and its jit_data
  asleep,   \* the readers asleep on their data->wait
  sig,      \* the readers with a pending signal
  lines     \* how many lines each reader's seq_file has received

objects == <<live, loops, m, armed, cb>>
vars == <<objects, pc, mine, asleep, sig, lines>>

Goto(r, l) == pc' = [pc EXCEPT ![r] = l]

Init ==
  /\ live = {} /\ armed = {} /\ asleep = {} /\ sig = {}
  /\ loops = [d \in Data |-> 0]
  /\ m = [d \in Data |-> None]
  /\ cb = [d \in Data |-> "idle"]
  /\ pc = [r \in Readers |-> "idle"]
  /\ mine = [r \in Readers |-> None]
  /\ lines = [r \in Readers |-> 0]

-----------------------------------------------------------------------------
(* jit_timer_fn and jit_tasklet_fn *)

\* The callback runs and prints its line (the kernel runs one at a time).
Fire(d) ==
  /\ d \in armed
  /\ cb[d] = "idle"
  /\ armed' = armed \ {d}
  /\ lines' = [lines EXCEPT ![m[d]] = @ + 1]
  /\ cb' = [cb EXCEPT ![d] = "count"]
  /\ UNCHANGED <<live, loops, m, pc, mine, asleep, sig>>

\* if (--data->loops): ask for another run, or go on to the wake-up.
Count(d) ==
  /\ cb[d] = "count"
  /\ loops' = [loops EXCEPT ![d] = @ - 1]
  /\ \/ /\ loops[d] # 1
        /\ armed' = armed \cup {d}
        /\ cb' = [cb EXCEPT ![d] = "idle"]
     \/ /\ loops[d] = 1
        /\ cb' = [cb EXCEPT ![d] = "wake"]
        /\ UNCHANGED armed
  /\ UNCHANGED <<live, m, pc, mine, asleep, sig, lines>>

\* Mutant: no wake-up.
WakeNobody(d) ==
  /\ cb[d] = "wake"
  /\ cb' = [cb EXCEPT ![d] = "idle"]
  /\ UNCHANGED <<live, loops, m, armed, pc, mine, asleep, sig, lines>>

\* wake_up_interruptible(&data->wait).
Wake(d) ==
  /\ cb[d] = "wake"
  /\ asleep' = {r \in asleep : mine[r] # d}
  /\ cb' = [cb EXCEPT ![d] = "idle"]
  /\ UNCHANGED <<live, loops, m, armed, pc, mine, sig, lines>>

-----------------------------------------------------------------------------
(* jit_timer_show and jit_tasklet_show *)

\* The first line, the initialisation and the first request of the callback.
\* (Without memory the read fails with -ENOMEM and nothing changes.)
Show(r) ==
  /\ pc[r] = "idle"
  /\ \E d \in Data \ live :
       /\ live' = live \cup {d}
       /\ mine' = [mine EXCEPT ![r] = d]
       /\ loops' = [loops EXCEPT ![d] = JIT_ASYNC_LOOPS]
       /\ m' = [m EXCEPT ![d] = r]
       /\ armed' = armed \cup {d}
  /\ lines' = [lines EXCEPT ![r] = 1]
  /\ Goto(r, "wait")
  /\ UNCHANGED <<cb, asleep, sig>>

\* Mutant: the reader leaves when the last run has been requested.
WaitForOne(r) ==
  /\ pc[r] = "wait"
  /\ \/ /\ loops[mine[r]] <= 1 \/ r \in sig
        /\ Goto(r, "leave")
        /\ UNCHANGED asleep
     \/ /\ loops[mine[r]] > 1 /\ r \notin sig
        /\ Goto(r, "sleep")
        /\ asleep' = asleep \cup {r}
  /\ UNCHANGED <<objects, mine, sig, lines>>

\* wait_event_interruptible(data->wait, !data->loops).
Wait(r) ==
  /\ pc[r] = "wait"
  /\ \/ /\ loops[mine[r]] = 0 \/ r \in sig
        /\ Goto(r, "leave")
        /\ UNCHANGED asleep
     \/ /\ loops[mine[r]] # 0 /\ r \notin sig
        /\ Goto(r, "sleep")
        /\ asleep' = asleep \cup {r}
  /\ UNCHANGED <<objects, mine, sig, lines>>

Woken(r) ==
  /\ pc[r] = "sleep"
  /\ r \notin asleep
  /\ Goto(r, "wait")
  /\ UNCHANGED <<objects, mine, asleep, sig, lines>>

Signal(r) ==
  /\ r \in Killable
  /\ pc[r] # "idle"
  /\ sig' = sig \cup {r}
  /\ asleep' = asleep \ {r}
  /\ UNCHANGED <<objects, pc, mine, lines>>

\* Mutant: data is freed on both paths.
LeaveFree(r) ==
  /\ pc[r] = "leave"
  /\ live' = live \ {mine[r]}
  /\ sig' = sig \ {r}
  /\ mine' = [mine EXCEPT ![r] = None]
  /\ Goto(r, "idle")
  /\ UNCHANGED <<loops, m, armed, cb, asleep, lines>>

\* Mutant: data is never freed.
LeaveKeep(r) ==
  /\ pc[r] = "leave"
  /\ live' = live
  /\ sig' = sig \ {r}
  /\ mine' = [mine EXCEPT ![r] = None]
  /\ Goto(r, "idle")
  /\ UNCHANGED <<loops, m, armed, cb, asleep, lines>>

\* With a signal pending the read returns -ERESTARTSYS at once, leaving data
\* allocated and its callback armed; otherwise data is freed.
Leave(r) ==
  /\ pc[r] = "leave"
  /\ live' = IF r \in sig THEN live ELSE live \ {mine[r]}
  /\ sig' = sig \ {r}
  /\ mine' = [mine EXCEPT ![r] = None]
  /\ Goto(r, "idle")
  /\ UNCHANGED <<loops, m, armed, cb, asleep, lines>>

-----------------------------------------------------------------------------

Callback(d) == Fire(d) \/ Count(d) \/ Wake(d)
Reader(r) == Wait(r) \/ Woken(r) \/ Leave(r)

Next ==
  \/ \E d \in Data : Callback(d)
  \/ \E r \in Readers : Show(r) \/ Reader(r) \/ Signal(r)

Spec == Init /\ [][Next]_vars

\* Timers expire, tasklets and runnable readers run.
Fairness ==
  /\ \A d \in Data : WF_vars(Callback(d))
  /\ \A r \in Readers : WF_vars(Reader(r))

-----------------------------------------------------------------------------
(* Properties *)

TypeOK ==
  /\ live \subseteq Data /\ armed \subseteq Data
  /\ loops \in [Data -> 0..JIT_ASYNC_LOOPS]
  /\ m \in [Data -> Readers \cup {None}]
  /\ cb \in [Data -> {"idle", "count", "wake"}]
  /\ pc \in [Readers -> {"idle", "wait", "sleep", "leave"}]
  /\ mine \in [Readers -> Data \cup {None}]
  /\ asleep \subseteq Readers /\ sig \subseteq Readers
  /\ lines \in [Readers -> Nat]

\* data is freed only after its last line: a callback that has yet to print,
\* to count or to rearm always has its jit_data.  (Only the wake-up of line
\* 168 may come after the kfree of line 199, when the reader sees loops = 0
\* without having slept.)
FreedAfterLastLine ==
  \A d \in Data \ live : d \notin armed /\ cb[d] # "count"

\* Nobody's jit_data is left behind, except by a signal (lines 197, 264).
AbandonedOnlyBySignal ==
  \A d \in live : (\E r \in Readers : mine[r] = d) \/ m[d] \in Killable

\* A read that ends normally has all its lines, and exactly its lines unless
\* a callback that an earlier, interrupted read abandoned still prints.
ReadComplete ==
  \A r \in Readers : pc[r] = "leave" /\ r \notin sig =>
    /\ lines[r] >= JIT_ASYNC_LOOPS + 1
    /\ r \notin Killable => lines[r] = JIT_ASYNC_LOOPS + 1

\* A reader that sleeps has its callback ahead of it, and after the last loop
\* the callback's wake-up (line 168), also when a callback that an earlier read
\* left at its wake-up works on the same, reused memory.
SleeperHasCallback ==
  \A r \in asleep :
    IF loops[mine[r]] = 0 THEN cb[mine[r]] = "wake"
                          ELSE mine[r] \in armed \/ cb[mine[r]] = "count"

\* Every read ends: no interleaving of the callback's decrement and wake-up
\* with the reader's test loses the wake-up.
ReadsEnd == \A r \in Readers : pc[r] # "idle" ~> pc[r] = "idle"
=============================================================================
