--------------------------------- MODULE Jiq ---------------------------------
(***************************************************************************)
(* linux-device-drivers/05.workqueues/jiq.c: four /proc files whose reader *)
(* sleeps while a work item, a delayed work item, a tasklet or a timer     *)
(* prints lines into the reader's seq_file.  All of them share one static  *)
(* structure, jiq_data, and one wait queue, jiq_wait.                      *)
(*                                                                         *)
(* A seq_file is identified with its reader.  Lengths are counted in lines *)
(* (the heading counts as one).  The work item, the delayed work, the      *)
(* tasklet and the timer are four contexts that run beside the readers.    *)
(* Nothing keeps two readers apart, and a signal may end any of the reads. *)
(***************************************************************************)
EXTENDS Integers

CONSTANTS
  Readers,        \* the processes that read the /proc files
  None,           \* no seq_file
  LIMIT,          \* "don't print any more after this size"
  BufSize,        \* the size of a seq_file's buffer
  Files,          \* the kinds of file they read
  Interruptible   \* the kinds of read a signal may interrupt

Kinds == {"wq", "wq_delayed", "tasklet", "timer"}

\* LIMIT leaves room for a heading and a line.  Readers and contexts differ.
ASSUME JiqAssumption ==
  /\ LIMIT \in Nat /\ BufSize \in Nat /\ BufSize > LIMIT + 2
  /\ None \notin Readers /\ Readers \cap Kinds = {}
  /\ Interruptible \subseteq Files /\ Files \subseteq Kinds

VARIABLES
  m, len,      \* jiq_data.m and jiq_data.len
  count,       \* m->count of every reader's seq_file
  pending,     \* the contexts that are scheduled
  pc,          \* where every reader and every context is
  kind,        \* which file a reader reads
  my_first, my_m, \* what jiq_print saw: jiq_data.len = 0, and jiq_data.m
  my_len,      \* the sum that jiq_print is about to store in jiq_data.len
  jiq_wait,    \* the readers asleep on the wait queue
  loaded,      \* the module has not been removed
  timer_clash  \* the timer was set up or added while it was in use

(* History: jiq_data is, or was since it was last at rest, in the hands of  *)
(* two reads, or of a context that a signal has parted from its reader.    *)
VARIABLE disturbed

data == <<m, len, count>>
locals == <<my_first, my_m, my_len>>
jiq_vars ==
  <<data, pending, pc, kind, locals, jiq_wait, loaded, timer_clash, disturbed>>

Goto(a, l) == pc' = [pc EXCEPT ![a] = l]

Actors == Readers \cup Kinds

JiqStart ==
  /\ m = None /\ len = 0
  /\ count = [r \in Readers |-> 0]
  /\ pending = {}
  /\ pc = [a \in Actors |-> "idle"]
  /\ kind = [r \in Readers |-> "wq"]
  /\ my_first = [a \in Actors |-> FALSE]
  /\ my_m = [a \in Actors |-> None]
  /\ my_len = [a \in Actors |-> 0]
  /\ jiq_wait = {}
  /\ loaded = TRUE
  /\ timer_clash = FALSE /\ disturbed = FALSE

-----------------------------------------------------------------------------
(* jiq_print, called by a context or, in the timer file, by the reader.    *)
(* It reads len and m at its start, prints into what m was, and adds to    *)
(* len, which is a load and a store that other printers may come between.  *)

\* seq_file cuts what it is given at the end of its buffer.
Filled(n) == IF n < BufSize THEN n ELSE BufSize

\* jiq_data.len is only compared with 0 and LIMIT, so it need not grow beyond.
Capped(n) == IF n <= LIMIT THEN n ELSE LIMIT + 1

\* Mutant: the limit is not looked at.
PrintLookUnlimited(a) ==
  /\ my_first' = [my_first EXCEPT ![a] = (len = 0)]
  /\ my_m' = [my_m EXCEPT ![a] = m]
  /\ jiq_wait' = jiq_wait
  /\ Goto(a, "print")

\* Lines 80 to 87: beyond the limit the readers are woken and 0 is returned.
PrintLook(a) ==
  /\ my_first' = [my_first EXCEPT ![a] = (len = 0)]
  /\ my_m' = [my_m EXCEPT ![a] = m]
  /\ \/ len > LIMIT /\ jiq_wait' = {} /\ Goto(a, "full")
     \/ len <= LIMIT /\ jiq_wait' = jiq_wait /\ Goto(a, "print")

\* Lines 89 to 102, and the load of line 104.  jiq_data.len is to grow by the
\* whole m->count each time, and the first time by the heading as well.
PrintLine(a) ==
  LET f == my_m[a]
      head == Filled(count[f] + 1)
      now == IF my_first[a] THEN Filled(head + 1) ELSE Filled(count[f] + 1)
  IN /\ pc[a] = "print"
     /\ count' = [count EXCEPT ![f] = now]
     /\ my_len' = [my_len EXCEPT
          ![a] = Capped(len + (IF my_first[a] THEN head ELSE 0) + now)]
     /\ my_first' = [my_first EXCEPT ![a] = FALSE]
     /\ my_m' = [my_m EXCEPT ![a] = None]
     /\ Goto(a, "add")
     /\ UNCHANGED <<m, len, pending, kind, jiq_wait, loaded, timer_clash, disturbed>>

\* The store of line 104.
StoreLen(a) ==
  /\ pc[a] = "add"
  /\ len' = my_len[a]
  /\ my_len' = [my_len EXCEPT ![a] = 0]
  /\ UNCHANGED <<m, count, my_first, my_m>>

-----------------------------------------------------------------------------
(* The contexts *)

\* A scheduled context starts: it may be scheduled again from here on, but
\* the kernel never runs it twice at once.
Run(c) ==
  /\ c \in pending
  /\ pc[c] = "idle"
  /\ pending' = pending \ {c}
  /\ PrintLook(c)
  /\ UNCHANGED <<data, my_len, kind, loaded, timer_clash, disturbed>>

\* Having printed, the work items and the tasklet schedule themselves again
\* (jiq_print_wq, jiq_print_wq_delayed, jiq_print_tasklet).
PrintAgain(c) ==
  /\ c # "timer"
  /\ StoreLen(c)
  /\ pending' = pending \cup {c}
  /\ Goto(c, "idle")
  /\ UNCHANGED <<kind, jiq_wait, loaded, timer_clash, disturbed>>

\* jiq_timedout prints one line and wakes the readers.
PrintOnce(c) ==
  /\ c = "timer"
  /\ StoreLen(c)
  /\ jiq_wait' = {}
  /\ Goto(c, "idle")
  /\ UNCHANGED <<pending, kind, loaded, timer_clash, disturbed>>

\* Mutant: a full work item is scheduled again.
FullAgain(c) ==
  /\ pc[c] = "full"
  /\ jiq_wait' = IF c = "timer" THEN {} ELSE jiq_wait
  /\ my_first' = [my_first EXCEPT ![c] = FALSE]
  /\ my_m' = [my_m EXCEPT ![c] = None]
  /\ pending' = pending \cup {c}
  /\ Goto(c, "idle")
  /\ UNCHANGED <<data, my_len, kind, loaded, timer_clash, disturbed>>

\* jiq_print returned 0: the context ends (the timer wakes once more).
Full(c) ==
  /\ pc[c] = "full"
  /\ jiq_wait' = IF c = "timer" THEN {} ELSE jiq_wait
  /\ my_first' = [my_first EXCEPT ![c] = FALSE]
  /\ my_m' = [my_m EXCEPT ![c] = None]
  /\ Goto(c, "idle")
  /\ UNCHANGED <<data, my_len, pending, kind, loaded, timer_clash, disturbed>>

Context(c) ==
  /\ ~timer_clash
  /\ Run(c) \/ PrintLine(c) \/ PrintAgain(c) \/ PrintOnce(c) \/ Full(c)

-----------------------------------------------------------------------------
(* The readers: the four show functions *)

\* Nobody reads, and nothing is scheduled or running.
AtRest == pending = {} /\ \A a \in Actors : pc[a] = "idle"

\* A context that has lines to print still.
Busy(c) == c \in pending \/ pc[c] \in {"print", "add"}

\* The read starts: a fresh seq_file, and jiq_data.len = 0.
Show(r) ==
  /\ loaded
  /\ pc[r] = "idle"
  /\ \E k \in Files : kind' = [kind EXCEPT ![r] = k]
  /\ count' = [count EXCEPT ![r] = 0]
  /\ len' = 0
  /\ Goto(r, "set_m")
  /\ disturbed' = ((\E s \in Readers : s # r /\ pc[s] # "idle") \/ (disturbed /\ ~AtRest))
  /\ UNCHANGED <<m, pending, locals, jiq_wait, loaded, timer_clash>>

\* jiq_data.m = m.
ShowSetM(r) ==
  /\ pc[r] = "set_m"
  /\ m' = r
  /\ Goto(r, CASE kind[r] \in {"wq", "wq_delayed"} -> "prepare"
               [] kind[r] = "tasklet" -> "schedule"
               [] kind[r] = "timer" -> "look")
  /\ UNCHANGED <<len, count, pending, kind, locals, jiq_wait, loaded, timer_clash, disturbed>>

\* Mutant: the work is scheduled before the wait is prepared.
ShowPrepareLate(r) ==
  /\ pc[r] = "prepare"
  /\ pending' = pending \cup {kind[r]}
  /\ Goto(r, "wait")
  /\ UNCHANGED <<data, kind, locals, jiq_wait, loaded, timer_clash, disturbed>>

\* prepare_to_wait comes before schedule_work in the two work queue files.
ShowPrepare(r) ==
  /\ pc[r] = "prepare"
  /\ jiq_wait' = jiq_wait \cup {r}
  /\ Goto(r, "schedule")
  /\ UNCHANGED <<data, pending, kind, locals, loaded, timer_clash, disturbed>>

\* timer_setup of a timer that is pending or whose handler runs breaks it, and
\* add_timer is a BUG when the timer is pending.
TimerInUse(r) ==
  \/ pc[r] = "look" /\ ("timer" \in pending \/ pc["timer"] # "idle")
  \/ pc[r] = "schedule" /\ kind[r] = "timer" /\ "timer" \in pending

\* What the kernel does from there on is not modelled: the behaviour ends.
ShowClash(r) ==
  /\ TimerInUse(r)
  /\ timer_clash' = TRUE
  /\ UNCHANGED <<data, pending, pc, kind, locals, jiq_wait, loaded, disturbed>>

\* schedule_work, schedule_delayed_work, tasklet_schedule or add_timer.
ShowSchedule(r) ==
  /\ pc[r] = "schedule"
  /\ ~TimerInUse(r)
  /\ pending' = pending \cup {kind[r]}
  /\ Goto(r, IF kind[r] \in {"wq", "wq_delayed"} THEN "asleep" ELSE "wait")
  /\ UNCHANGED <<data, kind, locals, jiq_wait, loaded, timer_clash, disturbed>>

\* The timer file sets up its timer and prints its first line itself.
ShowLook(r) ==
  /\ pc[r] = "look"
  /\ ~TimerInUse(r)
  /\ PrintLook(r)
  /\ UNCHANGED <<data, my_len, pending, kind, loaded, timer_clash, disturbed>>

ShowPrint(r) ==
  /\ \/ StoreLen(r)
     \/ /\ pc[r] = "full"
        /\ my_m' = [my_m EXCEPT ![r] = None]
        /\ UNCHANGED <<data, my_first, my_len>>
  /\ Goto(r, "schedule")
  /\ UNCHANGED <<pending, kind, jiq_wait, loaded, timer_clash, disturbed>>

\* wait_event_interruptible(jiq_wait, 0): the condition is never true, so a
\* reader that was woken sleeps again.
ShowWait(r) ==
  /\ \/ pc[r] = "wait"
     \/ pc[r] = "asleep" /\ kind[r] \in {"tasklet", "timer"} /\ r \notin jiq_wait
  /\ jiq_wait' = jiq_wait \cup {r}
  /\ Goto(r, "asleep")
  /\ UNCHANGED <<data, pending, kind, locals, loaded, timer_clash, disturbed>>

\* schedule returns after a wake-up and the read ends.
ShowWoken(r) ==
  /\ pc[r] = "asleep"
  /\ kind[r] \in {"wq", "wq_delayed"}
  /\ r \notin jiq_wait
  /\ Goto(r, "idle")
  /\ UNCHANGED <<data, pending, kind, locals, jiq_wait, loaded, timer_clash, disturbed>>

\* A signal ends the sleep.  The timer file goes on to del_timer_sync, which
\* waits for a running jiq_timedout; the others leave their context scheduled.
ShowSignal(r) ==
  /\ pc[r] = "asleep"
  /\ kind[r] \in Interruptible
  /\ jiq_wait' = jiq_wait \ {r}
  /\ Goto(r, IF kind[r] = "timer" THEN "del_timer" ELSE "idle")
  /\ disturbed' = (disturbed \/ (kind[r] # "timer" /\ Busy(kind[r])))
  /\ UNCHANGED <<data, pending, kind, locals, loaded, timer_clash>>

\* Mutant: del_timer, which does not wait for the handler.
ShowDelTimerNoSync(r) ==
  /\ pc[r] = "del_timer"
  /\ pending' = pending \ {"timer"}
  /\ Goto(r, "idle")
  /\ UNCHANGED <<data, kind, locals, jiq_wait, loaded, timer_clash, disturbed>>

ShowDelTimer(r) ==
  /\ pc[r] = "del_timer"
  /\ pc["timer"] = "idle"
  /\ pending' = pending \ {"timer"}
  /\ Goto(r, "idle")
  /\ UNCHANGED <<data, kind, locals, jiq_wait, loaded, timer_clash, disturbed>>

\* jiq_cleanup: remove_proc_entry waits for the reads in progress; the work,
\* the tasklet and the timer are left as they are.
Cleanup ==
  /\ loaded
  /\ \A r \in Readers : pc[r] = "idle"
  /\ loaded' = FALSE
  /\ UNCHANGED <<data, pending, pc, kind, locals, jiq_wait, timer_clash, disturbed>>

Reader(r) ==
  /\ ~timer_clash
  /\ \/ ShowSetM(r) \/ ShowPrepare(r) \/ ShowSchedule(r) \/ ShowLook(r)
     \/ PrintLine(r) \/ ShowPrint(r) \/ ShowWait(r) \/ ShowWoken(r)
     \/ ShowDelTimer(r) \/ ShowClash(r)

JiqNext ==
  \/ \E c \in Kinds : Context(c)
  \/ \E r \in Readers : Reader(r)
  \/ ~timer_clash /\ \E r \in Readers : Show(r) \/ ShowSignal(r)
  \/ ~timer_clash /\ Cleanup

JiqSpec == JiqStart /\ [][JiqNext]_jiq_vars

\* The kernel runs what is scheduled, and runnable readers.
JiqFairness ==
  /\ \A c \in Kinds : WF_jiq_vars(Context(c))
  /\ \A r \in Readers : WF_jiq_vars(Reader(r))

FairSpec == JiqSpec /\ JiqFairness

-----------------------------------------------------------------------------
(* Properties *)

\* A context that is about to print does so for a reader that is still inside
\* its show function, unless reads have overlapped or a signal has taken the
\* reader away while its context had lines to print (lines 141 and 81).
PrintsForReader ==
  \A c \in Kinds : pc[c] = "print" =>
    my_m[c] # None /\ (pc[my_m[c]] # "idle" \/ disturbed)

\* The limit keeps the seq_file of a read from overflowing (it would start the
\* read over with a larger buffer) although jiq_data.len is not m->count and
\* is added to without a lock, unless another printer shares it (line 84).
NeverOverflows ==
  \A r \in Readers : pc[r] # "idle" /\ ~disturbed => count[r] < BufSize

\* When jiq_cleanup, which cancels nothing, leaves something scheduled or about
\* to print, or the timer is set up while it is in use, then reads have
\* overlapped or a signal has parted a context from its reader: no read by
\* itself leaves a work item, a tasklet or a timer behind.
QuietAfterCleanup ==
  (~loaded /\ \E c \in Kinds : Busy(c)) \/ timer_clash => disturbed

\* A reader that sleeps in a work queue file has its work item ahead of it: no
\* wake-up is lost between prepare_to_wait, schedule_work and schedule.
SleeperHasWork ==
  \A r \in Readers :
    pc[r] = "asleep" /\ kind[r] \in {"wq", "wq_delayed"} /\ r \in jiq_wait =>
      Busy(kind[r])

\* A reader of the work queue files is woken although its work may end before
\* it sleeps (lines 145 and 174), and although other printers overwrite
\* jiq_data.len, once no more reads come that reset it.
WorkqueueReadsReturn ==
  \A r \in Readers :
    ((pc[r] # "idle" /\ kind[r] \in {"wq", "wq_delayed"}) ~> (pc[r] = "idle" \/ timer_clash))
      \/ []<><<\E s \in Readers : Show(s)>>_jiq_vars

\* "sleep till completion" (line 211), "awake the process" (line 236): a
\* reader does not sleep on once its tasklet or its timer is finished.
CompletionEndsSleep ==
  \A r \in Readers :
    pc[r] = "asleep" /\ kind[r] \notin pending /\ pc[kind[r]] = "idle"
      ~> pc[r] # "asleep"
=============================================================================
