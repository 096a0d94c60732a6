------------------------------- MODULE JitDelay -------------------------------
(***************************************************************************)
(* linux-device-drivers/04.time/jit.c, jit_fn_show: the files jitbusy,     *)
(* jitsched, jitqueue and jitschedto, each of which delays its reader by   *)
(* delay ticks in another way.                                             *)
(*                                                                         *)
(* jiffies is an unsigned counter that wraps at JiffiesMod (2^32 or 2^64   *)
(* in the kernel); the clock interrupt advances it between any two steps   *)
(* of a reader, any number of times when the reader is not scheduled.      *)
(* waited is what a clock that does not wrap would show; no code reads it. *)
(***************************************************************************)
EXTENDS Integers

CONSTANTS
  Delayed,
  DelayKillable,     \* the readers a signal may reach
  delay,        \* module parameter, in ticks
  JiffiesMod,   \* where jiffies wraps
  MaxWait       \* bound: the ticks that may pass during one read

ASSUME DelayAssumption ==
  /\ delay \in Nat
  /\ JiffiesMod \in Nat /\ JiffiesMod % 2 = 0 /\ 2 * delay < JiffiesMod
  /\ MaxWait \in Nat /\ MaxWait > delay
  /\ DelayKillable \subseteq Delayed

Files == {"JIT_BUSY", "JIT_SCHED", "JIT_QUEUE", "JIT_SCHEDTO"}

VARIABLES
  jiffies,
  delay_pc,       \* where each reader is
  file,     \* which file it reads
  j1,       \* the tick it waits for
  delay_sig,      \* the readers with a pending signal
  waited    \* the ticks since its read began

delay_vars == <<jiffies, delay_pc, file, j1, delay_sig, waited>>

DelayGoto(r, l) == delay_pc' = [delay_pc EXCEPT ![r] = l]

DelayInit ==
  /\ jiffies \in 0..JiffiesMod - 1
  /\ delay_pc = [r \in Delayed |-> "idle"]
  /\ file = [r \in Delayed |-> "JIT_BUSY"]
  /\ j1 = [r \in Delayed |-> 0]
  /\ delay_sig = {}
  /\ waited = [r \in Delayed |-> 0]

\* Mutant: a plain comparison.
time_before_plain(a, b) == a < b

\* The kernel's time_before: the sign bit of the unsigned difference.
time_before(a, b) == (a - b) % JiffiesMod >= JiffiesMod \div 2

\* One tick.  It sets the readers going whose timer (armed for j1 by
\* schedule_timeout) it makes expire.
Jiffy ==
  /\ \A r \in Delayed : delay_pc[r] # "idle" => waited[r] < MaxWait
  /\ jiffies' = (jiffies + 1) % JiffiesMod
  /\ waited' = [r \in Delayed |-> IF delay_pc[r] = "idle" THEN 0 ELSE waited[r] + 1]
  /\ delay_pc' = [r \in Delayed |-> IF delay_pc[r] = "asleep" /\ ~time_before(jiffies', j1[r])
                              THEN "print" ELSE delay_pc[r]]
  /\ UNCHANGED <<file, j1, delay_sig>>

\* j0 = jiffies, j1 = j0 + delay, and the switch.  schedule_timeout(0) does
\* not sleep.
DelayShow(r) ==
  /\ delay_pc[r] = "idle"
  /\ \E f \in Files :
       /\ file' = [file EXCEPT ![r] = f]
       /\ DelayGoto(r, CASE f \in {"JIT_BUSY", "JIT_SCHED"} -> "loop"
                    [] f \in {"JIT_QUEUE", "JIT_SCHEDTO"} ->
                         IF delay = 0 THEN "print" ELSE "asleep")
  /\ j1' = [j1 EXCEPT ![r] = (jiffies + delay) % JiffiesMod]
  /\ waited' = [waited EXCEPT ![r] = 0]
  /\ UNCHANGED <<jiffies, delay_sig>>

\* One turn of the loops of lines 72 and 76.
Loop(r) ==
  /\ delay_pc[r] = "loop"
  /\ ~time_before(jiffies, j1[r])
  /\ DelayGoto(r, "print")
  /\ UNCHANGED <<jiffies, file, j1, delay_sig, waited>>

\* A signal wakes a sleeping reader; nothing looks at it in the loops.
DelaySignal(r) ==
  /\ r \in DelayKillable
  /\ delay_pc[r] \in {"asleep", "loop"}
  /\ delay_sig' = delay_sig \cup {r}
  /\ delay_pc' = [delay_pc EXCEPT ![r] = IF @ = "asleep" THEN "print" ELSE @]
  /\ UNCHANGED <<jiffies, file, j1, waited>>

\* j1 = jiffies is printed and the read returns.
PrintTimes(r) ==
  /\ delay_pc[r] = "print"
  /\ delay_sig' = delay_sig \ {r}
  /\ j1' = [j1 EXCEPT ![r] = 0]
  /\ waited' = [waited EXCEPT ![r] = 0]
  /\ DelayGoto(r, "idle")
  /\ UNCHANGED <<jiffies, file>>

DelayNext == Jiffy \/ \E r \in Delayed : DelayShow(r) \/ Loop(r) \/ DelaySignal(r) \/ PrintTimes(r)

DelaySpec == DelayInit /\ [][DelayNext]_delay_vars

-----------------------------------------------------------------------------
(* Properties *)

\* No read is cut short: when it prints, delay ticks have really passed, also
\* when jiffies wrapped in between or the reader was kept from running.  Only
\* a signal may end the two sleeping reads early.
DelayKept ==
  \A r \in Delayed : delay_pc[r] = "print" =>
    \/ waited[r] >= delay
    \/ r \in delay_sig /\ file[r] \in {"JIT_QUEUE", "JIT_SCHEDTO"}
=============================================================================
