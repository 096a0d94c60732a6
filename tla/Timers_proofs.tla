----------------------------- MODULE Timers_proofs -----------------------------
(***************************************************************************)
(* Proofs of the safety properties of the drivers that work in timers and  *)
(* other deferred contexts: GpioPulse, for any number of writers, values   *)
(* and stores; VirtTty, for any number of open files; Jiq, for any number  *)
(* of readers, overlapping and interrupted as they like, and any limit.    *)
(***************************************************************************)
EXTENDS GpioPulse, VirtTty, Jiq, TLAPS

-----------------------------------------------------------------------------
(* GpioPulse *)

PulseTypeInv ==
  /\ enable \in Int
  /\ writer \in [Writers -> {"idle", "arm"}]
  /\ raced \in BOOLEAN

\* Something will toggle the pin again, or is about to start it.
Pulsing == timer = "armed" \/ cbk # "idle" \/ \E w \in Writers : writer[w] = "arm"

\* Once the timer was armed by probe, an enabled pin pulses.
EnabledInv == phase \in {"drvdata", "bound"} /\ fault = "none" /\ enable # 0 => Pulsing

\* Between del_timer and the free the timer is at rest unless there was a
\* race, and after device_unregister no store is left to arm it.
StoppedInv ==
  /\ phase \in {"unregister", "free"} /\ ~raced => timer # "armed" /\ cbk = "idle"
  /\ phase = "free" => \A w \in Writers : writer[w] = "idle"

PulseInd == PulseTypeInv /\ EnabledInv /\ StoppedInv /\ FreedTimerNeedsRace

\* A long that is not zero as an int is not zero.
LEMMA NonzeroInt == \A v \in Values : v % IntMod \in Int /\ (v % IntMod # 0 => v # 0)
BY GpioAssumption

\* The invariant holds before the first probe.
LEMMA PulseInit == Init => PulseInd
<1> SUFFICES ASSUME Init PROVE PulseInd
  OBVIOUS
<1>1. raced \in BOOLEAN
  BY Zenon DEF Init
<1>2. QED
  BY <1>1 DEF Init, PulseInd, PulseTypeInv, EnabledInv, StoppedInv, FreedTimerNeedsRace

\* Every step keeps it: probe and remove, the stores, the handler.
LEMMA PulseStep == PulseInd /\ [Next]_vars => PulseInd'
<1> SUFFICES ASSUME PulseInd, [Next]_vars PROVE PulseInd'
  OBVIOUS
<1> USE GpioAssumption DEF PulseInd, PulseTypeInv, EnabledInv, Pulsing, StoppedInv,
       FreedTimerNeedsRace
<1>1. CASE UNCHANGED vars
  BY <1>1 DEF vars
<1>2. CASE fault = "none" /\ ProbeParse
  BY <1>2, NonzeroInt DEF ProbeParse
<1>3. CASE fault = "none" /\ (ProbeCreate \/ ProbeDirection \/ ProbeTimer \/ ProbeDrvdata)
  BY <1>3 DEF ProbeCreate, ProbeDirection, ProbeTimer, ProbeDrvdata, prv
<1>4. CASE fault = "none" /\ RemoveDelTimer
  BY <1>4 DEF RemoveDelTimer, prv
<1>5. CASE fault = "none" /\ RemoveUnregister
  BY <1>5 DEF RemoveUnregister, prv
<1>6. CASE fault = "none" /\ Free
  BY <1>6 DEF Free, prv
<1>7. CASE fault = "none" /\ StoreTooEarly
  BY <1>7 DEF StoreTooEarly, prv
<1>8. ASSUME NEW w \in Writers, NEW v \in Values, fault = "none", StoreEnable(w, v)
      PROVE  PulseInd'
  BY <1>8, NonzeroInt DEF StoreEnable, Visible
<1>9. ASSUME NEW w \in Writers, fault = "none", StoreArm(w) PROVE PulseInd'
  BY <1>9 DEF StoreArm
<1>10. ASSUME NEW t \in Times, fault = "none", StoreTime(t) PROVE PulseInd'
  BY <1>10 DEF StoreTime
<1>11. CASE fault = "none" /\ Callback
  BY <1>11 DEF Callback, Fire, Toggle, Test, Rearm, prv
<1>12. QED
  BY <1>1, <1>2, <1>3, <1>4, <1>5, <1>6, <1>7, <1>8, <1>9, <1>10, <1>11 DEF Next, Core, Store

\* The invariant holds throughout.
LEMMA PulseInvariance == Spec => []PulseInd
BY PulseInit, PulseStep, PTL DEF Spec

\* No crossing of stores and the handler's test leaves an enabled, bound pin
\* without its timer (enablepulse_store and timer_cbk, which share no lock).
THEOREM EnabledPulses == Spec => []PulsesWhileEnabled
<1>1. PulseInd => PulsesWhileEnabled
  BY DEF PulseInd, EnabledInv, Pulsing, PulsesWhileEnabled
<1>2. QED
  BY PulseInvariance, <1>1, PTL

\* remove frees a running timer only after a race with the handler or a store.
THEOREM FreeNeedsRace == Spec => []FreedTimerNeedsRace
<1>1. PulseInd => FreedTimerNeedsRace
  BY DEF PulseInd
<1>2. QED
  BY PulseInvariance, <1>1, PTL

-----------------------------------------------------------------------------
(* VirtTty *)

Ops == {"none", "open_timer", "close_timer", "close_tty"}

TtyTypeInv ==
  /\ open_count \in Nat /\ files \in Nat
  /\ op \in Ops
  /\ overlap \in BOOLEAN

\* open_count is the number of open files, one less in a close, and the
\* module has no open file before it is set up and after it began to go.
CountInv ==
  /\ files = open_count + (IF op \in {"close_timer", "close_tty"} THEN 1 ELSE 0)
  /\ op = "close_timer" => open_count = 0
  /\ op = "open_timer" => open_count > 0
  /\ module # "live" => op = "none" /\ files = 0

\* The tty and the device are there for as long as a file is open.
ThereInv ==
  /\ files > 0 => tty = "live"
  /\ virt_tty_prv = "freed" => module = "gone"

\* Without an overlap the timer and its handler are at work only while the port
\* is open.
QuietInv ==
  ~overlap /\ (tty_timer = "armed" \/ tty_cbk # "idle")
    => (open_count > 0 /\ op # "open_timer") \/ op = "close_timer"

TtyInd == TtyTypeInv /\ CountInv /\ ThereInv /\ QuietInv /\ TimerWhileOpen /\ FaultsNeedOverlap

\* The invariant holds when the module is loaded.
LEMMA TtyInitInd == TtyInit => TtyInd
<1> SUFFICES ASSUME TtyInit PROVE TtyInd
  OBVIOUS
<1>1. overlap \in BOOLEAN
  BY Zenon DEF TtyInit
<1>2. QED
  BY <1>1 DEF TtyInit, TtyInd, TtyTypeInv, Ops, CountInv, ThereInv, QuietInv, TimerWhileOpen,
     FaultsNeedOverlap

\* Every step keeps it: init and exit, open and close, the handler.
LEMMA TtyStep == TtyInd /\ [TtyNext]_tty_vars => TtyInd'
<1> SUFFICES ASSUME TtyInd, [TtyNext]_tty_vars PROVE TtyInd'
  OBVIOUS
<1> USE DEF TtyInd, TtyTypeInv, Ops, CountInv, ThereInv, QuietInv, TimerWhileOpen, FaultsNeedOverlap
<1>1. CASE UNCHANGED tty_vars
  BY <1>1 DEF tty_vars
<1>2. CASE tty_fault = "none" /\ (Register \/ Alloc \/ Setup)
  BY <1>2 DEF Register, Alloc, Setup
<1>3. CASE tty_fault = "none" /\ OpenTooEarly
  BY <1>3 DEF OpenTooEarly, Fault
<1>4. CASE tty_fault = "none" /\ Open
  BY <1>4 DEF Open
<1>5. CASE tty_fault = "none" /\ OpenTimer
  <2>1. tty_timer = "armed" => overlap
    BY <1>5 DEF OpenTimer
  <2>2. FaultsNeedOverlap'
    BY <1>5, <2>1 DEF OpenTimer
  <2>3. QuietInv' /\ TimerWhileOpen'
    BY <1>5 DEF OpenTimer
  <2>4. QED
    BY <1>5, <2>2, <2>3 DEF OpenTimer
<1>6. CASE tty_fault = "none" /\ Close
  BY <1>6 DEF Close
<1>7. CASE tty_fault = "none" /\ CloseTimer
  <2>1. overlap' = (overlap \/ tty_cbk # "idle")
    BY <1>7 DEF CloseTimer, DelTimer
  <2>2. overlap' \in BOOLEAN /\ (overlap => overlap') /\ (~overlap' => tty_cbk = "idle")
    BY <2>1, Zenon
  <2>3. QED
    BY <1>7, <2>2 DEF CloseTimer, DelTimer
<1>8. CASE tty_fault = "none" /\ CloseTty
  BY <1>8 DEF CloseTty
<1>9. CASE tty_fault = "none" /\ TtyFire
  BY <1>9 DEF TtyFire
<1>10. CASE tty_fault = "none" /\ (Insert \/ Push)
  BY <1>10 DEF Insert, Push, UsePort, Fault
<1>11. CASE tty_fault = "none" /\ TtyRearm
  BY <1>11 DEF TtyRearm, Fault
<1>12. CASE tty_fault = "none" /\ ExitUnregister
  BY <1>12 DEF ExitUnregister
<1>13. CASE tty_fault = "none" /\ ExitDelTimer
  BY <1>13 DEF ExitDelTimer, DelTimer
<1>14. CASE tty_fault = "none" /\ ExitFree
  BY <1>14 DEF ExitFree
<1>15. QED
  BY <1>1, <1>2, <1>3, <1>4, <1>5, <1>6, <1>7, <1>8, <1>9, <1>10, <1>11, <1>12, <1>13, <1>14
     DEF TtyNext, TtyCallback

\* The invariant holds throughout.
LEMMA TtyInvariance == TtySpec => []TtyInd
BY TtyInitInd, TtyStep, PTL DEF TtySpec

\* An open port has its greeting timer (virttty_open, do_close, timer_cbk).
THEOREM OpenHasTimer == TtySpec => []TimerWhileOpen
<1>1. TtyInd => TimerWhileOpen
  BY DEF TtyInd
<1>2. QED
  BY TtyInvariance, <1>1, PTL

\* A freed tty, a freed device or an armed timer is hit only after a del_timer
\* that did not wait for timer_cbk.
THEOREM OnlyOverlapFaults == TtySpec => []FaultsNeedOverlap
<1>1. TtyInd => FaultsNeedOverlap
  BY DEF TtyInd
<1>2. QED
  BY TtyInvariance, <1>1, PTL

-----------------------------------------------------------------------------
(* Jiq *)

WorkFiles == {"wq", "wq_delayed"}

JiqTypeInv ==
  /\ m \in Readers \cup {None} /\ len \in Nat /\ len <= LIMIT + 1
  /\ count \in [Readers -> Nat]
  /\ pending \subseteq Kinds
  /\ DOMAIN pc = Actors /\ kind \in [Readers -> Kinds]
  /\ DOMAIN my_first = Actors /\ my_m \in [Actors -> Readers \cup {None}]
  /\ my_len \in [Actors -> Nat] /\ \A a \in Actors : my_len[a] <= LIMIT + 1
  /\ jiq_wait \subseteq Readers

\* Nothing is scheduled before jiq_data.m was set, and jiq_print has seen it.
StartedInv ==
  /\ m = None => pending = {} /\ \A a \in Actors : pc[a] \in {"idle", "set_m"}
  /\ \A a \in Actors : pc[a] = "print" => my_m[a] # None

\* Where a reader of a file can be.
PlaceInv ==
  \A r \in Readers :
    /\ pc[r] \in {"look", "print", "add", "full", "del_timer"} => kind[r] = "timer"
    /\ pc[r] = "wait" => kind[r] \notin WorkFiles

\* Nobody reads once the module is gone.
GoneInv == ~loaded => \A r \in Readers : pc[r] = "idle"

\* What holds whatever the readers do.
AlwaysInv == JiqTypeInv /\ StartedInv /\ PlaceInv /\ GoneInv /\ SleeperHasWork

\* No two reads overlap.
OneAtATime == \A r, s \in Readers : pc[r] # "idle" /\ pc[s] # "idle" => r = s

\* A reader that has scheduled its context.
Served(r) == pc[r] \in {"wait", "asleep", "del_timer"}

\* A context that has lines to print, or a timer that is at work at all.
Active(c) == Busy(c) \/ (c = "timer" /\ pc[c] # "idle")

\* The context works for this reader, which in a work queue file is still to be
\* woken.
Serves(c, r) == kind[r] = c /\ Served(r) /\ (c \in WorkFiles => r \in jiq_wait)

ServesInv == \A c \in Kinds : Active(c) => \E r \in Readers : Serves(c, r)

\* What jiq_print saw is still so when it prints, and the sum it stores is no
\* less than what the buffer holds, up to the limit.
PrintInv ==
  \A a \in Actors :
    /\ pc[a] = "print" => my_m[a] = m /\ len <= LIMIT /\ my_first[a] = (len = 0)
    /\ pc[a] = "add" /\ my_len[a] <= LIMIT => count[m] <= my_len[a]

\* The buffer holds no more lines than jiq_data.len says, up to the limit,
\* unless a line has been printed that is still to be added.
ReadInv ==
  \A r \in Readers :
    /\ pc[r] = "set_m" => len = 0 /\ count[r] = 0
    /\ pc[r] \notin {"idle", "set_m"} => m = r
    /\ pc[r] \notin {"idle", "set_m"} /\ (\A a \in Actors : pc[a] # "add") /\ len <= LIMIT
         => count[r] <= len
    /\ pc[r] # "idle" => count[r] < BufSize
    /\ pc[r] = "schedule" /\ kind[r] \in WorkFiles => r \in jiq_wait

\* What holds as long as jiq_data has one user.
CalmInv == OneAtATime /\ ServesInv /\ PrintInv /\ ReadInv /\ ~timer_clash

JiqInd == AlwaysInv /\ (~disturbed => CalmInv)

\* A reader inside a read is the only one, and every context that is at work
\* works for it.
LEMMA Alone ==
  ASSUME CalmInv, NEW r \in Readers, pc[r] # "idle"
  PROVE  /\ \A q \in Readers : q # r => pc[q] = "idle"
         /\ \A k \in Kinds : Active(k) => Serves(k, r)
BY DEF CalmInv, ServesInv, OneAtATime, Serves, Served

\* The count of a buffer and the sum of a line are numbers, whoever prints.
LEMMA LineTypes ==
  ASSUME JiqTypeInv, NEW a \in Actors, PrintLine(a), my_m[a] \in Readers
  PROVE  /\ count' \in [Readers -> Nat]
         /\ my_len' \in [Actors -> Nat] /\ \A b \in Actors : my_len'[b] <= LIMIT + 1
<1> DEFINE f == my_m[a]
           head == Filled(count[f] + 1)
           now == IF my_first[a] THEN Filled(head + 1) ELSE Filled(count[f] + 1)
           sum == Capped(len + (IF my_first[a] THEN head ELSE 0) + now)
<1> USE JiqAssumption DEF JiqTypeInv
<1>1. head \in Nat
  BY DEF Filled
<1>2. now \in Nat
  BY <1>1 DEF Filled
<1>3. sum \in Nat /\ sum <= LIMIT + 1
  BY <1>1, <1>2 DEF Capped
<1>4. count' = [count EXCEPT ![f] = now] /\ my_len' = [my_len EXCEPT ![a] = sum]
  BY DEF PrintLine
<1> HIDE DEF now, sum, head, f
<1>5. QED
  BY <1>2, <1>3, <1>4

\* A line leaves room in the buffer, and the sum is no less than it holds.
LEMMA LineFits ==
  ASSUME JiqTypeInv, NEW a \in Actors, PrintLine(a),
         my_m[a] \in Readers, len <= LIMIT, count[my_m[a]] <= len,
         my_first[a] = (len = 0)
  PROVE  LET n == count'[my_m[a]]
         IN  /\ count' = [count EXCEPT ![my_m[a]] = n]
             /\ n \in Nat /\ n < BufSize
             /\ my_len'[a] <= LIMIT => n <= my_len'[a]
<1> DEFINE f == my_m[a]
<1> USE JiqAssumption DEF JiqTypeInv
<1>1. CASE len = 0
  <2>1. my_first[a] = TRUE
    BY <1>1
  <2>2. count[f] = 0
    BY <1>1
  <2>3. count'[f] = 2 /\ my_len'[a] = Capped(3)
    BY <1>1, <2>1, <2>2 DEF PrintLine, Filled
  <2>4. QED
    BY <1>1, <2>3 DEF Capped, PrintLine
<1>2. CASE len # 0
  <2>1. my_first[a] = FALSE
    BY <1>2
  <2>2. count'[f] = count[f] + 1 /\ my_len'[a] = Capped(len + count[f] + 1)
    BY <1>2, <2>1 DEF PrintLine, Filled
  <2>3. QED
    BY <1>2, <2>2 DEF Capped, PrintLine
<1>3. QED
  BY <1>1, <1>2

\* Starting, a context no longer is scheduled; it prints, or finds the limit reached
\* and has woken its reader.
LEMMA RunInd ==
  ASSUME JiqInd, NEW c \in Kinds, Run(c)
  PROVE  JiqInd'
<1> USE JiqAssumption DEF JiqInd, AlwaysInv, JiqTypeInv
<1>1. JiqTypeInv'
  BY DEF Run, PrintLook, Goto, data, locals, Actors, Kinds
<1>2. StartedInv' /\ PlaceInv'
  BY DEF Run, PrintLook, Goto, data, locals, Actors, Kinds, StartedInv, PlaceInv, WorkFiles
<1>3. GoneInv'
  BY DEF Run, PrintLook, Goto, Actors, Kinds, GoneInv
<1>4. SleeperHasWork'
  BY DEF Run, PrintLook, Goto, Actors, Kinds, SleeperHasWork, Busy, PlaceInv, WorkFiles
<1>5. ASSUME ~disturbed' PROVE CalmInv'
  <2>1. CalmInv
    BY <1>5 DEF Run
  <2>2. PICK r \in Readers :
          /\ Serves(c, r) /\ pc[r] # "idle" /\ \A q \in Readers : q # r => pc[q] = "idle"
          /\ \A k \in Kinds : Active(k) => Serves(k, r)
    <3>1. PICK r \in Readers : Serves(c, r)
      BY <2>1 DEF CalmInv, ServesInv, Active, Busy, Run, PrintLook
    <3>2. QED
      BY <2>1, <3>1, Alone DEF Serves, Served
  <2>3. OneAtATime' /\ ~timer_clash'
    BY <1>5, <2>1, <2>2 DEF Run, PrintLook, Goto, Actors, Kinds, OneAtATime, CalmInv
  <2>4. ServesInv'
    BY <1>5, <2>1, <2>2 DEF Run, PrintLook, Goto, Actors, Kinds, CalmInv, ServesInv, Active,
       Busy, Serves, Served, WorkFiles, ReadInv, PlaceInv
  <2>5. PrintInv'
    BY <1>5, <2>1, <2>2 DEF Run, PrintLook, Goto, Actors, Kinds, data, locals, CalmInv,
       PrintInv, ReadInv, Active, Busy, Serves, Served
  <2>6. ReadInv'
    BY <1>5, <2>1, <2>2 DEF Run, PrintLook, Goto, Actors, Kinds, data, CalmInv, ReadInv,
       PrintInv, PlaceInv, Active, Busy, Serves, Served, WorkFiles
  <2>7. QED
    BY <2>3, <2>4, <2>5, <2>6 DEF CalmInv
<1>6. QED
  BY <1>1, <1>2, <1>3, <1>4, <1>5

\* Whoever prints a line has the sum still to store.
LEMMA PrintLineInd ==
  ASSUME JiqInd, NEW a \in Actors, PrintLine(a)
  PROVE  JiqInd'
<1> USE JiqAssumption DEF JiqInd, AlwaysInv, JiqTypeInv
<1>0. my_m[a] \in Readers /\ count' \in [Readers -> Nat]
      /\ my_len' \in [Actors -> Nat] /\ \A b \in Actors : my_len'[b] <= LIMIT + 1
  <2>1. my_m[a] \in Readers
    BY DEF StartedInv, PrintLine
  <2>2. QED
    BY <2>1, LineTypes
<1>1. JiqTypeInv'
  BY <1>0 DEF PrintLine, Goto, Actors, Kinds
<1>2. StartedInv' /\ PlaceInv'
  BY <1>0 DEF PrintLine, Goto, Actors, Kinds, StartedInv, PlaceInv, WorkFiles
<1>3. GoneInv'
  BY DEF PrintLine, Goto, Actors, Kinds, GoneInv
<1>4. SleeperHasWork'
  BY DEF PrintLine, Goto, Actors, Kinds, SleeperHasWork, Busy, PlaceInv, WorkFiles
<1>5. ASSUME ~disturbed' PROVE CalmInv'
  <2>1. CalmInv
    BY <1>5 DEF PrintLine
  <2>2. PICK r \in Readers :
          /\ a = r \/ (a \in Kinds /\ Serves(a, r))
          /\ pc[r] # "idle" /\ pc[r] # "set_m"
          /\ \A q \in Readers : q # r => pc[q] = "idle"
          /\ \A k \in Kinds : Active(k) => Serves(k, r)
    <3>1. CASE a \in Readers
      BY <2>1, <3>1, Alone DEF PrintLine
    <3>2. CASE a \in Kinds
      <4>1. PICK r \in Readers : Serves(a, r)
        BY <2>1, <3>2 DEF CalmInv, ServesInv, Active, Busy, PrintLine
      <4>2. QED
        BY <2>1, <3>2, <4>1, Alone DEF Serves, Served
    <3>3. QED
      BY <3>1, <3>2 DEF Actors
  <2>3. \A b \in Actors : b # a => pc[b] \notin {"print", "add"}
    BY <2>2 DEF Actors, Active, Busy, Serves, Served, PrintLine
  <2>4. /\ my_m[a] = r /\ m = r /\ count[r] <= len /\ len <= LIMIT
        /\ my_first[a] = (len = 0)
    BY <2>1, <2>2, <2>3 DEF CalmInv, ReadInv, PrintInv, Served, Serves, PrintLine
  <2> DEFINE n == count'[r]
  <2>5. /\ count' = [count EXCEPT ![r] = n] /\ n \in Nat /\ n < BufSize
        /\ my_len'[a] <= LIMIT => n <= my_len'[a]
    BY <2>4, LineFits
  <2> HIDE DEF n
  <2>6. OneAtATime' /\ ~timer_clash'
    BY <2>1 DEF PrintLine, Goto, Actors, Kinds, OneAtATime, CalmInv
  <2>7. ServesInv'
    BY <2>1 DEF PrintLine, Goto, Actors, Kinds, CalmInv, ServesInv, Active, Busy, Serves,
       Served
  <2>8. PrintInv'
    BY <1>0, <2>1, <2>3, <2>4, <2>5 DEF PrintLine, Goto, Actors, CalmInv, PrintInv
  <2>9. ReadInv'
    BY <2>1, <2>2, <2>4, <2>5 DEF PrintLine, Goto, Actors, Kinds, CalmInv, ReadInv
  <2>10. QED
    BY <2>6, <2>7, <2>8, <2>9 DEF CalmInv
<1>6. QED
  BY <1>1, <1>2, <1>3, <1>4, <1>5

\* Having printed, a work item or the tasklet is scheduled for the same reader.
LEMMA PrintAgainInd ==
  ASSUME JiqInd, NEW c \in Kinds, PrintAgain(c)
  PROVE  JiqInd'
<1> USE JiqAssumption DEF JiqInd, AlwaysInv, JiqTypeInv
<1>0. len' \in Nat /\ len' <= LIMIT + 1 /\ c \in Actors /\ pending' \subseteq Kinds
  BY DEF PrintAgain, StoreLen, Actors
<1>1. JiqTypeInv'
  BY <1>0 DEF PrintAgain, StoreLen, Goto, data, locals, Actors, Kinds
<1>2. StartedInv' /\ PlaceInv'
  BY <1>0 DEF PrintAgain, StoreLen, Goto, data, locals, Actors, Kinds, StartedInv, PlaceInv,
     WorkFiles
<1>3. GoneInv'
  BY <1>0 DEF PrintAgain, StoreLen, Goto, Actors, Kinds, GoneInv
<1>4. SleeperHasWork'
  BY <1>0 DEF PrintAgain, StoreLen, Goto, Actors, Kinds, SleeperHasWork, Busy, PlaceInv,
     WorkFiles
<1>5. ASSUME ~disturbed' PROVE CalmInv'
  <2>1. CalmInv
    BY <1>5 DEF PrintAgain
  <2>2. PICK r \in Readers :
          /\ Serves(c, r) /\ pc[r] # "idle" /\ \A q \in Readers : q # r => pc[q] = "idle"
          /\ \A k \in Kinds : Active(k) => Serves(k, r)
    <3>1. PICK r \in Readers : Serves(c, r)
      BY <2>1 DEF CalmInv, ServesInv, Active, Busy, PrintAgain, StoreLen
    <3>2. QED
      BY <2>1, <3>1, Alone DEF Serves, Served
  <2>3. \A b \in Actors : b # c => pc[b] \notin {"print", "add"}
    BY <2>2 DEF Actors, Active, Busy, Serves, Served
  <2>4. OneAtATime' /\ ~timer_clash'
    BY <1>5, <2>1, <2>2, <2>3 DEF PrintAgain, StoreLen, Goto, Actors, Kinds, OneAtATime,
       CalmInv
  <2>5. ServesInv'
    BY <1>5, <2>1, <2>2, <2>3 DEF PrintAgain, StoreLen, Goto, Actors, Kinds, CalmInv,
       ServesInv, Active, Busy, Serves, Served, WorkFiles, ReadInv, PlaceInv
  <2>6. PrintInv'
    BY <1>5, <2>1, <2>2, <2>3 DEF PrintAgain, StoreLen, Goto, Actors, Kinds, data, locals,
       CalmInv, PrintInv, ReadInv, Active, Busy, Serves, Served
  <2>7. ReadInv'
    BY <1>5, <2>1, <2>2, <2>3 DEF PrintAgain, StoreLen, Goto, Actors, Kinds, data, CalmInv,
       ReadInv, PrintInv, PlaceInv, Active, Busy, Serves, Served, WorkFiles
  <2>8. QED
    BY <2>4, <2>5, <2>6, <2>7 DEF CalmInv
<1>6. QED
  BY <1>1, <1>2, <1>3, <1>4, <1>5

\* The timer prints for its reader, which is in the timer file.
LEMMA PrintOnceInd ==
  ASSUME JiqInd, NEW c \in Kinds, PrintOnce(c)
  PROVE  JiqInd'
<1> USE JiqAssumption DEF JiqInd, AlwaysInv, JiqTypeInv
<1>1. JiqTypeInv'
  BY DEF PrintOnce, StoreLen, Goto, data, locals, Actors, Kinds
<1>2. StartedInv' /\ PlaceInv'
  BY DEF PrintOnce, StoreLen, Goto, data, locals, Actors, Kinds, StartedInv, PlaceInv,
     WorkFiles
<1>3. GoneInv'
  BY DEF PrintOnce, StoreLen, Goto, Actors, Kinds, GoneInv
<1>4. SleeperHasWork'
  BY DEF PrintOnce, StoreLen, Goto, Actors, Kinds, SleeperHasWork, Busy, PlaceInv, WorkFiles
<1>5. ASSUME ~disturbed' PROVE CalmInv'
  <2>1. CalmInv
    BY <1>5 DEF PrintOnce
  <2>2. PICK r \in Readers :
          /\ Serves(c, r) /\ pc[r] # "idle" /\ \A q \in Readers : q # r => pc[q] = "idle"
          /\ \A k \in Kinds : Active(k) => Serves(k, r)
    <3>1. PICK r \in Readers : Serves(c, r)
      BY <2>1 DEF CalmInv, ServesInv, Active, Busy, PrintOnce, StoreLen
    <3>2. QED
      BY <2>1, <3>1, Alone DEF Serves, Served
  <2>3. \A b \in Actors : b # c => pc[b] \notin {"print", "add"}
    BY <2>2 DEF Actors, Active, Busy, Serves, Served
  <2>4. OneAtATime' /\ ~timer_clash'
    BY <1>5, <2>1, <2>2, <2>3 DEF PrintOnce, StoreLen, Goto, Actors, Kinds, OneAtATime,
       CalmInv
  <2>5. ServesInv'
    BY <1>5, <2>1, <2>2, <2>3 DEF PrintOnce, StoreLen, Goto, Actors, Kinds, CalmInv,
       ServesInv, Active, Busy, Serves, Served, WorkFiles, ReadInv, PlaceInv
  <2>6. PrintInv'
    BY <1>5, <2>1, <2>2, <2>3 DEF PrintOnce, StoreLen, Goto, Actors, Kinds, data, locals,
       CalmInv, PrintInv, ReadInv, Active, Busy, Serves, Served
  <2>7. ReadInv'
    BY <1>5, <2>1, <2>2, <2>3 DEF PrintOnce, StoreLen, Goto, Actors, Kinds, data, CalmInv,
       ReadInv, PrintInv, PlaceInv, Active, Busy, Serves, Served, WorkFiles
  <2>8. QED
    BY <2>4, <2>5, <2>6, <2>7 DEF CalmInv
<1>6. QED
  BY <1>1, <1>2, <1>3, <1>4, <1>5

\* A context that found the limit reached ends; the timer's wake-up meets nobody
\* who sleeps in a work queue file, as long as jiq_data has one user.
LEMMA FullInd ==
  ASSUME JiqInd, NEW c \in Kinds, Full(c)
  PROVE  JiqInd'
<1> USE JiqAssumption DEF JiqInd, AlwaysInv, JiqTypeInv
<1>1. JiqTypeInv'
  BY DEF Full, Goto, data, locals, Actors, Kinds
<1>2. StartedInv' /\ PlaceInv'
  BY DEF Full, Goto, data, locals, Actors, Kinds, StartedInv, PlaceInv, WorkFiles
<1>3. GoneInv'
  BY DEF Full, Goto, Actors, Kinds, GoneInv
<1>4. SleeperHasWork'
  BY DEF Full, Goto, Actors, Kinds, SleeperHasWork, Busy, PlaceInv, WorkFiles
<1>5. ASSUME ~disturbed' PROVE CalmInv'
  <2>1. CalmInv
    BY <1>5 DEF Full
  <2>2. ASSUME c = "timer"
        PROVE  \E r \in Readers :
                 /\ Serves(c, r) /\ \A q \in Readers : q # r => pc[q] = "idle"
                 /\ \A k \in Kinds : Active(k) => Serves(k, r)
    <3>1. PICK r \in Readers : Serves(c, r)
      BY <2>1, <2>2 DEF CalmInv, ServesInv, Active, Full
    <3>2. QED
      BY <2>1, <3>1, Alone DEF Serves, Served
  <2>3. OneAtATime' /\ ~timer_clash'
    BY <1>5, <2>1, <2>2 DEF Full, Goto, Actors, Kinds, OneAtATime, CalmInv
  <2>4. ServesInv'
    BY <1>5, <2>1, <2>2 DEF Full, Goto, Actors, Kinds, CalmInv, ServesInv, Active, Busy,
       Serves, Served, WorkFiles, ReadInv, PlaceInv
  <2>5. PrintInv'
    BY <1>5, <2>1, <2>2 DEF Full, Goto, Actors, Kinds, data, locals, CalmInv, PrintInv,
       ReadInv, Active, Busy, Serves, Served
  <2>6. ReadInv'
    BY <1>5, <2>1, <2>2 DEF Full, Goto, Actors, Kinds, data, CalmInv, ReadInv, PrintInv,
       PlaceInv, Active, Busy, Serves, Served, WorkFiles
  <2>7. QED
    BY <2>3, <2>4, <2>5, <2>6 DEF CalmInv
<1>6. QED
  BY <1>1, <1>2, <1>3, <1>4, <1>5

\* A read that is not disturbed begins when no context is at work.
LEMMA ShowInd ==
  ASSUME JiqInd, ~timer_clash, NEW r \in Readers, Show(r)
  PROVE  JiqInd'
<1> USE JiqAssumption DEF JiqInd, AlwaysInv, JiqTypeInv
<1>1. JiqTypeInv'
  BY DEF Show, Goto, data, locals, Actors, Kinds
<1>2. StartedInv' /\ PlaceInv'
  BY DEF Show, Goto, data, locals, Actors, Kinds, StartedInv, PlaceInv, WorkFiles
<1>3. GoneInv'
  BY DEF Show, Goto, Actors, Kinds, GoneInv
<1>4. SleeperHasWork'
  BY DEF Show, Goto, Actors, Kinds, SleeperHasWork, Busy, PlaceInv, WorkFiles
<1>5. ASSUME ~disturbed' PROVE CalmInv'
  <2>1. \A q \in Readers : pc[q] = "idle"
    BY <1>5 DEF Show
  <2>2. \A k \in Kinds : ~Active(k)
    <3>1. CASE ~disturbed
      BY <2>1, <3>1 DEF CalmInv, ServesInv, Serves, Served
    <3>2. CASE AtRest
      BY <3>2 DEF AtRest, Active, Busy, Actors
    <3>3. QED
      BY <1>5, <3>1, <3>2 DEF Show
  <2>3. OneAtATime' /\ ~timer_clash'
    BY <1>5, <2>1, <2>2 DEF Show, Goto, Actors, Kinds, OneAtATime, CalmInv
  <2>4. ServesInv'
    BY <1>5, <2>1, <2>2 DEF Show, Goto, Actors, Kinds, CalmInv, ServesInv, Active, Busy,
       Serves, Served, WorkFiles, ReadInv, PlaceInv
  <2>5. PrintInv'
    BY <1>5, <2>1, <2>2 DEF Show, Goto, Actors, Kinds, data, locals, CalmInv, PrintInv,
       ReadInv, Active, Busy, Serves, Served
  <2>6. ReadInv'
    BY <1>5, <2>1, <2>2 DEF Show, Goto, Actors, Kinds, data, CalmInv, ReadInv, PrintInv,
       PlaceInv, Active, Busy, Serves, Served, WorkFiles
  <2>7. QED
    BY <2>3, <2>4, <2>5, <2>6 DEF CalmInv
<1>6. QED
  BY <1>1, <1>2, <1>3, <1>4, <1>5

\* The reader puts its seq_file into jiq_data.
LEMMA ShowSetMInd ==
  ASSUME JiqInd, NEW r \in Readers, ShowSetM(r)
  PROVE  JiqInd'
<1> USE JiqAssumption DEF JiqInd, AlwaysInv, JiqTypeInv
<1>1. JiqTypeInv'
  BY DEF ShowSetM, Goto, data, locals, Actors, Kinds
<1>2. StartedInv' /\ PlaceInv'
  BY DEF ShowSetM, Goto, data, locals, Actors, Kinds, StartedInv, PlaceInv, WorkFiles
<1>3. GoneInv'
  BY DEF ShowSetM, Goto, Actors, Kinds, GoneInv
<1>4. SleeperHasWork'
  BY DEF ShowSetM, Goto, Actors, Kinds, SleeperHasWork, Busy, PlaceInv, WorkFiles
<1>5. ASSUME ~disturbed' PROVE CalmInv'
  <2>1. CalmInv
    BY <1>5 DEF ShowSetM
  <2>2. /\ pc[r] # "idle" /\ (\A q \in Readers : q # r => pc[q] = "idle")
        /\ (\A k \in Kinds : Active(k) => Serves(k, r))
    BY <2>1, Alone DEF ShowSetM
  <2>3. OneAtATime' /\ ~timer_clash'
    BY <1>5, <2>1, <2>2 DEF ShowSetM, Goto, Actors, Kinds, OneAtATime, CalmInv
  <2>4. ServesInv'
    BY <1>5, <2>1, <2>2 DEF ShowSetM, Goto, Actors, Kinds, CalmInv, ServesInv, Active, Busy,
       Serves, Served, WorkFiles, ReadInv, PlaceInv
  <2>5. PrintInv'
    BY <1>5, <2>1, <2>2 DEF ShowSetM, Goto, Actors, Kinds, data, locals, CalmInv, PrintInv,
       ReadInv, Active, Busy, Serves, Served
  <2>6. ReadInv'
    BY <1>5, <2>1, <2>2 DEF ShowSetM, Goto, Actors, Kinds, data, CalmInv, ReadInv, PrintInv,
       PlaceInv, Active, Busy, Serves, Served, WorkFiles
  <2>7. QED
    BY <2>3, <2>4, <2>5, <2>6 DEF CalmInv
<1>6. QED
  BY <1>1, <1>2, <1>3, <1>4, <1>5

\* The reader goes on the wait queue.
LEMMA ShowPrepareInd ==
  ASSUME JiqInd, NEW r \in Readers, ShowPrepare(r)
  PROVE  JiqInd'
<1> USE JiqAssumption DEF JiqInd, AlwaysInv, JiqTypeInv
<1>1. JiqTypeInv'
  BY DEF ShowPrepare, Goto, data, locals, Actors, Kinds
<1>2. StartedInv' /\ PlaceInv'
  BY DEF ShowPrepare, Goto, data, locals, Actors, Kinds, StartedInv, PlaceInv, WorkFiles
<1>3. GoneInv'
  BY DEF ShowPrepare, Goto, Actors, Kinds, GoneInv
<1>4. SleeperHasWork'
  BY DEF ShowPrepare, Goto, Actors, Kinds, SleeperHasWork, Busy, PlaceInv, WorkFiles
<1>5. ASSUME ~disturbed' PROVE CalmInv'
  <2>1. CalmInv
    BY <1>5 DEF ShowPrepare
  <2>2. /\ pc[r] # "idle" /\ (\A q \in Readers : q # r => pc[q] = "idle")
        /\ (\A k \in Kinds : Active(k) => Serves(k, r))
    BY <2>1, Alone DEF ShowPrepare
  <2>3. OneAtATime' /\ ~timer_clash'
    BY <1>5, <2>1, <2>2 DEF ShowPrepare, Goto, Actors, Kinds, OneAtATime, CalmInv
  <2>4. ServesInv'
    BY <1>5, <2>1, <2>2 DEF ShowPrepare, Goto, Actors, Kinds, CalmInv, ServesInv, Active,
       Busy, Serves, Served, WorkFiles, ReadInv, PlaceInv
  <2>5. PrintInv'
    BY <1>5, <2>1, <2>2 DEF ShowPrepare, Goto, Actors, Kinds, data, locals, CalmInv,
       PrintInv, ReadInv, Active, Busy, Serves, Served
  <2>6. ReadInv'
    BY <1>5, <2>1, <2>2 DEF ShowPrepare, Goto, Actors, Kinds, data, CalmInv, ReadInv,
       PrintInv, PlaceInv, Active, Busy, Serves, Served, WorkFiles
  <2>7. QED
    BY <2>3, <2>4, <2>5, <2>6 DEF CalmInv
<1>6. QED
  BY <1>1, <1>2, <1>3, <1>4, <1>5

\* The reader schedules its context, being on the wait queue already in the work
\* queue files.
LEMMA ShowScheduleInd ==
  ASSUME JiqInd, NEW r \in Readers, ShowSchedule(r)
  PROVE  JiqInd'
<1> USE JiqAssumption DEF JiqInd, AlwaysInv, JiqTypeInv
<1>1. JiqTypeInv'
  BY DEF ShowSchedule, Goto, data, locals, Actors, Kinds
<1>2. StartedInv' /\ PlaceInv'
  BY DEF ShowSchedule, Goto, data, locals, Actors, Kinds, StartedInv, PlaceInv, WorkFiles
<1>3. GoneInv'
  BY DEF ShowSchedule, Goto, Actors, Kinds, GoneInv
<1>4. SleeperHasWork'
  BY DEF ShowSchedule, Goto, Actors, Kinds, SleeperHasWork, Busy, PlaceInv, WorkFiles
<1>5. ASSUME ~disturbed' PROVE CalmInv'
  <2>1. CalmInv
    BY <1>5 DEF ShowSchedule
  <2>2. /\ pc[r] # "idle" /\ (\A q \in Readers : q # r => pc[q] = "idle")
        /\ (\A k \in Kinds : Active(k) => Serves(k, r))
    BY <2>1, Alone DEF ShowSchedule
  <2>3. OneAtATime' /\ ~timer_clash'
    BY <1>5, <2>1, <2>2 DEF ShowSchedule, Goto, Actors, Kinds, OneAtATime, CalmInv
  <2>4. ServesInv'
    BY <1>5, <2>1, <2>2 DEF ShowSchedule, Goto, Actors, Kinds, CalmInv, ServesInv, Active,
       Busy, Serves, Served, WorkFiles, ReadInv, PlaceInv
  <2>5. PrintInv'
    BY <1>5, <2>1, <2>2 DEF ShowSchedule, Goto, Actors, Kinds, data, locals, CalmInv,
       PrintInv, ReadInv, Active, Busy, Serves, Served
  <2>6. ReadInv'
    BY <1>5, <2>1, <2>2 DEF ShowSchedule, Goto, Actors, Kinds, data, CalmInv, ReadInv,
       PrintInv, PlaceInv, Active, Busy, Serves, Served, WorkFiles
  <2>7. QED
    BY <2>3, <2>4, <2>5, <2>6 DEF CalmInv
<1>6. QED
  BY <1>1, <1>2, <1>3, <1>4, <1>5

\* The reader of the timer file looks at the limit.
LEMMA ShowLookInd ==
  ASSUME JiqInd, NEW r \in Readers, ShowLook(r)
  PROVE  JiqInd'
<1> USE JiqAssumption DEF JiqInd, AlwaysInv, JiqTypeInv
<1>1. JiqTypeInv'
  BY DEF ShowLook, PrintLook, Goto, data, locals, Actors, Kinds
<1>2. StartedInv' /\ PlaceInv'
  BY DEF ShowLook, PrintLook, Goto, data, locals, Actors, Kinds, StartedInv, PlaceInv,
     WorkFiles
<1>3. GoneInv'
  BY DEF ShowLook, PrintLook, Goto, Actors, Kinds, GoneInv
<1>4. SleeperHasWork'
  BY DEF ShowLook, PrintLook, Goto, Actors, Kinds, SleeperHasWork, Busy, PlaceInv, WorkFiles
<1>5. ASSUME ~disturbed' PROVE CalmInv'
  <2>1. CalmInv
    BY <1>5 DEF ShowLook
  <2>2. /\ pc[r] # "idle" /\ (\A q \in Readers : q # r => pc[q] = "idle")
        /\ (\A k \in Kinds : Active(k) => Serves(k, r))
    BY <2>1, Alone DEF ShowLook
  <2>3. OneAtATime' /\ ~timer_clash'
    BY <1>5, <2>1, <2>2 DEF ShowLook, PrintLook, Goto, Actors, Kinds, OneAtATime, CalmInv
  <2>4. ServesInv'
    BY <1>5, <2>1, <2>2 DEF ShowLook, PrintLook, Goto, Actors, Kinds, CalmInv, ServesInv,
       Active, Busy, Serves, Served, WorkFiles, ReadInv, PlaceInv
  <2>5. PrintInv'
    BY <1>5, <2>1, <2>2 DEF ShowLook, PrintLook, Goto, Actors, Kinds, data, locals, CalmInv,
       PrintInv, ReadInv, Active, Busy, Serves, Served
  <2>6. ReadInv'
    BY <1>5, <2>1, <2>2 DEF ShowLook, PrintLook, Goto, Actors, Kinds, data, CalmInv,
       ReadInv, PrintInv, PlaceInv, Active, Busy, Serves, Served, WorkFiles
  <2>7. QED
    BY <2>3, <2>4, <2>5, <2>6 DEF CalmInv
<1>6. QED
  BY <1>1, <1>2, <1>3, <1>4, <1>5

\* The reader of the timer file has printed its line.
LEMMA ShowPrintInd ==
  ASSUME JiqInd, NEW r \in Readers, ShowPrint(r)
  PROVE  JiqInd'
<1> USE JiqAssumption DEF JiqInd, AlwaysInv, JiqTypeInv
<1>1. JiqTypeInv'
  BY DEF ShowPrint, StoreLen, Goto, data, locals, Actors, Kinds
<1>2. StartedInv' /\ PlaceInv'
  BY DEF ShowPrint, StoreLen, Goto, data, locals, Actors, Kinds, StartedInv, PlaceInv,
     WorkFiles
<1>3. GoneInv'
  BY DEF ShowPrint, StoreLen, Goto, Actors, Kinds, GoneInv
<1>4. SleeperHasWork'
  BY DEF ShowPrint, StoreLen, Goto, Actors, Kinds, SleeperHasWork, Busy, PlaceInv, WorkFiles
<1>5. ASSUME ~disturbed' PROVE CalmInv'
  <2>1. CalmInv
    BY <1>5 DEF ShowPrint
  <2>2. /\ pc[r] # "idle" /\ (\A q \in Readers : q # r => pc[q] = "idle")
        /\ (\A k \in Kinds : Active(k) => Serves(k, r))
    BY <2>1, Alone DEF ShowPrint, StoreLen
  <2>3. \A b \in Actors : b # r => pc[b] \notin {"print", "add"}
    BY <2>2 DEF Actors, Active, Busy, Serves, Served, ShowPrint, StoreLen
  <2>4. OneAtATime' /\ ~timer_clash'
    BY <1>5, <2>1, <2>2, <2>3 DEF ShowPrint, StoreLen, Goto, Actors, Kinds, OneAtATime,
       CalmInv
  <2>5. ServesInv'
    BY <1>5, <2>1, <2>2, <2>3 DEF ShowPrint, StoreLen, Goto, Actors, Kinds, CalmInv,
       ServesInv, Active, Busy, Serves, Served, WorkFiles, ReadInv, PlaceInv
  <2>6. PrintInv'
    BY <1>5, <2>1, <2>2, <2>3 DEF ShowPrint, StoreLen, Goto, Actors, Kinds, data, locals,
       CalmInv, PrintInv, ReadInv, Active, Busy, Serves, Served
  <2>7. ReadInv'
    BY <1>5, <2>1, <2>2, <2>3 DEF ShowPrint, StoreLen, Goto, Actors, Kinds, data, CalmInv,
       ReadInv, PrintInv, PlaceInv, Active, Busy, Serves, Served, WorkFiles
  <2>8. QED
    BY <2>4, <2>5, <2>6, <2>7 DEF CalmInv
<1>6. QED
  BY <1>1, <1>2, <1>3, <1>4, <1>5

\* A reader of the tasklet or the timer file sleeps (again).
LEMMA ShowWaitInd ==
  ASSUME JiqInd, NEW r \in Readers, ShowWait(r)
  PROVE  JiqInd'
<1> USE JiqAssumption DEF JiqInd, AlwaysInv, JiqTypeInv
<1>1. JiqTypeInv'
  BY DEF ShowWait, Goto, data, locals, Actors, Kinds
<1>2. StartedInv' /\ PlaceInv'
  BY DEF ShowWait, Goto, data, locals, Actors, Kinds, StartedInv, PlaceInv, WorkFiles
<1>3. GoneInv'
  BY DEF ShowWait, Goto, Actors, Kinds, GoneInv
<1>4. SleeperHasWork'
  BY DEF ShowWait, Goto, Actors, Kinds, SleeperHasWork, Busy, PlaceInv, WorkFiles
<1>5. ASSUME ~disturbed' PROVE CalmInv'
  <2>1. CalmInv
    BY <1>5 DEF ShowWait
  <2>2. /\ pc[r] # "idle" /\ (\A q \in Readers : q # r => pc[q] = "idle")
        /\ (\A k \in Kinds : Active(k) => Serves(k, r))
    BY <2>1, Alone DEF ShowWait
  <2>3. OneAtATime' /\ ~timer_clash'
    BY <1>5, <2>1, <2>2 DEF ShowWait, Goto, Actors, Kinds, OneAtATime, CalmInv
  <2>4. ServesInv'
    BY <1>5, <2>1, <2>2 DEF ShowWait, Goto, Actors, Kinds, CalmInv, ServesInv, Active, Busy,
       Serves, Served, WorkFiles, ReadInv, PlaceInv
  <2>5. PrintInv'
    BY <1>5, <2>1, <2>2 DEF ShowWait, Goto, Actors, Kinds, data, locals, CalmInv, PrintInv,
       ReadInv, Active, Busy, Serves, Served
  <2>6. ReadInv'
    BY <1>5, <2>1, <2>2 DEF ShowWait, Goto, Actors, Kinds, data, CalmInv, ReadInv, PrintInv,
       PlaceInv, Active, Busy, Serves, Served, WorkFiles
  <2>7. QED
    BY <2>3, <2>4, <2>5, <2>6 DEF CalmInv
<1>6. QED
  BY <1>1, <1>2, <1>3, <1>4, <1>5

\* A reader of a work queue file that was woken has no work left.
LEMMA ShowWokenInd ==
  ASSUME JiqInd, NEW r \in Readers, ShowWoken(r)
  PROVE  JiqInd'
<1> USE JiqAssumption DEF JiqInd, AlwaysInv, JiqTypeInv
<1>1. JiqTypeInv'
  BY DEF ShowWoken, Goto, data, locals, Actors, Kinds
<1>2. StartedInv' /\ PlaceInv'
  BY DEF ShowWoken, Goto, data, locals, Actors, Kinds, StartedInv, PlaceInv, WorkFiles
<1>3. GoneInv'
  BY DEF ShowWoken, Goto, Actors, Kinds, GoneInv
<1>4. SleeperHasWork'
  BY DEF ShowWoken, Goto, Actors, Kinds, SleeperHasWork, Busy, PlaceInv, WorkFiles
<1>5. ASSUME ~disturbed' PROVE CalmInv'
  <2>1. CalmInv
    BY <1>5 DEF ShowWoken
  <2>2. /\ pc[r] # "idle" /\ (\A q \in Readers : q # r => pc[q] = "idle")
        /\ (\A k \in Kinds : Active(k) => Serves(k, r))
    BY <2>1, Alone DEF ShowWoken
  <2>3. OneAtATime' /\ ~timer_clash'
    BY <1>5, <2>1, <2>2 DEF ShowWoken, Goto, Actors, Kinds, OneAtATime, CalmInv
  <2>4. ServesInv'
    BY <1>5, <2>1, <2>2 DEF ShowWoken, Goto, Actors, Kinds, CalmInv, ServesInv, Active,
       Busy, Serves, Served, WorkFiles, ReadInv, PlaceInv
  <2>5. PrintInv'
    BY <1>5, <2>1, <2>2 DEF ShowWoken, Goto, Actors, Kinds, data, locals, CalmInv, PrintInv,
       ReadInv, Active, Busy, Serves, Served
  <2>6. ReadInv'
    BY <1>5, <2>1, <2>2 DEF ShowWoken, Goto, Actors, Kinds, data, CalmInv, ReadInv,
       PrintInv, PlaceInv, Active, Busy, Serves, Served, WorkFiles
  <2>7. QED
    BY <2>3, <2>4, <2>5, <2>6 DEF CalmInv
<1>6. QED
  BY <1>1, <1>2, <1>3, <1>4, <1>5

\* A signal sends the reader of the timer file to del_timer_sync; another reader has
\* no work left, or leaves it behind and disturbs jiq_data.
LEMMA ShowSignalInd ==
  ASSUME JiqInd, NEW r \in Readers, ShowSignal(r)
  PROVE  JiqInd'
<1> USE JiqAssumption DEF JiqInd, AlwaysInv, JiqTypeInv
<1>1. JiqTypeInv'
  BY DEF ShowSignal, Goto, data, locals, Actors, Kinds
<1>2. StartedInv' /\ PlaceInv'
  BY DEF ShowSignal, Goto, data, locals, Actors, Kinds, StartedInv, PlaceInv, WorkFiles
<1>3. GoneInv'
  BY DEF ShowSignal, Goto, Actors, Kinds, GoneInv
<1>4. SleeperHasWork'
  BY DEF ShowSignal, Goto, Actors, Kinds, SleeperHasWork, Busy, PlaceInv, WorkFiles
<1>5. ASSUME ~disturbed' PROVE CalmInv'
  <2>1. CalmInv
    BY <1>5 DEF ShowSignal
  <2>2. /\ pc[r] # "idle" /\ (\A q \in Readers : q # r => pc[q] = "idle")
        /\ (\A k \in Kinds : Active(k) => Serves(k, r))
    BY <2>1, Alone DEF ShowSignal
  <2>3. OneAtATime' /\ ~timer_clash'
    BY <1>5, <2>1, <2>2 DEF ShowSignal, Goto, Actors, Kinds, OneAtATime, CalmInv
  <2>4. ServesInv'
    BY <1>5, <2>1, <2>2 DEF ShowSignal, Goto, Actors, Kinds, CalmInv, ServesInv, Active,
       Busy, Serves, Served, WorkFiles, ReadInv, PlaceInv
  <2>5. PrintInv'
    BY <1>5, <2>1, <2>2 DEF ShowSignal, Goto, Actors, Kinds, data, locals, CalmInv,
       PrintInv, ReadInv, Active, Busy, Serves, Served
  <2>6. ReadInv'
    BY <1>5, <2>1, <2>2 DEF ShowSignal, Goto, Actors, Kinds, data, CalmInv, ReadInv,
       PrintInv, PlaceInv, Active, Busy, Serves, Served, WorkFiles
  <2>7. QED
    BY <2>3, <2>4, <2>5, <2>6 DEF CalmInv
<1>6. QED
  BY <1>1, <1>2, <1>3, <1>4, <1>5

\* After del_timer_sync the timer is at rest.
LEMMA ShowDelTimerInd ==
  ASSUME JiqInd, NEW r \in Readers, ShowDelTimer(r)
  PROVE  JiqInd'
<1> USE JiqAssumption DEF JiqInd, AlwaysInv, JiqTypeInv
<1>1. JiqTypeInv'
  BY DEF ShowDelTimer, Goto, data, locals, Actors, Kinds
<1>2. StartedInv' /\ PlaceInv'
  BY DEF ShowDelTimer, Goto, data, locals, Actors, Kinds, StartedInv, PlaceInv, WorkFiles
<1>3. GoneInv'
  BY DEF ShowDelTimer, Goto, Actors, Kinds, GoneInv
<1>4. SleeperHasWork'
  BY DEF ShowDelTimer, Goto, Actors, Kinds, SleeperHasWork, Busy, PlaceInv, WorkFiles
<1>5. ASSUME ~disturbed' PROVE CalmInv'
  <2>1. CalmInv
    BY <1>5 DEF ShowDelTimer
  <2>2. /\ pc[r] # "idle" /\ (\A q \in Readers : q # r => pc[q] = "idle")
        /\ (\A k \in Kinds : Active(k) => Serves(k, r))
    BY <2>1, Alone DEF ShowDelTimer
  <2>3. OneAtATime' /\ ~timer_clash'
    BY <1>5, <2>1, <2>2 DEF ShowDelTimer, Goto, Actors, Kinds, OneAtATime, CalmInv
  <2>4. ServesInv'
    BY <1>5, <2>1, <2>2 DEF ShowDelTimer, Goto, Actors, Kinds, CalmInv, ServesInv, Active,
       Busy, Serves, Served, WorkFiles, ReadInv, PlaceInv
  <2>5. PrintInv'
    BY <1>5, <2>1, <2>2 DEF ShowDelTimer, Goto, Actors, Kinds, data, locals, CalmInv,
       PrintInv, ReadInv, Active, Busy, Serves, Served
  <2>6. ReadInv'
    BY <1>5, <2>1, <2>2 DEF ShowDelTimer, Goto, Actors, Kinds, data, CalmInv, ReadInv,
       PrintInv, PlaceInv, Active, Busy, Serves, Served, WorkFiles
  <2>7. QED
    BY <2>3, <2>4, <2>5, <2>6 DEF CalmInv
<1>6. QED
  BY <1>1, <1>2, <1>3, <1>4, <1>5

\* The timer is in use already only when jiq_data has other users.
LEMMA ShowClashInd ==
  ASSUME JiqInd, NEW r \in Readers, ShowClash(r)
  PROVE  JiqInd'
<1> USE DEF JiqInd, AlwaysInv, JiqTypeInv
<1>1. AlwaysInv'
  BY DEF ShowClash, data, locals, StartedInv, PlaceInv, GoneInv, SleeperHasWork, Busy,
     Actors, Kinds
<1>2. ASSUME ~disturbed PROVE FALSE
  <2>1. Active("timer") /\ pc[r] \in {"look", "schedule"}
    BY DEF ShowClash, TimerInUse, Active, Busy
  <2>2. Serves("timer", r)
    BY <1>2, <2>1, Alone DEF Kinds
  <2>3. QED
    BY <2>1, <2>2 DEF Serves, Served
<1>3. QED
  BY <1>1, <1>2 DEF ShowClash

\* Before the first read nothing is at work.
LEMMA JiqStartInd == JiqStart => JiqInd
<1> SUFFICES ASSUME JiqStart PROVE JiqInd
  OBVIOUS
<1>1. JiqTypeInv
  BY JiqAssumption DEF JiqStart, JiqTypeInv, Kinds, Actors
<1>2. \A a \in Actors : pc[a] = "idle"
  BY DEF JiqStart
<1>3. Readers \subseteq Actors /\ Kinds \subseteq Actors
  BY DEF Actors
<1>4. StartedInv /\ PlaceInv /\ GoneInv /\ SleeperHasWork
  BY <1>2, <1>3 DEF JiqStart, StartedInv, PlaceInv, GoneInv, SleeperHasWork
<1>5. OneAtATime /\ ServesInv /\ PrintInv /\ ReadInv /\ ~timer_clash
  BY <1>2, <1>3 DEF JiqStart, OneAtATime, ServesInv, Active, Busy, PrintInv, ReadInv
<1>6. QED
  BY <1>1, <1>4, <1>5 DEF JiqInd, AlwaysInv, CalmInv

\* The invariant is kept by every step.
LEMMA JiqStep ==
  ASSUME JiqInd, [JiqNext]_jiq_vars
  PROVE  JiqInd'
<1>1. CASE UNCHANGED jiq_vars
  BY <1>1 DEF jiq_vars, data, locals, JiqInd, AlwaysInv, CalmInv, JiqTypeInv, StartedInv,
     PlaceInv, OneAtATime, ServesInv, Active, Busy, Serves, Served, PrintInv, ReadInv,
     GoneInv, SleeperHasWork, Actors, Kinds, WorkFiles
<1>2. CASE Cleanup
  BY <1>2 DEF Cleanup, data, locals, JiqInd, AlwaysInv, CalmInv, JiqTypeInv, StartedInv,
     PlaceInv, OneAtATime, ServesInv, Active, Busy, Serves, Served, PrintInv, ReadInv,
     GoneInv, SleeperHasWork, Actors, Kinds, WorkFiles
<1>3. ASSUME NEW c \in Kinds, Context(c) PROVE JiqInd'
  BY <1>3, RunInd, PrintLineInd, PrintAgainInd, PrintOnceInd, FullInd DEF Context, Actors
<1>4. ASSUME NEW r \in Readers, Reader(r) PROVE JiqInd'
  BY <1>4, ShowSetMInd, ShowPrepareInd, ShowScheduleInd, ShowLookInd, PrintLineInd,
     ShowPrintInd, ShowWaitInd, ShowWokenInd, ShowDelTimerInd, ShowClashInd DEF Reader,
     Actors
<1>5. ASSUME NEW r \in Readers, ~timer_clash, Show(r) \/ ShowSignal(r) PROVE JiqInd'
  BY <1>5, ShowInd, ShowSignalInd
<1>6. QED
  BY <1>1, <1>2, <1>3, <1>4, <1>5 DEF JiqNext

\* The invariant holds whatever the readers and the signals do.
LEMMA JiqInvariance == JiqSpec => []JiqInd
<1>1. JiqInd /\ [JiqNext]_jiq_vars => JiqInd'
  BY JiqStep
<1>2. QED
  BY JiqStartInd, <1>1, PTL DEF JiqSpec

\* However many processes read, overlap and are interrupted: a context prints into
\* the seq_file of a read that is over (jiq_print) only after reads have overlapped or
\* a signal has parted a context that still had lines to print from its reader.
THEOREM PrintsOnlyForReaders == JiqSpec => []PrintsForReader
<1>1. JiqInd => PrintsForReader
  <2> SUFFICES ASSUME JiqInd, NEW c \in Kinds, pc[c] = "print"
               PROVE  my_m[c] # None /\ (pc[my_m[c]] # "idle" \/ disturbed)
    BY DEF PrintsForReader
  <2>1. my_m[c] # None
    BY DEF JiqInd, AlwaysInv, StartedInv, Actors
  <2>2. ASSUME ~disturbed PROVE pc[my_m[c]] # "idle"
    <3>1. PICK r \in Readers : Serves(c, r)
      BY <2>2 DEF JiqInd, CalmInv, ServesInv, Active, Busy
    <3>2. my_m[c] = r
      BY <2>2, <3>1 DEF JiqInd, CalmInv, PrintInv, ReadInv, Serves, Served, Actors
    <3>3. QED
      BY <3>1, <3>2 DEF Serves, Served
  <2>3. QED
    BY <2>1, <2>2
<1>2. QED
  BY JiqInvariance, <1>1, PTL

\* The comparison of jiq_data.len with LIMIT keeps the seq_file of a read that nobody
\* disturbs from overflowing, for every LIMIT that leaves two lines of room.
THEOREM LimitHolds == JiqSpec => []NeverOverflows
<1>1. JiqInd => NeverOverflows
  BY DEF JiqInd, CalmInv, ReadInv, NeverOverflows
<1>2. QED
  BY JiqInvariance, <1>1, PTL

\* jiq_cleanup, which cancels nothing, leaves a work item, a tasklet or a timer behind,
\* and the timer is set up while it is in use, only after reads have overlapped or a
\* signal has parted a context from its reader.
THEOREM CleanupIsQuiet == JiqSpec => []QuietAfterCleanup
<1>1. JiqInd => QuietAfterCleanup
  <2> SUFFICES ASSUME JiqInd, ~disturbed PROVE ~timer_clash /\ (~loaded => \A c \in Kinds : ~Busy(c))
    BY DEF QuietAfterCleanup
  <2>1. QED
    BY DEF JiqInd, AlwaysInv, CalmInv, GoneInv, ServesInv, Active, Serves, Served
<1>2. QED
  BY JiqInvariance, <1>1, PTL

\* No wake-up of a reader of the work queue files is lost, however reads overlap: the
\* safety half of their return.
THEOREM NoLostWakeup == JiqSpec => []SleeperHasWork
<1>1. JiqInd => SleeperHasWork
  BY DEF JiqInd, AlwaysInv
<1>2. QED
  BY JiqInvariance, <1>1, PTL
=============================================================================
