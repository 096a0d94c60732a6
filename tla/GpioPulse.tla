------------------------------ MODULE GpioPulse ------------------------------
(***************************************************************************)
(* linux-device-drivers/14.gpio_pulse/pltdrv_gpiopulse.c: a platform       *)
(* driver that toggles a pin from a timer while its sysfs attribute        *)
(* enablepulse is not zero.                                                *)
(*                                                                         *)
(* probe and remove run one at a time (the driver core holds the device's  *)
(* lock).  The stores of the sysfs attributes and timer_cbk take no lock   *)
(* and run between any two of their steps.  remove stops the timer with    *)
(* del_timer, which waits for nobody; device_unregister waits for the      *)
(* stores in progress and lets no new one in.                              *)
(*                                                                         *)
(* A store that kstrtol refuses changes nothing and is left out, as is     *)
(* label_show.                                                             *)
(***************************************************************************)
EXTENDS Integers

CONSTANTS
  Writers,      \* processes that write the sysfs attributes
  Values,       \* numbers written to enablepulse, each a C long
  Times,        \* numbers written to pulsetime
  IntMod,       \* one more than the largest C int, for the conversion of a long
  MaxStores     \* bound: how many stores are made

ASSUME GpioAssumption ==
  /\ Values \subseteq Nat /\ 0 \in Values
  /\ Times # {}
  /\ IntMod \in Nat \ {0} /\ MaxStores \in Nat

VARIABLES
  phase,       \* where probe or remove is
  drvdata,     \* dev_set_drvdata has made priv_dev known to the stores
  enable,      \* plt_data_prv.enablepulse
  pulsetime,   \* plt_data_prv.pulsetime
  timer,       \* raw memory, idle or armed
  cbk,         \* where timer_cbk is
  level,       \* the pin
  writer,      \* for each writer, where its enablepulse_store is
  stores,      \* how many stores were made
  fault,       \* what went wrong; nothing happens after that
  raced        \* the timer was in use while, or was armed after, remove stopped it

prv == <<enable, pulsetime>>
vars == <<phase, drvdata, enable, pulsetime, timer, cbk, level, writer,
          stores, fault, raced>>

\* The attributes are there from device_create_with_groups to device_unregister,
\* and for ever after a probe that failed in between.
Visible == phase \in {"direction", "timer", "drvdata", "bound", "unregister", "leaked"}

Init ==
  /\ phase = "absent" /\ drvdata = FALSE
  /\ enable = 0 /\ pulsetime \in Times
  /\ timer = "raw" /\ cbk = "idle" /\ level = 0
  /\ writer = [w \in Writers |-> "idle"] /\ stores = 0
  /\ fault = "none" /\ raced = FALSE

-----------------------------------------------------------------------------
(* pltdrv_gpiopulse_probe *)

\* devm_kzalloc and parse_dt_arg_dev; a failure leaves nothing behind.
ProbeParse ==
  /\ phase = "absent"
  /\ phase' = "create"
  /\ enable' \in {v % IntMod : v \in Values}
  /\ pulsetime' \in Times
  /\ UNCHANGED <<drvdata, timer, cbk, level, writer, stores, fault, raced>>

\* device_create_with_groups.
ProbeCreate ==
  /\ phase = "create"
  /\ phase' \in {"direction", "absent"}
  /\ UNCHANGED <<drvdata, prv, timer, cbk, level, writer, stores, fault, raced>>

\* gpiod_direction_output(desc, 1); on failure the created device is not
\* unregistered.
ProbeDirection ==
  /\ phase = "direction"
  /\ \/ phase' = "timer" /\ level' = 1
     \/ phase' = "leaked" /\ UNCHANGED level
  /\ UNCHANGED <<drvdata, prv, timer, cbk, writer, stores, fault, raced>>

\* timer_setup and mod_timer, whatever enablepulse says.
ProbeTimer ==
  /\ phase = "timer"
  /\ phase' = "drvdata"
  /\ timer' = "armed"
  /\ UNCHANGED <<drvdata, enable, pulsetime, cbk, level, writer, stores, fault, raced>>

ProbeDrvdata ==
  /\ phase = "drvdata"
  /\ phase' = "bound"
  /\ drvdata' = TRUE
  /\ UNCHANGED <<prv, timer, cbk, level, writer, stores, fault, raced>>

-----------------------------------------------------------------------------
(* pltdrv_gpiopulse_remove *)

\* Mutant: remove leaves the timer to itself.
RemoveNoDelTimer ==
  /\ phase = "bound"
  /\ phase' = "unregister"
  /\ raced' = FALSE
  /\ UNCHANGED <<drvdata, prv, timer, cbk, level, writer, stores, fault>>

RemoveDelTimer ==
  /\ phase = "bound"
  /\ phase' = "unregister"
  /\ timer' = "idle"
  /\ raced' = (cbk # "idle")
  /\ UNCHANGED <<drvdata, prv, cbk, level, writer, stores, fault>>

\* device_unregister waits for the stores in progress.
RemoveUnregister ==
  /\ phase = "unregister"
  /\ \A w \in Writers : writer[w] = "idle"
  /\ phase' = "free"
  /\ UNCHANGED <<drvdata, prv, timer, cbk, level, writer, stores, fault, raced>>

\* The driver core frees priv_dev, the timer in it included.
Free ==
  /\ phase = "free"
  /\ phase' = "absent"
  /\ drvdata' = FALSE
  /\ timer' = "raw"
  /\ fault' = IF timer = "armed" \/ cbk # "idle" THEN "freed_timer" ELSE fault
  /\ UNCHANGED <<prv, cbk, level, writer, stores, raced>>

-----------------------------------------------------------------------------
(* The sysfs stores *)

\* dev_get_drvdata gives NULL before probe has set it.
StoreTooEarly ==
  /\ Visible /\ ~drvdata
  /\ fault' = "null_drvdata"
  /\ UNCHANGED <<phase, drvdata, prv, timer, cbk, level, writer, stores, raced>>

\* enablepulse_store: the long is stored as an int, and tested as a long.
StoreEnable(w, v) ==
  /\ Visible /\ drvdata
  /\ writer[w] = "idle" /\ stores < MaxStores
  /\ stores' = stores + 1
  /\ enable' = v % IntMod
  /\ writer' = [writer EXCEPT ![w] = IF v # 0 THEN "arm" ELSE "idle"]
  /\ UNCHANGED <<phase, drvdata, pulsetime, timer, cbk, level, fault, raced>>

\* Its mod_timer.
StoreArm(w) ==
  /\ writer[w] = "arm"
  /\ writer' = [writer EXCEPT ![w] = "idle"]
  /\ timer' = "armed"
  /\ raced' = (raced \/ phase = "unregister")
  /\ UNCHANGED <<phase, drvdata, enable, pulsetime, cbk, level, stores, fault>>

\* pulsetime_store: it decides when a timer armed later expires, which may be
\* at any time here.
StoreTime(t) ==
  /\ Visible /\ drvdata
  /\ stores < MaxStores
  /\ stores' = stores + 1
  /\ pulsetime' = t
  /\ UNCHANGED <<phase, drvdata, enable, timer, cbk, level, writer, fault, raced>>

-----------------------------------------------------------------------------
(* timer_cbk *)

Fire ==
  /\ timer = "armed" /\ cbk = "idle"
  /\ timer' = "idle"
  /\ cbk' = "toggle"
  /\ UNCHANGED <<phase, drvdata, prv, level, writer, stores, fault, raced>>

Toggle ==
  /\ cbk = "toggle"
  /\ level' = 1 - level
  /\ cbk' = "test"
  /\ UNCHANGED <<phase, drvdata, prv, timer, writer, stores, fault, raced>>

\* Mutant: the timer always runs on.
TestAlways ==
  /\ cbk = "test"
  /\ cbk' = "rearm"
  /\ UNCHANGED <<phase, drvdata, prv, timer, level, writer, stores, fault, raced>>

\* Mutant: only enablepulse = 1 means enabled.
TestEqualsOne ==
  /\ cbk = "test"
  /\ cbk' = IF enable = 1 THEN "rearm" ELSE "idle"
  /\ UNCHANGED <<phase, drvdata, prv, timer, level, writer, stores, fault, raced>>

\* The test of enablepulse.
Test ==
  /\ cbk = "test"
  /\ cbk' = IF enable # 0 THEN "rearm" ELSE "idle"
  /\ UNCHANGED <<phase, drvdata, prv, timer, level, writer, stores, fault, raced>>

\* Its mod_timer.
Rearm ==
  /\ cbk = "rearm"
  /\ cbk' = "idle"
  /\ timer' = "armed"
  /\ UNCHANGED <<phase, drvdata, enable, pulsetime, level, writer, stores, fault, raced>>

-----------------------------------------------------------------------------
Core ==
  \/ ProbeParse \/ ProbeCreate \/ ProbeDirection \/ ProbeTimer \/ ProbeDrvdata
  \/ RemoveDelTimer \/ RemoveUnregister \/ Free

Store ==
  \/ StoreTooEarly
  \/ \E w \in Writers, v \in Values : StoreEnable(w, v)
  \/ \E w \in Writers : StoreArm(w)
  \/ \E t \in Times : StoreTime(t)

Callback == Fire \/ Toggle \/ Test \/ Rearm

Next == fault = "none" /\ (Core \/ Store \/ Callback)

Spec == Init /\ [][Next]_vars

\* A timer expires once the stores have stopped arming it anew (MaxStores),
\* its handler and a store that has begun go on.
Fairness ==
  /\ WF_vars(fault = "none" /\ Callback)
  /\ \A w \in Writers : WF_vars(fault = "none" /\ StoreArm(w))

-----------------------------------------------------------------------------
(* Properties *)

\* A bound device whose enablepulse is not zero is pulsing, or a store is
\* about to start it: whatever stores of zero and non-zero values cross each
\* other and the handler's test, none of them switches the pulse off while
\* the attribute says on.
PulsesWhileEnabled ==
  phase = "bound" /\ fault = "none" /\ enable # 0
    => timer = "armed" \/ cbk # "idle" \/ \E w \in Writers : writer[w] = "arm"

\* remove frees a timer that still runs only after a race: timer_cbk ran when
\* del_timer returned, or a store armed the timer between del_timer and
\* device_unregister.
FreedTimerNeedsRace == fault = "freed_timer" => raced

\* A pin that is disabled comes to rest, even when the number that was stored
\* is zero only as an int and the store has armed the timer.
DisabledComesToRest ==
  (phase = "bound" /\ enable = 0)
    ~> ((timer = "idle" /\ cbk = "idle") \/ enable # 0 \/ phase # "bound" \/ fault # "none")
=============================================================================
