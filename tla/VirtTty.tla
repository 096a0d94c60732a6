------------------------------- MODULE VirtTty -------------------------------
(***************************************************************************)
(* linux-device-drivers/16.virt_tty/virt_tty.c: a virtual serial port      *)
(* whose timer pushes a greeting to the reader while the port is open.     *)
(*                                                                         *)
(* The tty core calls virttty_open and virttty_close one at a time (and    *)
(* they hold dev->mutex); timer_cbk takes no lock, so it runs between any  *)
(* two of their steps.  do_close stops the timer with del_timer, which     *)
(* neither waits for a running timer_cbk nor keeps it from arming the      *)
(* timer again.  write, write_room, set_termios, tiocmget and tiocmset     *)
(* change nothing and are left out.                                        *)
(*                                                                         *)
(* A step that uses memory that is not (or no longer) there records it in  *)
(* tty_fault, and nothing happens after that.                              *)
(***************************************************************************)
EXTENDS Integers

CONSTANT MaxOpens     \* bound: how many files may be open at once

ASSUME OpensAssumption == MaxOpens \in Nat \ {0}

VARIABLES
  module,      \* where virttty_init and virttty_exit are
  virt_tty_prv,         \* virt_tty_prv: null, raw (kmalloc'ed), ready, freed
  open_count,  \* dev->open_count
  tty,         \* dev->tty: none yet, live or freed by the tty core
  tty_timer,       \* dev->timer: raw memory, idle or armed
  tty_cbk,         \* where timer_cbk is
  op,          \* where the open or the close in progress is
  files,       \* how many files are open, for the tty core
  tty_fault,       \* what went wrong
  overlap      \* del_timer has returned while timer_cbk was running

tty_vars == <<module, virt_tty_prv, open_count, tty, tty_timer, tty_cbk, op, files, tty_fault, overlap>>

TtyInit ==
  /\ module = "register" /\ virt_tty_prv = "null"
  /\ open_count = 0 /\ files = 0
  /\ tty = "none" /\ tty_timer = "raw" /\ tty_cbk = "idle" /\ op = "none"
  /\ tty_fault = "none" /\ overlap = FALSE

Fault(f) ==
  /\ tty_fault' = f
  /\ UNCHANGED <<module, virt_tty_prv, open_count, tty, tty_timer, tty_cbk, op, files, overlap>>

\* del_timer.
DelTimer ==
  /\ tty_timer' = "idle"
  /\ overlap' = (overlap \/ tty_cbk # "idle")

-----------------------------------------------------------------------------
(* virttty_init *)

\* tty_register_driver and tty_register_device: the port can be opened.
Register ==
  /\ module = "register"
  /\ \/ module' = "alloc"
     \/ module' = "failed"
  /\ UNCHANGED <<virt_tty_prv, open_count, tty, tty_timer, tty_cbk, op, files, tty_fault, overlap>>

Alloc ==
  /\ module = "alloc"
  /\ \/ module' = "setup" /\ virt_tty_prv' = "raw"
     \/ module' = "failed" /\ UNCHANGED virt_tty_prv
  /\ UNCHANGED <<open_count, tty, tty_timer, tty_cbk, op, files, tty_fault, overlap>>

\* mutex_init and open_count = 0.
Setup ==
  /\ module = "setup"
  /\ module' = "live"
  /\ virt_tty_prv' = "ready"
  /\ open_count' = 0
  /\ UNCHANGED <<tty, tty_timer, tty_cbk, op, files, tty_fault, overlap>>

-----------------------------------------------------------------------------
(* The tty operations *)

\* Between Register and Setup the port is there and virt_tty_prv is not.
OpenTooEarly ==
  /\ module \in {"alloc", "setup"}
  /\ Fault(IF virt_tty_prv = "null" THEN "null_prv" ELSE "raw_prv")

\* tty, open_count++ (the timer is only touched by the first open).
Open ==
  /\ module = "live" /\ op = "none"
  /\ files < MaxOpens
  /\ files' = files + 1
  /\ open_count' = open_count + 1
  /\ tty' = "live"
  /\ op' = IF open_count = 0 THEN "open_timer" ELSE "none"
  /\ UNCHANGED <<module, virt_tty_prv, tty_timer, tty_cbk, tty_fault, overlap>>

\* timer_setup and mod_timer.  timer_setup of a timer that is still armed
\* cuts it out of the kernel's list of timers.
OpenTimer ==
  /\ op = "open_timer"
  /\ op' = "none"
  /\ tty_timer' = "armed"
  /\ tty_fault' = IF tty_timer = "armed" THEN "timer_reinit" ELSE tty_fault
  /\ UNCHANGED <<module, virt_tty_prv, open_count, tty, tty_cbk, files, overlap>>

\* Mutant: every close stops the timer.
CloseStops ==
  /\ module = "live" /\ op = "none"
  /\ files > 0
  /\ open_count' = open_count - 1
  /\ op' = "close_timer"
  /\ UNCHANGED <<module, virt_tty_prv, tty, tty_timer, tty_cbk, files, tty_fault, overlap>>

\* Mutant: nobody stops the timer.
CloseNeverStops ==
  /\ module = "live" /\ op = "none"
  /\ files > 0
  /\ open_count' = open_count - 1
  /\ op' = "close_tty"
  /\ UNCHANGED <<module, virt_tty_prv, tty, tty_timer, tty_cbk, files, tty_fault, overlap>>

\* virttty_close and do_close up to the test of the decremented count.
Close ==
  /\ module = "live" /\ op = "none"
  /\ files > 0
  /\ open_count' = IF open_count = 0 THEN 0 ELSE open_count - 1
  /\ op' = IF open_count = 1 THEN "close_timer" ELSE "close_tty"
  /\ UNCHANGED <<module, virt_tty_prv, tty, tty_timer, tty_cbk, files, tty_fault, overlap>>

CloseTimer ==
  /\ op = "close_timer"
  /\ DelTimer
  /\ op' = "close_tty"
  /\ UNCHANGED <<module, virt_tty_prv, open_count, tty, tty_cbk, files, tty_fault>>

\* The tty core ends the close.  After the last one it frees the tty_struct,
\* and dev->tty keeps pointing to it.
CloseTty ==
  /\ op = "close_tty"
  /\ op' = "none"
  /\ files' = files - 1
  /\ tty' = IF files = 1 THEN "freed" ELSE tty
  /\ UNCHANGED <<module, virt_tty_prv, open_count, tty_timer, tty_cbk, tty_fault, overlap>>

-----------------------------------------------------------------------------
(* timer_cbk *)

TtyFire ==
  /\ tty_timer = "armed"
  /\ tty_cbk = "idle"
  /\ tty_timer' = "idle"
  /\ tty_cbk' = "insert"
  /\ UNCHANGED <<module, virt_tty_prv, open_count, tty, op, files, tty_fault, overlap>>

\* A use of dev->tty->port at from, after which timer_cbk goes on at to.
UsePort(from, to) ==
  /\ tty_cbk = from
  /\ IF virt_tty_prv = "freed" \/ tty = "freed"
     THEN Fault(IF virt_tty_prv = "freed" THEN "freed_prv" ELSE "freed_tty")
     ELSE /\ tty_cbk' = to
          /\ UNCHANGED <<module, virt_tty_prv, open_count, tty, tty_timer, op, files, tty_fault, overlap>>

\* tty_insert_flip_string and tty_flip_buffer_push.
Insert == UsePort("insert", "push")
Push == UsePort("push", "rearm")

\* mod_timer, whatever happened to the port in the meantime.
TtyRearm ==
  /\ tty_cbk = "rearm"
  /\ IF virt_tty_prv = "freed"
     THEN Fault("freed_prv")
     ELSE /\ tty_timer' = "armed"
          /\ tty_cbk' = "idle"
          /\ UNCHANGED <<module, virt_tty_prv, open_count, tty, op, files, tty_fault, overlap>>

-----------------------------------------------------------------------------
(* virttty_exit *)

\* The module cannot go while a file is open.
ExitUnregister ==
  /\ module = "live" /\ op = "none"
  /\ files = 0
  /\ module' = "exit_timer"
  /\ UNCHANGED <<virt_tty_prv, open_count, tty, tty_timer, tty_cbk, op, files, tty_fault, overlap>>

\* The loop of do_close calls, then del_timer: on a port that was never opened
\* it looks at memory timer_setup never initialised, which may do harm or not.
ExitDelTimer ==
  /\ module = "exit_timer"
  /\ module' = "exit_free"
  /\ open_count' = 0
  /\ DelTimer
  /\ \/ tty_timer = "raw" /\ tty_fault' = "raw_timer"
     \/ UNCHANGED tty_fault
  /\ UNCHANGED <<virt_tty_prv, tty, tty_cbk, op, files>>

ExitFree ==
  /\ module = "exit_free"
  /\ module' = "gone"
  /\ virt_tty_prv' = "freed"
  /\ UNCHANGED <<open_count, tty, tty_timer, tty_cbk, op, files, tty_fault, overlap>>

TtyCallback == TtyFire \/ Insert \/ Push \/ TtyRearm

TtyNext ==
  /\ tty_fault = "none"
  /\ \/ Register \/ Alloc \/ Setup
     \/ OpenTooEarly \/ Open \/ OpenTimer \/ Close \/ CloseTimer \/ CloseTty
     \/ TtyCallback
     \/ ExitUnregister \/ ExitDelTimer \/ ExitFree

TtySpec == TtyInit /\ [][TtyNext]_tty_vars

-----------------------------------------------------------------------------
(* Properties *)

\* As long as the port is open the greeting is on its way: no sequence of
\* opens, closes and timer runs leaves an open port without it.
TimerWhileOpen ==
  tty_fault = "none" /\ open_count > 0 /\ op # "open_timer"
    => tty_timer = "armed" \/ tty_cbk # "idle"

\* A timer that is set up again while it is armed, that fires for a port
\* whose tty is gone or for a device that was freed, has got there in one way
\* only: a del_timer that overlapped a running timer_cbk.
FaultsNeedOverlap ==
  tty_fault \in {"freed_prv", "freed_tty", "timer_reinit"} => overlap
=============================================================================
