------------------------------ MODULE MCUnload ------------------------------
(* Three drivers that are removed under work in progress: GpioPulse and VirtTty,
   which stop a timer of their own with del_timer, and Ramdisk, which waits for
   its requests.  They share nothing: each works while the others are at rest. *)
EXTENDS GpioPulse, VirtTty, Ramdisk

\* Requests of one and of two segments.
CutOrWhole == {<<1>>, <<2, 3>>}

PulseRests == Init /\ pulsetime = 5

MCInit == Init /\ TtyInit /\ RamdiskStart
MCNext ==
  \/ TtyInit /\ RamdiskStart /\ Next /\ UNCHANGED <<tty_vars, ramdisk_vars>>
  \/ PulseRests /\ RamdiskStart /\ TtyNext /\ UNCHANGED <<vars, ramdisk_vars>>
  \/ PulseRests /\ TtyInit /\ RamdiskNext /\ UNCHANGED <<vars, tty_vars>>
MCSpec == MCInit /\ [][MCNext]_<<vars, tty_vars, ramdisk_vars>> /\ Fairness /\ RamdiskFairness
=============================================================================
