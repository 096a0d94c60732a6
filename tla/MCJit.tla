-------------------------------- MODULE MCJit --------------------------------
(* The two groups of files of jit.c: those that delay their reader, and those
   that are filled by a timer or a tasklet.  They share nothing: readers of the
   one are at work while the other is at rest. *)
EXTENDS JitAsync, JitDelay

CONSTANTS r1, r2, a, b, c

MCInit == Init /\ DelayInit
MCNext ==
  \/ DelayInit /\ jiffies = 0 /\ Next /\ UNCHANGED delay_vars
  \/ Init /\ DelayNext /\ UNCHANGED vars
MCSpec == MCInit /\ [][MCNext]_<<vars, delay_vars>> /\ Fairness
=============================================================================
