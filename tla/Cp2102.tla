-------------------------------- MODULE Cp2102 --------------------------------
(***************************************************************************)
(* linux-device-drivers/18.usb-ttl-cp2102: the USB serial driver           *)
(* (usb_ttl_cp2102.c) over its request functions (cp2102if.c), with the    *)
(* chip as the requests see it.  A value on the wire is the set of its     *)
(* bits that are on.                                                       *)
(*                                                                         *)
(* The tty core calls open and close one at a time; set_termios runs under *)
(* termios_rwsem, tiocmset and tiocmget beside it and beside each other.   *)
(* The last close of the file comes after all its operations.  A hangup    *)
(* calls close too: it waits for set_termios, which has a reference to the *)
(* line discipline, and for neither tiocmset nor tiocmget, which end later *)
(* or even after the next open.  The mutex is never passed to mutex_init:  *)
(* it works until somebody has to wait for it.  prv_dev->mcr and           *)
(* prv_dev->msr are written and never read, and are left out.              *)
(***************************************************************************)
EXTENDS Integers

CONSTANTS
  Procs,        \* the processes that use the open port
  None,
  Bauds,        \* the speeds they ask for, 0 (hang up) possibly among them
  Parities,     \* the parities they ask for
  Requests,     \* the lines they ask to set and to clear in one call
  Garbage       \* what an uninitialised u16 on the stack may hold

DEFAULT_BAUD_RATE == 9600
STOP_1_MASK == {}
DATA_8_MASK == {11}
MCR_DTR == 0
MCR_RTS == 1
MCR_DTR_MASK == 8
MCR_RTS_MASK == 9

ParityMask == [none |-> {}, odd |-> {4}, even |-> {5}]
Lines == {"DTR", "RTS"}

ASSUME CpAssumption ==
  /\ Bauds \subseteq Nat
  /\ Parities \subseteq DOMAIN ParityMask
  /\ Requests \subseteq [set : SUBSET Lines, clear : SUBSET Lines]
  /\ Garbage # {} /\ \A g \in Garbage : g \subseteq 0..15
  /\ None \notin Procs \cup Requests

VARIABLES
  port,         \* where open or close is
  chip,         \* the chip: interface, speed, line control, modem lines
  tty_baud, tty_parity,  \* tty->termios
  mutex,        \* its owner
  pc, arg,      \* where each process is, and the arguments of its call
  hung,         \* the processes in a call that a hangup has overtaken
  enable_failed,\* the enable request of the last open reported an error
  early,        \* a command has reached the chip before its interface was enabled
  synced,       \* the last speed was sent and acknowledged
  want,         \* each line as the handshakes that arrived were asked to leave it
  fault         \* somebody had to wait for the mutex; nothing happens after

tty == <<tty_baud, tty_parity>>
flags == <<enable_failed, early, synced, want, fault>>
cp_vars == <<port, chip, tty, mutex, pc, arg, hung, flags>>

Goto(p, l) == pc' = [pc EXCEPT ![p] = l]

CpInit ==
  /\ port = "closed"
  /\ chip = [iface |-> FALSE, baud |-> DEFAULT_BAUD_RATE, lctrl |-> {}, DTR |-> FALSE, RTS |-> FALSE]
  /\ tty_baud = DEFAULT_BAUD_RATE /\ tty_parity \in Parities
  /\ mutex = None
  /\ pc = [p \in Procs |-> "idle"]
  /\ arg = [p \in Procs |-> None]
  /\ hung = {}
  /\ enable_failed = FALSE /\ early = FALSE
  /\ synced = FALSE
  /\ want = [l \in Lines |-> chip[l]] /\ fault = FALSE

\* usb_control_msg_send: the chip takes the request and the host learns of it,
\* or the host sees an error, and then the chip may have taken it or not.
Outcomes == {[taken |-> TRUE, status |-> 0], [taken |-> TRUE, status |-> -1],
             [taken |-> FALSE, status |-> -1]}

\* A command other than the enabling one has reached the chip.
Arrives(o) == early' = (early \/ (o.taken /\ ~chip.iface))

-----------------------------------------------------------------------------
(* serial_cp2102_open and serial_cp2102_close *)

\* Mutant: open does not enable the interface.
OpenOnly ==
  /\ port = "closed"
  /\ enable_failed' = FALSE
  /\ port' = "generic_open"
  /\ UNCHANGED <<chip, tty, mutex, pc, arg, hung, early, synced, want, fault>>

\* The result of cp2102_enableif is overwritten by the next call's.
OpenEnable ==
  /\ port = "closed"
  /\ \E o \in Outcomes :
       /\ chip' = [chip EXCEPT !.iface = @ \/ o.taken]
       /\ enable_failed' = (o.status # 0)
  /\ port' = "generic_open"
  /\ UNCHANGED <<tty, mutex, pc, arg, hung, early, synced, want, fault>>

\* usb_serial_generic_open.
OpenGeneric ==
  /\ port = "generic_open"
  /\ port' \in {"open", "disable"}
  /\ UNCHANGED <<chip, tty, mutex, pc, arg, hung, flags>>

\* The last close: usb_serial_generic_close.  No operation of the open file
\* is in progress.
Close ==
  /\ port = "open"
  /\ \A p \in Procs \ hung : pc[p] = "idle"
  /\ port' = "disable"
  /\ UNCHANGED <<chip, tty, mutex, pc, arg, hung, flags>>

\* p is in serial_cp2102_set_termios.
InTermios(p) == pc[p] \in {"t_lock", "t_baud", "t_lctrl"} \/ (pc[p] = "unlock" /\ arg[p] = None)

\* A hangup closes the port as well, beside all operations but set_termios.
Hangup ==
  /\ port = "open"
  /\ \A p \in Procs : ~InTermios(p)
  /\ hung' = {p \in Procs : pc[p] # "idle"}
  /\ port' = "disable"
  /\ UNCHANGED <<chip, tty, mutex, pc, arg, flags>>

\* cp2102_disableif, at the end of close and of a failed open.  What
\* set_termios has told the chip is not known to be there at the next open.
DisableIf ==
  /\ port = "disable"
  /\ \E o \in Outcomes : chip' = [chip EXCEPT !.iface = @ /\ ~o.taken]
  /\ port' = "closed"
  /\ synced' = FALSE
  /\ UNCHANGED <<tty, mutex, pc, arg, hung, enable_failed, early, want, fault>>

-----------------------------------------------------------------------------
(* The mutex *)

MutexLock(p, from, to) ==
  /\ pc[p] = from
  /\ \/ mutex = None /\ mutex' = p /\ Goto(p, to) /\ UNCHANGED fault
     \/ mutex # None /\ fault' = TRUE /\ UNCHANGED <<mutex, pc>>
  /\ UNCHANGED <<port, chip, tty, arg, hung, enable_failed, early, synced, want>>

MutexUnlock(p) ==
  /\ pc[p] = "unlock"
  /\ mutex' = None
  /\ Goto(p, "idle")
  /\ arg' = [arg EXCEPT ![p] = None]
  /\ hung' = hung \ {p}
  /\ UNCHANGED <<port, chip, tty, flags>>

-----------------------------------------------------------------------------
(* serial_cp2102_set_termios *)

\* Mutant: a change of speed alone is no change.
SetTermiosParityOnly(p) ==
  /\ port = "open" /\ pc[p] = "idle"
  /\ \A q \in Procs : ~InTermios(q)
  /\ \E b \in Bauds, y \in Parities :
       /\ tty_baud' = b /\ tty_parity' = y
       /\ Goto(p, IF y # tty_parity THEN "t_lock" ELSE "idle")
  /\ UNCHANGED <<port, chip, mutex, arg, hung, flags>>

\* The tty core stores the new termios and calls the driver, which returns if
\* nothing has changed.
SetTermios(p) ==
  /\ port = "open" /\ pc[p] = "idle"
  /\ \A q \in Procs : ~InTermios(q)
  /\ \E b \in Bauds, y \in Parities :
       /\ <<b, y>> # tty
       /\ tty_baud' = b /\ tty_parity' = y
  /\ Goto(p, "t_lock")
  /\ UNCHANGED <<port, chip, mutex, arg, hung, flags>>

TermiosLock(p) == MutexLock(p, "t_lock", "t_baud")

\* cp2102_set_baud and tty_encode_baud_rate.
SetBaud(p) ==
  /\ pc[p] = "t_baud"
  /\ \/ /\ tty_baud > 0
        /\ \E o \in Outcomes :
             /\ chip' = [chip EXCEPT !.baud = IF o.taken THEN tty_baud ELSE @]
             /\ Arrives(o)
             /\ synced' = (o.status = 0)
             /\ tty_baud' = IF o.status = 0 THEN tty_baud ELSE DEFAULT_BAUD_RATE
     \/ /\ tty_baud = 0
        /\ UNCHANGED <<chip, early, synced, tty_baud>>
  /\ Goto(p, "t_lctrl")
  /\ UNCHANGED <<port, tty_parity, mutex, arg, hung, enable_failed, want, fault>>

\* lctrl is or-ed into, and never set before.
LineControl(g) == g \cup ParityMask[tty_parity] \cup STOP_1_MASK \cup DATA_8_MASK

\* cp2102_set_lctrl; its result is ignored.
SetLctrl(p) ==
  /\ pc[p] = "t_lctrl"
  /\ \E g \in Garbage, o \in Outcomes :
       /\ chip' = [chip EXCEPT !.lctrl = IF o.taken THEN LineControl(g) ELSE @]
       /\ Arrives(o)
  /\ Goto(p, "unlock")
  /\ UNCHANGED <<port, tty, mutex, arg, hung, enable_failed, synced, want, fault>>

-----------------------------------------------------------------------------
(* serial_cp2102_tiocmset and serial_cp2102_tiocmget *)

TiocmSet(p) ==
  /\ port = "open" /\ pc[p] = "idle"
  /\ \E a \in Requests : arg' = [arg EXCEPT ![p] = a]
  /\ Goto(p, "m_lock")
  /\ UNCHANGED <<port, chip, tty, mutex, hung, flags>>

TiocmLock(p) == MutexLock(p, "m_lock", "m_send")

\* The four tests of lines 172 to 187, in their order.  mcr is not set before.
Handshake(g, set, clear) ==
  LET m1 == IF "RTS" \in set THEN g \cup {MCR_RTS, MCR_RTS_MASK} ELSE g
      m2 == IF "DTR" \in set THEN m1 \cup {MCR_RTS, MCR_DTR_MASK} ELSE m1
      m3 == IF "RTS" \in clear THEN (m2 \ {MCR_RTS}) \cup {MCR_RTS_MASK} ELSE m2
  IN  IF "DTR" \in clear THEN (m3 \ {MCR_DTR}) \cup {MCR_DTR_MASK} ELSE m3

\* The chip changes the lines whose mask is set.
Handshaken(val) ==
  [chip EXCEPT !.DTR = IF MCR_DTR_MASK \in val THEN MCR_DTR \in val ELSE @,
               !.RTS = IF MCR_RTS_MASK \in val THEN MCR_RTS \in val ELSE @]

\* cp2102_set_mdmhndshk.
SetMdmhndshk(p) ==
  /\ pc[p] = "m_send"
  /\ \E g \in Garbage, o \in Outcomes :
       LET set == arg[p].set
           clear == arg[p].clear
           val == Handshake(g, set, clear)
       IN /\ chip' = IF o.taken THEN Handshaken(val) ELSE chip
          /\ want' = IF ~o.taken THEN want
                     ELSE [l \in Lines |-> l \notin clear /\ (l \in set \/ want[l])]
          /\ Arrives(o)
  /\ Goto(p, "unlock")
  /\ UNCHANGED <<port, tty, mutex, arg, hung, enable_failed, synced, fault>>

TiocmGet(p) ==
  /\ port = "open" /\ pc[p] = "idle"
  /\ Goto(p, "g_recv")
  /\ UNCHANGED <<port, chip, tty, mutex, arg, hung, flags>>

\* cp2102_get_mdmstat, with no lock.
GetMdmstat(p) ==
  /\ pc[p] = "g_recv"
  /\ \E o \in Outcomes : Arrives(o)
  /\ Goto(p, "idle")
  /\ hung' = hung \ {p}
  /\ UNCHANGED <<port, chip, tty, mutex, arg, enable_failed, synced, want, fault>>

-----------------------------------------------------------------------------
Step(p) ==
  \/ TermiosLock(p) \/ SetBaud(p) \/ SetLctrl(p)
  \/ TiocmLock(p) \/ SetMdmhndshk(p) \/ MutexUnlock(p) \/ GetMdmstat(p)

CpNext ==
  /\ ~fault
  /\ \/ OpenEnable \/ OpenGeneric \/ Close \/ Hangup \/ DisableIf
     \/ \E p \in Procs : SetTermios(p) \/ TiocmSet(p) \/ TiocmGet(p) \/ Step(p)

CpSpec == CpInit /\ [][CpNext]_cp_vars

-----------------------------------------------------------------------------
(* Properties *)

\* While the last speed was acknowledged, what termios reports is what the
\* chip does, unless a change is on its way or the line is hung up.
BaudInStep ==
  synced /\ tty_baud # 0 /\ (\A p \in Procs : pc[p] \notin {"t_lock", "t_baud"})
    => tty_baud = chip.baud

\* The step is one of a call that a hangup has overtaken, with the port closed.
Overtaken == port = "closed" /\ \E p \in hung : pc'[p] # pc[p]

\* A command reaches an interface that is not enabled only if enabling it has
\* failed, or if it belongs to a call that a hangup has overtaken and the port
\* has been closed meanwhile: no other order of operations does it.
EarlyNeedsFailedEnable ==
  [][early' /\ ~early => enable_failed \/ Overtaken]_cp_vars

\* As long as the chip was enabled for every command, each line is as the last
\* handshake that named it and reached the chip asked, and a line that no
\* request has named is not moved.  This is what the comment of
\* lines 161 to 168 says of the bits, and the code does not keep it: line 177
\* sets the bit of RTS for DTR, and the masks of the uninitialised mcr may be set.
LinesAsAsked == ~early => \A l \in Lines : chip[l] = want[l]
=============================================================================
