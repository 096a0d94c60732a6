----------------------------- MODULE Bus_proofs -----------------------------
(***************************************************************************)
(* Proofs about the two drivers that talk to a chip by transfers that may  *)
(* fail: Cp2102 over USB and Ds1307 over I2C.                              *)
(***************************************************************************)
EXTENDS Cp2102, Ds1307, TLAPS

-----------------------------------------------------------------------------
(* Cp2102 *)

OpenPorts == {"generic_open", "open", "disable"}
CallSteps == {"t_lock", "t_baud", "t_lctrl", "m_lock", "m_send", "g_recv", "unlock"}

CpTypeInv ==
  /\ port \in {"closed"} \cup OpenPorts
  /\ chip \in [iface : BOOLEAN, baud : Nat, lctrl : SUBSET Int, DTR : BOOLEAN, RTS : BOOLEAN]
  /\ tty_baud \in Nat /\ tty_parity \in Parities
  /\ pc \in [Procs -> {"idle"} \cup CallSteps]
  /\ arg \in [Procs -> Requests \cup {None}]
  /\ hung \subseteq Procs

\* A process at work on the port has it open, or was overtaken by a hangup, which
\* none is in set_termios; one at work on a handshake has its request.
CallInv ==
  \A p \in Procs :
    /\ pc[p] # "idle" => port = "open" \/ p \in hung
    /\ InTermios(p) => p \notin hung
    /\ pc[p] \in {"m_lock", "m_send"} => arg[p] \in Requests
    /\ pc[p] \in {"idle", "t_lock", "t_baud", "t_lctrl", "g_recv"} => arg[p] = None
    /\ p \in hung => pc[p] # "idle"

\* Between open and close the interface is enabled, or enabling it has failed.
EnabledInv == port \in OpenPorts => chip.iface \/ enable_failed

CpInd == CpTypeInv /\ CallInv /\ EnabledInv /\ BaudInStep

\* The invariant holds before the first open.
LEMMA CpInitInd == CpInit => CpInd
BY CpAssumption DEF CpInit, CpInd, CpTypeInv, CallInv, EnabledInv, BaudInStep, InTermios,
   OpenPorts, DEFAULT_BAUD_RATE

\* A bit, or what was there before, is a Boolean.
LEMMA BitOrBefore ==
  ASSUME NEW i, NEW a, NEW v, NEW b \in BOOLEAN
  PROVE  (IF i \in v THEN a \in v ELSE b) \in BOOLEAN
<1>1. (a \in v) \in BOOLEAN
  BY SMT
<1>2. CASE i \in v
  BY <1>1, <1>2, Zenon
<1>3. CASE i \notin v
  <2>1. (IF i \in v THEN a \in v ELSE b) = b
    BY <1>3, Zenon
  <2>2. QED
    BY <2>1, Zenon
<1>4. QED
  BY <1>2, <1>3

\* A request whose result is zero has reached the chip.
LEMMA OutcomeFacts == \A o \in Outcomes : o.taken \in BOOLEAN /\ (o.status = 0 => o.taken)
<1> SUFFICES ASSUME NEW o \in Outcomes PROVE o.taken \in BOOLEAN /\ (o.status = 0 => o.taken)
  OBVIOUS
<1>1. CASE o = [taken |-> TRUE, status |-> 0] \/ o = [taken |-> TRUE, status |-> -1]
  <2>1. o.taken = TRUE
    BY <1>1
  <2>2. QED
    BY <2>1, Zenon
<1>2. CASE o = [taken |-> FALSE, status |-> -1]
  <2>1. o.taken = FALSE /\ o.status # 0
    BY <1>2
  <2>2. QED
    BY <2>1, Zenon
<1>3. QED
  BY <1>1, <1>2 DEF Outcomes

\* Opening and closing keep the invariant.
LEMMA PortStep ==
  ASSUME CpInd, OpenEnable \/ OpenGeneric \/ Close \/ Hangup \/ DisableIf
  PROVE  CpInd'
<1> USE CpAssumption DEF CpInd, CpTypeInv, CallInv, EnabledInv, BaudInStep, InTermios,
        OpenPorts, CallSteps, Outcomes, tty, flags
<1>1. CASE OpenEnable
  <2>1. PICK o \in Outcomes : /\ chip' = [chip EXCEPT !.iface = chip.iface \/ o.taken]
                               /\ enable_failed' = (o.status # 0)
    BY <1>1 DEF OpenEnable
  <2>2. o.taken \in BOOLEAN /\ (o.taken \/ enable_failed')
    BY <2>1, OutcomeFacts, Zenon
  <2>3. chip'.iface = (chip.iface \/ o.taken)
    BY <2>1
  <2>4. chip'.iface \/ enable_failed'
    BY <2>2, <2>3, Zenon
  <2>5. chip' \in [iface : BOOLEAN, baud : Nat, lctrl : SUBSET Int, DTR : BOOLEAN, RTS : BOOLEAN]
    BY <2>1, <2>2
  <2>6. chip'.baud = chip.baud /\ chip'.DTR = chip.DTR /\ chip'.RTS = chip.RTS
    BY <2>1
  <2>7. QED
    BY <1>1, <2>4, <2>5, <2>6 DEF OpenEnable
<1>2. CASE OpenGeneric
  BY <1>2 DEF OpenGeneric
<1>3. CASE Close
  BY <1>3 DEF Close
<1>31. CASE Hangup
  BY <1>31 DEF Hangup
<1>4. CASE DisableIf
  <2>1. PICK o \in Outcomes : chip' = [chip EXCEPT !.iface = chip.iface /\ ~o.taken]
    BY <1>4 DEF DisableIf
  <2>2. chip' \in [iface : BOOLEAN, baud : Nat, lctrl : SUBSET Int, DTR : BOOLEAN, RTS : BOOLEAN]
    BY <2>1
  <2>3. chip'.baud = chip.baud /\ chip'.DTR = chip.DTR /\ chip'.RTS = chip.RTS
    BY <2>1
  <2>4. QED
    BY <1>4, <2>2, <2>3 DEF DisableIf
<1>5. QED
  BY <1>1, <1>2, <1>3, <1>31, <1>4

\* The steps of a call keep the invariant.
LEMMA CallStep ==
  ASSUME CpInd, NEW p \in Procs, SetTermios(p) \/ TiocmSet(p) \/ TiocmGet(p) \/ Step(p)
  PROVE  CpInd'
<1> USE CpAssumption DEF CpInd, CpTypeInv, CallInv, EnabledInv, BaudInStep, InTermios,
        OpenPorts, CallSteps, tty, flags, Goto
<1>1. CASE SetTermios(p)
  BY <1>1 DEF SetTermios
<1>2. CASE TiocmSet(p)
  BY <1>2 DEF TiocmSet
<1>3. CASE TiocmGet(p)
  BY <1>3 DEF TiocmGet
<1>4. CASE TermiosLock(p)
  BY <1>4 DEF TermiosLock, MutexLock
<1>5. CASE SetBaud(p)
  <2>1. CASE tty_baud = 0
    BY <1>5, <2>1 DEF SetBaud
  <2>2. CASE tty_baud > 0
    <3>1. PICK o \in Outcomes :
            /\ chip' = [chip EXCEPT !.baud = IF o.taken THEN tty_baud ELSE @]
            /\ synced' = (o.status = 0)
            /\ tty_baud' = IF o.status = 0 THEN tty_baud ELSE DEFAULT_BAUD_RATE
      BY <1>5, <2>2 DEF SetBaud
    <3>2. synced' => o.status = 0 /\ o.taken
      BY <3>1, OutcomeFacts, Zenon
    <3>3. chip' \in [iface : BOOLEAN, baud : Nat, lctrl : SUBSET Int, DTR : BOOLEAN, RTS : BOOLEAN]
      BY <3>1
    <3>4. chip'.iface = chip.iface /\ chip'.DTR = chip.DTR /\ chip'.RTS = chip.RTS
      BY <3>1
    <3>5. tty_baud' \in Nat
      BY <3>1 DEF DEFAULT_BAUD_RATE
    <3>6. QED
      BY <1>5, <3>1, <3>2, <3>3, <3>4, <3>5 DEF SetBaud
  <2>3. QED
    BY <2>1, <2>2
<1>6. CASE SetLctrl(p)
  <2>1. PICK g \in Garbage, o \in Outcomes :
          chip' = [chip EXCEPT !.lctrl = IF o.taken THEN LineControl(g) ELSE @]
    BY <1>6 DEF SetLctrl
  <2>2. LineControl(g) \in SUBSET Int
    BY DEF LineControl, ParityMask, STOP_1_MASK, DATA_8_MASK
  <2>3. chip' \in [iface : BOOLEAN, baud : Nat, lctrl : SUBSET Int, DTR : BOOLEAN, RTS : BOOLEAN]
    BY <2>1, <2>2
  <2>4. /\ chip'.iface = chip.iface /\ chip'.baud = chip.baud
        /\ chip'.DTR = chip.DTR /\ chip'.RTS = chip.RTS
    BY <2>1
  <2>5. QED
    BY <1>6, <2>3, <2>4 DEF SetLctrl
<1>7. CASE TiocmLock(p)
  BY <1>7 DEF TiocmLock, MutexLock
<1>8. CASE SetMdmhndshk(p)
  <2>2. PICK g \in Garbage, o \in Outcomes :
          chip' = IF o.taken THEN Handshaken(Handshake(g, arg[p].set, arg[p].clear)) ELSE chip
    BY <1>8 DEF SetMdmhndshk
  <2>3. /\ chip' \in [iface : BOOLEAN, baud : Nat, lctrl : SUBSET Int, DTR : BOOLEAN, RTS : BOOLEAN]
        /\ chip'.iface = chip.iface /\ chip'.baud = chip.baud
    <3> DEFINE val == Handshake(g, arg[p].set, arg[p].clear)
               dtr == IF MCR_DTR_MASK \in val THEN MCR_DTR \in val ELSE chip.DTR
               rts == IF MCR_RTS_MASK \in val THEN MCR_RTS \in val ELSE chip.RTS
    <3>1. CASE ~o.taken
      BY <2>2, <3>1
    <3>2. CASE o.taken
      <4>1. dtr \in BOOLEAN /\ rts \in BOOLEAN
        <5>1. chip.DTR \in BOOLEAN /\ chip.RTS \in BOOLEAN
          OBVIOUS
        <5>2. ASSUME NEW v PROVE /\ (IF MCR_DTR_MASK \in v THEN MCR_DTR \in v ELSE chip.DTR) \in BOOLEAN
                                 /\ (IF MCR_RTS_MASK \in v THEN MCR_RTS \in v ELSE chip.RTS) \in BOOLEAN
          BY <5>1, BitOrBefore, Zenon
        <5>3. QED
          BY <5>2, Zenon
      <4>2. chip' = [chip EXCEPT !.DTR = dtr, !.RTS = rts]
        BY <2>2, <3>2, Zenon DEF Handshaken
      <4> HIDE DEF dtr, rts
      <4>3. QED
        BY <4>1, <4>2
    <3>3. QED
      BY <3>1, <3>2
  <2>4. QED
    BY <1>8, <2>3 DEF SetMdmhndshk
<1>9. CASE MutexUnlock(p)
  BY <1>9 DEF MutexUnlock
<1>10. CASE GetMdmstat(p)
  BY <1>10 DEF GetMdmstat
<1>11. QED
  BY <1>1, <1>2, <1>3, <1>4, <1>5, <1>6, <1>7, <1>8, <1>9, <1>10 DEF Step

\* The invariant holds in every state.
LEMMA CpInvariance == CpSpec => []CpInd
<1>1. CpInd /\ [CpNext]_cp_vars => CpInd'
  <2> SUFFICES ASSUME CpInd, [CpNext]_cp_vars PROVE CpInd'
    OBVIOUS
  <2>1. CASE UNCHANGED cp_vars
    BY <2>1 DEF cp_vars, tty, flags, CpInd, CpTypeInv, CallInv, EnabledInv, BaudInStep, InTermios
  <2>2. QED
    BY <2>1, PortStep, CallStep DEF CpNext
<1>2. QED
  BY CpInitInd, <1>1, PTL DEF CpSpec

\* After an acknowledged change of speed the termios and the chip agree for any
\* number of processes and any speeds (serial_cp2102_set_termios).
THEOREM SpeedsAgree == CpSpec => []BaudInStep
<1>1. CpInd => BaudInStep
  BY DEF CpInd
<1>2. QED
  BY CpInvariance, <1>1, PTL

\* A command reaches an interface that is not enabled only if enabling it has
\* failed (serial_cp2102_open ignores that) or if the call is one that a hangup
\* has overtaken, on a port that is closed (serial_cp2102_close waits for none).
THEOREM OnlyFailedEnable == CpSpec => EarlyNeedsFailedEnable
<1>1. ASSUME CpInd, CpNext, early', ~early, ~enable_failed
      PROVE  Overtaken
  <2> USE <1>1
  <2>1. PICK p \in Procs : SetBaud(p) \/ SetLctrl(p) \/ SetMdmhndshk(p) \/ GetMdmstat(p)
    BY DEF CpNext, OpenEnable, OpenGeneric, Close, Hangup, DisableIf, SetTermios, TiocmSet,
           TiocmGet, Step, TermiosLock, TiocmLock, MutexLock, MutexUnlock, flags
  <2>2. ~chip.iface
    BY <2>1 DEF SetBaud, SetLctrl, SetMdmhndshk, GetMdmstat, Arrives
  <2>3. port = "closed"
    BY <2>2 DEF CpInd, CpTypeInv, EnabledInv
  <2>4. p \in hung
    BY <2>1, <2>3 DEF CpInd, CallInv, SetBaud, SetLctrl, SetMdmhndshk, GetMdmstat
  <2>5. pc'[p] # pc[p]
    BY <2>1 DEF CpInd, CpTypeInv, SetBaud, SetLctrl, SetMdmhndshk, GetMdmstat, Goto
  <2>6. QED
    BY <2>3, <2>4, <2>5 DEF Overtaken
<1>2. CpInd /\ [CpNext]_cp_vars =>
        [early' /\ ~early => enable_failed \/ Overtaken]_cp_vars
  BY <1>1
<1>3. QED
  BY CpInvariance, <1>2, PTL DEF CpSpec, EarlyNeedsFailedEnable
-----------------------------------------------------------------------------
(* Ds1307: registers and times *)

Seven == 1 .. 7
Registers == [Seven -> Nat]

\* Two digits undo and are undone.
LEMMA DigitsNumber == \A n \in Nat : Digits(n) \in Nat /\ Number(Digits(n)) = n
BY DEF Digits, Number

\* What a register shows is a number.
LEMMA NumberNat == \A r \in Nat : Number(r) \in Nat
BY DEF Number

\* The masks of ds1307_get_time lose nothing of a register that shows a number
\* in its range.
LEMMA MasksHarmless ==
  \A r \in Nat :
    /\ Number(r) <= 59 => bcd2bin(r % 128) = Number(r)
    /\ Number(r) <= 31 => bcd2bin(r % 64) = Number(r)
    /\ Number(r) <= 7 => bcd2bin(r % 8) = Number(r)
    /\ Number(r) <= 12 => bcd2bin(r % 32) = Number(r)
    /\ bcd2bin(r) = Number(r)
BY DEF Number, bcd2bin

\* bin2bcd writes two digits.
LEMMA BcdDigits == \A n \in 0 .. 99 : bin2bcd(n) = Digits(n)
BY DEF bin2bcd, Digits

\* bin2bcd gives a byte for every number, also for a negative one.
LEMMA BcdByte == \A n \in Int : bin2bcd(n) \in Nat
BY DEF bin2bcd

\* The lengths of the months.
LEMMA DaysRange == \A mon, year : Days(mon, year) \in 28 .. 31
BY DEF Days

\* A time is seven numbers.
LEMMA SevenNumbers ==
  ASSUME NEW t, IsTime(t)
  PROVE  /\ t \in Registers
         /\ t[1] \in 0 .. 59 /\ t[2] \in 0 .. 59 /\ t[3] \in 0 .. 23 /\ t[4] \in 0 .. 6
         /\ t[5] \in 1 .. 31 /\ t[6] \in 0 .. 11 /\ t[7] \in 100 .. 199
<1>1. /\ t \in [Seven -> Int]
      /\ t[1] \in 0 .. 59 /\ t[2] \in 0 .. 59 /\ t[3] \in 0 .. 23 /\ t[4] \in 0 .. 6
      /\ t[5] \in 1 .. 31 /\ t[6] \in 0 .. 11 /\ t[7] \in 100 .. 199
  BY DaysRange DEF IsTime, rtc_valid_tm, Seven, FirstYear, LastYear
<1>2. \A i \in Seven : t[i] \in Nat
  BY <1>1 DEF Seven
<1>3. QED
  BY <1>1, <1>2 DEF Registers

\* The chip holds the times it shows.
LEMMA HoldShow ==
  ASSUME NEW t, IsTime(t)
  PROVE  ChipHolds(t) \in Registers /\ ChipShows(ChipHolds(t)) = t /\ ToRegs(t) = ChipHolds(t)
<1>1. ChipHolds(t) \in Registers
  BY SevenNumbers, DigitsNumber DEF ChipHolds, Registers, Seven
<1>2. ChipShows(ChipHolds(t)) = <<t[1], t[2], t[3], t[4], t[5], t[6], t[7]>>
  BY SevenNumbers, DigitsNumber DEF ChipHolds, ChipShows
<1>3. t = <<t[1], t[2], t[3], t[4], t[5], t[6], t[7]>>
  BY SevenNumbers DEF Registers, Seven
<1>4. ToRegs(t) = ChipHolds(t)
  BY SevenNumbers, BcdDigits DEF ToRegs, ChipHolds
<1>5. QED
  BY <1>1, <1>2, <1>3, <1>4

\* What ds1307_set_time sends of any time that the core lets through.
LEMMA SendShow ==
  ASSUME NEW t, rtc_valid_tm(t)
  PROVE  /\ ToRegs(t) \in Registers
         /\ \A i \in {1, 2, 3, 5, 6} : ChipShows(ToRegs(t))[i] = t[i]
<1>1. /\ t \in [Seven -> Int]
      /\ t[1] \in 0 .. 59 /\ t[2] \in 0 .. 59 /\ t[3] \in 0 .. 23
      /\ t[5] \in 1 .. 31 /\ t[6] \in 0 .. 11
  BY DaysRange DEF rtc_valid_tm, Seven
<1>2. ToRegs(t) \in Registers
  BY <1>1, BcdByte DEF ToRegs, Registers, Seven
<1>3. /\ bin2bcd(t[1]) = Digits(t[1]) /\ bin2bcd(t[2]) = Digits(t[2]) /\ bin2bcd(t[3]) = Digits(t[3])
      /\ bin2bcd(t[5]) = Digits(t[5]) /\ bin2bcd(t[6] + 1) = Digits(t[6] + 1)
  BY <1>1, BcdDigits
<1>4. \A i \in {1, 2, 3, 5, 6} : ChipShows(ToRegs(t))[i] = t[i]
  BY <1>1, <1>3, DigitsNumber DEF ToRegs, ChipShows
<1>5. QED
  BY <1>2, <1>4

\* One second after a time there is a time again, up to the end of the century.
LEMMA LaterIsTime ==
  ASSUME NEW t, IsTime(t), Later(t)[7] <= LastYear
  PROVE  IsTime(Later(t))
<1> DEFINE u == Later(t)
<1>1. /\ t[1] \in 0 .. 59 /\ t[2] \in 0 .. 59 /\ t[3] \in 0 .. 23 /\ t[4] \in 0 .. 6
      /\ t[5] \in 1 .. 31 /\ t[6] \in 0 .. 11 /\ t[7] \in 100 .. 199
      /\ t[5] <= Days(t[6], t[7]) /\ Days(t[6], t[7]) \in 28 .. 31
  BY SevenNumbers, DaysRange DEF IsTime, rtc_valid_tm
<1>2. /\ u[1] \in 0 .. 59 /\ u[2] \in 0 .. 59 /\ u[3] \in 0 .. 23 /\ u[4] \in 0 .. 6
      /\ u[6] \in 0 .. 11 /\ u[7] \in 100 .. 200
  BY <1>1 DEF Later
<1>3. u[7] \in 100 .. 199
  BY <1>2 DEF LastYear
<1>4. u[5] \in 1 .. Days(u[6], u[7])
  <2>1. CASE u[5] = 1
    BY <2>1, DaysRange
  <2>2. CASE u[5] # 1
    <3>1. u[5] \in 1 .. Days(t[6], t[7]) /\ u[6] = t[6] /\ u[7] = t[7]
      BY <1>1, <2>2 DEF Later
    <3>2. QED
      BY <3>1
  <2>3. QED
    BY <2>1, <2>2
<1>5. u \in [1 .. 7 -> Int]
  <2>1. u[5] \in Int
    BY <1>4, DaysRange
  <2>2. u = <<u[1], u[2], u[3], u[4], u[5], u[6], u[7]>>
    BY DEF Later
  <2> HIDE DEF u
  <2>3. QED
    BY <1>2, <2>1, <2>2
<1>6. t[7] \in 70 .. INT_MAX - 1900 /\ u[7] \in 70 .. INT_MAX - 1900
  <2>1. u[7] = t[7] \/ u[7] = t[7] + 1
    BY DEF Later
  <2>2. QED
    BY <1>1, <1>3, <2>1, Ds1307Assumption DEF LastYear
<1> HIDE DEF u
<1>7. IsTime(u)
  BY <1>2, <1>3, <1>4, <1>5, <1>6 DEF IsTime, rtc_valid_tm, FirstYear, LastYear
<1>8. QED
  BY <1>7 DEF u

Counted == Seven \ {4}

\* A tick counts one field up, and leaves the ones above it alone.
LEMMA LaterCounts ==
  ASSUME NEW t, IsTime(t)
  PROVE  \E m \in Counted : /\ Later(t)[m] > t[m]
                             /\ \A j \in Counted : j > m => Later(t)[j] = t[j]
<1> DEFINE s == t[1] = 59
           m == s /\ t[2] = 59
           h == m /\ t[3] = 23
           d == h /\ t[5] = Days(t[6], t[7])
           y == d /\ t[6] = 11
           w == IF y THEN 7 ELSE IF d THEN 6 ELSE IF h THEN 5 ELSE IF m THEN 3 ELSE IF s THEN 2 ELSE 1
<1>1. Later(t)[w] > t[w] /\ \A j \in Counted : j > w => Later(t)[j] = t[j]
  BY SevenNumbers DEF Later, Counted, Seven
<1>2. w \in Counted
  BY DEF Counted, Seven
<1>3. QED
  BY <1>1, <1>2

\* The fields below next as they were read, the others as the chip shows them.
Mixed(read, shown, next) == [i \in Seven |-> IF i < next THEN read[i] ELSE shown[i]]

\* A tick between two transfers does not make what is read lie before u.
LEMMA TickNotBefore ==
  ASSUME NEW x \in [Seven -> Int], NEW t, IsTime(t), NEW u, IsTime(u), NEW n \in 1 .. 8,
         NotBefore(Mixed(x, t, n), u), IsTime(Later(t))
  PROVE  NotBefore(Mixed(x, Later(t), n), u)
<1> DEFINE a == Mixed(x, t, n)
           b == Mixed(x, Later(t), n)
<1> SUFFICES NotBefore(b, u)
  OBVIOUS
<1>0. NotBefore(a, u)
  OBVIOUS
<1>1. PICK m \in Counted : /\ Later(t)[m] > t[m]
                           /\ \A j \in Counted : j > m => Later(t)[j] = t[j]
  BY LaterCounts
<1>2. \A i \in Seven : a[i] \in Int /\ b[i] \in Int /\ u[i] \in Int
  BY SevenNumbers DEF Mixed, Registers
<1>3. CASE m < n
  <2>1. \A i \in Counted : b[i] = a[i]
    BY <1>1, <1>3 DEF Mixed, Counted, Seven
  <2>2. QED
    BY <2>1 DEF NotBefore, Counted, Seven
<1>4. CASE m >= n
  <2>1. b[m] > a[m] /\ \A j \in Counted : j > m => b[j] = a[j]
    BY <1>1, <1>4 DEF Mixed, Counted, Seven
  <2> HIDE DEF a, b
  <2>2. CASE \A i \in Counted : a[i] = u[i]
    BY <1>1, <1>2, <2>1, <2>2 DEF NotBefore, Counted, Seven
  <2>3. CASE \E i \in Counted : a[i] > u[i] /\ \A j \in (i + 1 .. 7) \ {4} : a[j] = u[j]
    <3>1. PICK i \in Counted : a[i] > u[i] /\ \A j \in (i + 1 .. 7) \ {4} : a[j] = u[j]
      BY <2>3
    <3>2. CASE i > m
      BY <1>1, <1>2, <2>1, <3>1, <3>2 DEF NotBefore, Counted, Seven
    <3>3. CASE i <= m
      <4>1. a[m] >= u[m]
        BY <1>1, <1>2, <3>1, <3>3 DEF Counted, Seven
      <4>2. b[m] > u[m] /\ \A j \in (m + 1 .. 7) \ {4} : b[j] = u[j]
        BY <1>1, <1>2, <2>1, <3>1, <3>3, <4>1 DEF Counted, Seven
      <4>3. QED
        BY <4>2 DEF NotBefore, Counted, Seven
    <3>4. QED
      BY <3>2, <3>3 DEF Counted, Seven
  <2>4. QED
    BY <1>0, <2>2, <2>3 DEF NotBefore, Counted, Seven
<1>5. QED
  BY <1>3, <1>4 DEF Counted, Seven

-----------------------------------------------------------------------------
(* Ds1307: the transfers *)

DsTypeInv ==
  /\ regs \in [Chips -> Registers]
  /\ rtc_info \in Registers
  /\ op \in [Chips -> [kind : {"none", "get", "set"}, next : 1 .. 8]]
  /\ DOMAIN since = Chips /\ DOMAIN clean = Chips /\ DOMAIN ticked = Chips /\ DOMAIN got = Chips
  /\ DOMAIN fresh = Chips

\* An operation that is still clean is the only one in progress.
AloneInv ==
  \A c, d \in Chips : c # d /\ op[c].kind # "none" /\ op[d].kind # "none" => ~clean[c]

\* A clean set has its registers in rtc_info, and those below next in the chip:
\* it has begun a new second with the first of them.
SetInv ==
  \A c \in Chips : op[c].kind = "set" /\ clean[c] =>
    /\ rtc_valid_tm(since[c])
    /\ op[c].next > 1 => fresh[c]
    /\ rtc_info = ToRegs(since[c])
    /\ \A i \in Seven : i < op[c].next => regs[c][i] = rtc_info[i]

\* What a clean read has read so far and what the chip shows of the rest do not
\* lie before the start, and are the time of the start if nothing ticked.
GetInv ==
  \A c \in Chips : op[c].kind = "get" /\ clean[c] /\ IsTime(since[c]) =>
    LET mixed == Mixed(ToTime(rtc_info), ChipShows(regs[c]), op[c].next)
    IN  /\ IsTime(ChipShows(regs[c]))
        /\ NotBefore(mixed, since[c])
        /\ ~ticked[c] => mixed = since[c]

DsInd == DsTypeInv /\ AloneInv /\ SetInv /\ GetInv /\ ReadNotBehind

\* The invariant holds before the first operation.
LEMMA DsInitInd == DsInit => DsInd
<1> SUFFICES ASSUME DsInit PROVE DsInd
  OBVIOUS
<1>1. regs \in [Chips -> Registers] /\ DOMAIN since = Chips
  BY Ds1307Assumption, HoldShow DEF DsInit
<1>2. \A c \in Chips : op[c].kind = "none" /\ got[c] = <<>>
  BY DEF DsInit, NoOp
<1>3. DsTypeInv
  BY <1>1 DEF DsInit, DsTypeInv, NoOp, Registers, Seven
<1>4. QED
  BY <1>2, <1>3 DEF DsInd, AloneInv, SetInv, GetInv, ReadNotBehind

\* Reading gives numbers.
LEMMA ToTimeInt == ASSUME NEW r \in Registers PROVE ToTime(r) \in [Seven -> Int]
BY DEF Registers, Seven, ToTime, bcd2bin

\* What registers show are numbers, and so are the registers for numbers.
LEMMA ShowInt ==
  ASSUME NEW r \in Registers
  PROVE  ChipShows(r) \in [Seven -> Int]
BY NumberNat DEF Registers, Seven, ChipShows

\* A tick of a chip that shows a time takes it to the next second, and no tick
\* comes once a set has begun a new second.
LEMMA TickFacts ==
  ASSUME DsTypeInv, NEW c \in Chips, Tick(c)
  PROVE  /\ ~fresh[c]
         /\ regs' \in [Chips -> Registers]
         /\ \A e \in Chips \ {c} : regs'[e] = regs[e] /\ ticked'[e] = ticked[e]
         /\ ticked'[c]
         /\ IsTime(ChipShows(regs[c])) =>
               /\ IsTime(Later(ChipShows(regs[c])))
               /\ ChipShows(regs'[c]) = Later(ChipShows(regs[c]))
<1> USE DEF DsTypeInv
<1> DEFINE t == ChipShows(regs[c])
<1>1. ~fresh[c] /\ ticked' = [ticked EXCEPT ![c] = TRUE]
  BY DEF Tick
<1>2. CASE IsTime(t)
  <2>1. Later(t)[7] <= LastYear /\ regs' = [regs EXCEPT ![c] = ChipHolds(Later(t))]
    BY <1>2 DEF Tick
  <2>2. IsTime(Later(t))
    BY <1>2, <2>1, LaterIsTime
  <2>3. ChipHolds(Later(t)) \in Registers /\ ChipShows(ChipHolds(Later(t))) = Later(t)
    BY <2>2, HoldShow
  <2> HIDE DEF t
  <2>4. regs' \in [Chips -> Registers] /\ regs'[c] = ChipHolds(Later(t))
    BY <2>1, <2>3
  <2>5. \A e \in Chips \ {c} : regs'[e] = regs[e]
    BY <2>1
  <2>6. \A e \in Chips \ {c} : ticked'[e] = ticked[e]
    BY <1>1
  <2>7. ticked'[c]
    BY <1>1
  <2>8. QED
    BY <1>1, <2>2, <2>3, <2>4, <2>5, <2>6, <2>7 DEF t
<1>3. CASE ~IsTime(t)
  <2>1. PICK r \in Wild : regs' = [regs EXCEPT ![c] = r]
    BY <1>3 DEF Tick
  <2>2. r \in Registers
    BY Ds1307Assumption DEF Registers, Seven
  <2>3. QED
    BY <1>1, <1>3, <2>1, <2>2
<1>4. QED
  BY <1>2, <1>3

\* A tick keeps the invariant.
LEMMA TickInd == ASSUME DsInd, NEW c \in Chips, Tick(c) PROVE DsInd'
<1> USE DEF DsInd, DsTypeInv
<1>1. DsTypeInv'
  BY TickFacts DEF Tick
<1>2. AloneInv'
  BY DEF Tick, AloneInv
<1>3. SetInv'
  <2> SUFFICES ASSUME NEW e \in Chips, (op[e].kind = "set" /\ clean[e])'
               PROVE  (/\ rtc_valid_tm(since[e])
                       /\ op[e].next > 1 => fresh[e]
                       /\ rtc_info = ToRegs(since[e])
                       /\ \A i \in Seven : i < op[e].next => regs[e][i] = rtc_info[i])'
    BY DEF SetInv
  <2>0. UNCHANGED <<rtc_info, op, since, clean, fresh>>
    BY DEF Tick
  <2>1. CASE e # c
    BY <2>0, <2>1, TickFacts DEF SetInv
  <2>2. CASE e = c
    <3>1. ~fresh[c]
      BY TickFacts
    <3>2. op[e].next = 1
      BY <2>0, <2>2, <3>1 DEF SetInv
    <3>3. QED
      BY <2>0, <3>2 DEF SetInv, Seven
  <2>3. QED
    BY <2>1, <2>2
<1>4. GetInv'
  <2> SUFFICES ASSUME NEW e \in Chips, op[e].kind = "get", clean[e], IsTime(since[e])
               PROVE  LET mixed == Mixed(ToTime(rtc_info), ChipShows(regs'[e]), op[e].next)
                      IN  /\ IsTime(ChipShows(regs'[e]))
                          /\ NotBefore(mixed, since[e])
                          /\ ~ticked'[e] => mixed = since[e]
    BY DEF GetInv, Tick
  <2>1. CASE e # c
    <3>1. regs'[e] = regs[e] /\ ticked'[e] = ticked[e]
      BY <2>1, TickFacts
    <3>2. QED
      BY <3>1 DEF GetInv
  <2>2. CASE e = c
    <3> DEFINE t == ChipShows(regs[e])
    <3>1. IsTime(t) /\ NotBefore(Mixed(ToTime(rtc_info), t, op[e].next), since[e])
      BY DEF GetInv
    <3>2. /\ IsTime(Later(t)) /\ ChipShows(regs'[e]) = Later(t)
          /\ ticked'[e]
      BY <2>2, <3>1, TickFacts
    <3>3. NotBefore(Mixed(ToTime(rtc_info), Later(t), op[e].next), since[e])
      BY <3>1, <3>2, ToTimeInt, TickNotBefore
    <3>4. QED
      BY <3>2, <3>3
  <2>3. QED
    BY <2>1, <2>2
<1>5. ReadNotBehind'
  BY DEF Tick, ReadNotBehind
<1>6. QED
  BY <1>1, <1>2, <1>3, <1>4, <1>5

\* Beginning an operation on c keeps what is known of the clean operations on
\* other chips, because there are none.
LEMMA BeginAlone ==
  ASSUME DsInd, NEW c \in Chips, NEW kind \in {"get", "set"}, Begin(c, kind)
  PROVE  /\ op' = [op EXCEPT ![c] = [kind |-> kind, next |-> 1]]
         /\ \A d \in Chips \ {c} : op[d].kind # "none" => ~clean'[d]
         /\ \A d \in Chips \ {c} : clean'[d] => clean[d]
         /\ AloneInv'
<1> USE DEF DsInd, DsTypeInv
<1>1. op' = [op EXCEPT ![c] = [kind |-> kind, next |-> 1]]
  <2>1. [NoOp EXCEPT !.kind = kind] = [kind |-> kind, next |-> 1]
    BY DEF NoOp
  <2>2. op[c] = NoOp /\ op' = [op EXCEPT ![c] = [op[c] EXCEPT !.kind = kind]]
    BY DEF Begin
  <2>3. QED
    BY <2>1, <2>2
<1>2. \A d \in Chips : op[d].kind # "none" => op[d] # NoOp
  BY DEF NoOp
<1>3. \A d \in Chips \ {c} : op[d].kind # "none" => ~clean'[d]
  BY <1>2 DEF Begin
<1>4. \A d \in Chips \ {c} : clean'[d] => clean[d]
  BY DEF Begin
<1>5. \A d \in Chips \ {c} : op[d].kind # "none" => ~clean'[c]
  BY <1>2 DEF Begin
<1>6. AloneInv'
  <2> SUFFICES ASSUME NEW d \in Chips, NEW e \in Chips, d # e,
                      op'[d].kind # "none", op'[e].kind # "none"
               PROVE  ~clean'[d]
    BY DEF AloneInv
  <2>1. CASE d = c
    BY <1>1, <1>5, <2>1
  <2>2. CASE d # c
    BY <1>1, <1>3, <2>2
  <2>3. QED
    BY <2>1, <2>2
<1>7. QED
  BY <1>1, <1>3, <1>4, <1>6

\* Nothing read and everything still to read is what the chip shows.
LEMMA MixedAll ==
  ASSUME NEW x, NEW t, IsTime(t)
  PROVE  Mixed(x, t, 1) = t /\ NotBefore(t, t)
BY SevenNumbers DEF Mixed, Registers, Seven, NotBefore

\* A read begins with the invariant.
LEMMA BeginGetInd == ASSUME DsInd, NEW c \in Chips, BeginGet(c) PROVE DsInd'
<1> USE DEF DsInd, DsTypeInv
<1>1. /\ op' = [op EXCEPT ![c] = [kind |-> "get", next |-> 1]]
      /\ \A d \in Chips \ {c} : op[d].kind # "none" => ~clean'[d]
      /\ \A d \in Chips \ {c} : clean'[d] => clean[d]
      /\ AloneInv'
  BY BeginAlone DEF BeginGet
<1>2. /\ UNCHANGED <<regs, rtc_info, fresh>>
      /\ since' = [since EXCEPT ![c] = ChipShows(regs[c])]
      /\ got' = [got EXCEPT ![c] = <<>>]
      /\ ticked' = [ticked EXCEPT ![c] = FALSE]
      /\ DOMAIN clean' = Chips
  BY DEF BeginGet, Begin
<1>3. DsTypeInv'
  BY <1>1, <1>2
<1>4. SetInv'
  <2>1. \A e \in Chips : op'[e].kind = "set" => ~clean'[e]
    BY <1>1
  <2>2. QED
    BY <2>1 DEF SetInv
<1>5. GetInv'
  <2> SUFFICES ASSUME NEW e \in Chips, op'[e].kind = "get", clean'[e], IsTime(since'[e])
               PROVE  LET mixed == Mixed(ToTime(rtc_info), ChipShows(regs[e]), op'[e].next)
                      IN  /\ IsTime(ChipShows(regs[e]))
                          /\ NotBefore(mixed, since'[e])
                          /\ ~ticked'[e] => mixed = since'[e]
    BY <1>2 DEF GetInv
  <2>1. e = c
    BY <1>1
  <2>2. since'[e] = ChipShows(regs[e]) /\ op'[e].next = 1
    BY <1>1, <1>2, <2>1
  <2>3. QED
    BY <2>2, MixedAll
<1>6. ReadNotBehind'
  BY <1>1, <1>2 DEF ReadNotBehind
<1>7. QED
  BY <1>1, <1>3, <1>4, <1>5, <1>6

\* A set begins with the invariant.
LEMMA BeginSetInd ==
  ASSUME DsInd, NEW c \in Chips, NEW t \in Asked, BeginSet(c, t)
  PROVE  DsInd'
<1> USE DEF DsInd, DsTypeInv
<1>1. /\ op' = [op EXCEPT ![c] = [kind |-> "set", next |-> 1]]
      /\ \A d \in Chips \ {c} : op[d].kind # "none" => ~clean'[d]
      /\ \A d \in Chips \ {c} : clean'[d] => clean[d]
      /\ AloneInv'
  BY BeginAlone DEF BeginSet
<1>2. /\ UNCHANGED <<regs, fresh>>
      /\ rtc_info' = ToRegs(t)
      /\ since' = [since EXCEPT ![c] = t]
      /\ got' = [got EXCEPT ![c] = <<>>]
      /\ ticked' = [ticked EXCEPT ![c] = FALSE]
      /\ DOMAIN clean' = Chips
  BY DEF BeginSet, Begin
<1>3. rtc_valid_tm(t) /\ ToRegs(t) \in Registers
  BY Ds1307Assumption, SendShow
<1>4. DsTypeInv'
  BY <1>1, <1>2, <1>3
<1>5. SetInv'
  <2> SUFFICES ASSUME NEW e \in Chips, op'[e].kind = "set", clean'[e]
               PROVE  /\ rtc_valid_tm(since'[e])
                      /\ op'[e].next > 1 => fresh'[e]
                      /\ rtc_info' = ToRegs(since'[e])
                      /\ \A i \in Seven : i < op'[e].next => regs'[e][i] = rtc_info'[i]
    BY DEF SetInv
  <2>1. e = c
    BY <1>1
  <2>2. since'[e] = t /\ op'[e].next = 1
    BY <1>1, <1>2, <2>1
  <2>3. QED
    BY <1>2, <1>3, <2>2 DEF Seven
<1>6. GetInv'
  BY <1>1 DEF GetInv
<1>7. ReadNotBehind'
  BY <1>1, <1>2 DEF ReadNotBehind
<1>8. QED
  BY <1>1, <1>4, <1>5, <1>6, <1>7

\* A transfer of c leaves every other clean operation alone: there is none.
LEMMA OthersUnclean ==
  ASSUME AloneInv, NEW c \in Chips, op[c].kind # "none", NEW d \in Chips, d # c, op[d].kind # "none"
  PROVE  ~clean[d]
BY DEF AloneInv

\* Reading the next register moves one field from the chip to what is read.
LEMMA ReadMixed ==
  ASSUME NEW r \in Registers, NEW info \in Registers, NEW n \in Seven, IsTime(ChipShows(r))
  PROVE  Mixed(ToTime([info EXCEPT ![n] = r[n]]), ChipShows(r), n + 1)
           = Mixed(ToTime(info), ChipShows(r), n)
<1> DEFINE x == [info EXCEPT ![n] = r[n]]
           t == ChipShows(r)
<1>1. \A i \in Seven : i # n => ToTime(x)[i] = ToTime(info)[i]
  <2> SUFFICES ASSUME NEW i \in Seven, i # n PROVE ToTime(x)[i] = ToTime(info)[i]
    OBVIOUS
  <2>1. x[i] = info[i]
    BY DEF Registers
  <2>2. QED
    BY <2>1 DEF ToTime, Seven
<1>2. ToTime(x)[n] = t[n]
  <2>1. x[n] = r[n] /\ r[n] \in Nat
    BY DEF Registers
  <2>2. /\ t[1] <= 59 /\ t[2] <= 59 /\ t[3] <= 31 /\ t[4] <= 6 /\ t[5] <= 31 /\ t[6] <= 11
    BY SevenNumbers
  <2>3. CASE n = 1
    BY <2>1, <2>2, <2>3, MasksHarmless DEF ToTime, ChipShows
  <2>4. CASE n = 2
    BY <2>1, <2>2, <2>4, MasksHarmless DEF ToTime, ChipShows
  <2>5. CASE n = 3
    BY <2>1, <2>2, <2>5, MasksHarmless DEF ToTime, ChipShows
  <2>6. CASE n = 4
    BY <2>1, <2>2, <2>6, MasksHarmless, NumberNat DEF ToTime, ChipShows
  <2>7. CASE n = 5
    BY <2>1, <2>2, <2>7, MasksHarmless DEF ToTime, ChipShows
  <2>8. CASE n = 6
    BY <2>1, <2>2, <2>8, MasksHarmless, NumberNat DEF ToTime, ChipShows
  <2>9. CASE n = 7
    BY <2>1, <2>2, <2>9, MasksHarmless DEF ToTime, ChipShows
  <2>10. QED
    BY <2>3, <2>4, <2>5, <2>6, <2>7, <2>8, <2>9 DEF Seven
<1> HIDE DEF x, t
<1>3. Mixed(ToTime(x), t, n + 1) = Mixed(ToTime(info), t, n)
  BY <1>1, <1>2 DEF Mixed, Seven
<1>4. QED
  BY <1>3 DEF x, t

\* A transfer of a read keeps the invariant.
LEMMA ReadRegInd == ASSUME DsInd, NEW c \in Chips, ReadReg(c) PROVE DsInd'
<1> USE DEF DsInd, DsTypeInv
<1> DEFINE n == op[c].next
<1>1. /\ op[c].kind = "get" /\ n \in Seven
      /\ op' = [op EXCEPT ![c] = [kind |-> "get", next |-> n + 1]]
      /\ UNCHANGED <<regs, since, ticked, fresh, got>>
  <2>1. op[c].kind = "get" /\ n \in Seven /\ UNCHANGED <<regs, since, ticked, fresh, got>>
    BY DEF ReadReg, Seven
  <2>2. [op[c] EXCEPT !.next = n + 1] = [kind |-> "get", next |-> n + 1]
    BY <2>1
  <2>3. op' = [op EXCEPT ![c] = [op[c] EXCEPT !.next = n + 1]]
    BY DEF ReadReg
  <2>4. QED
    BY <2>1, <2>2, <2>3
<1>2. CASE rtc_info' = [rtc_info EXCEPT ![n] = regs[c][n]] /\ UNCHANGED clean
  <2>1. DsTypeInv'
    BY <1>1, <1>2 DEF Registers, Seven
  <2>2. AloneInv'
    BY <1>1, <1>2 DEF AloneInv
  <2>3. SetInv'
    BY <1>1, <1>2, OthersUnclean DEF SetInv
  <2>4. GetInv'
    <3> SUFFICES ASSUME NEW e \in Chips, op'[e].kind = "get", clean[e], IsTime(since[e])
                 PROVE  LET mixed == Mixed(ToTime(rtc_info'), ChipShows(regs[e]), op'[e].next)
                        IN  /\ IsTime(ChipShows(regs[e]))
                            /\ NotBefore(mixed, since[e])
                            /\ ~ticked[e] => mixed = since[e]
      BY <1>1, <1>2 DEF GetInv
    <3>1. e = c
      BY <1>1, OthersUnclean
    <3>2. IsTime(ChipShows(regs[e]))
      BY <1>1, <3>1 DEF GetInv
    <3>3. Mixed(ToTime(rtc_info'), ChipShows(regs[e]), op'[e].next)
            = Mixed(ToTime(rtc_info), ChipShows(regs[e]), n)
      BY <1>1, <1>2, <3>1, <3>2, ReadMixed
    <3>4. QED
      BY <1>1, <3>1, <3>3 DEF GetInv
  <2>5. ReadNotBehind'
    BY <1>1, <1>2 DEF ReadNotBehind
  <2>6. QED
    BY <2>1, <2>2, <2>3, <2>4, <2>5
<1>3. CASE /\ \E e \in Errors : rtc_info' = [rtc_info EXCEPT ![n] = e % 256]
           /\ clean' = [clean EXCEPT ![c] = FALSE]
  <2>1. DsTypeInv'
    <3>1. PICK e \in Errors : rtc_info' = [rtc_info EXCEPT ![n] = e % 256]
      BY <1>3
    <3>2. e % 256 \in Nat
      BY Ds1307Assumption
    <3>3. QED
      BY <1>1, <1>3, <3>1, <3>2 DEF Registers, Seven
  <2>2. AloneInv'
    BY <1>1, <1>3 DEF AloneInv
  <2>3. \A e \in Chips : op'[e].kind # "none" => ~clean'[e]
    BY <1>1, <1>3, OthersUnclean
  <2>4. ReadNotBehind'
    BY <1>1, <1>3 DEF ReadNotBehind
  <2>5. QED
    BY <2>1, <2>2, <2>3, <2>4 DEF SetInv, GetInv
<1>4. QED
  BY <1>2, <1>3 DEF ReadReg, Register

\* A read that has read everything returns a time that is not behind.
LEMMA GetReturnsInd == ASSUME DsInd, NEW c \in Chips, GetReturns(c) PROVE DsInd'
<1> USE DEF DsInd, DsTypeInv
<1>1. /\ op[c].kind = "get" /\ op[c].next = 8 /\ op' = [op EXCEPT ![c] = NoOp]
      /\ got' = [got EXCEPT ![c] = ToTime(rtc_info)]
      /\ UNCHANGED <<regs, rtc_info, since, clean, ticked, fresh>>
  BY DEF GetReturns
<1>2. op'[c].kind = "none"
  BY <1>1 DEF NoOp
<1>3. DsTypeInv'
  BY <1>1 DEF NoOp
<1>4. AloneInv'
  BY <1>1, <1>2 DEF AloneInv
<1>5. SetInv'
  BY <1>1, <1>2 DEF SetInv
<1>6. GetInv'
  BY <1>1, <1>2 DEF GetInv
<1>7. ReadNotBehind'
  <2>1. Mixed(ToTime(rtc_info), ChipShows(regs[c]), 8) = ToTime(rtc_info)
    BY ToTimeInt DEF Mixed, Seven
  <2>2. clean[c] /\ IsTime(since[c]) => /\ NotBefore(ToTime(rtc_info), since[c])
                                        /\ ~ticked[c] => ToTime(rtc_info) = since[c]
    BY <1>1, <2>1 DEF GetInv
  <2>3. QED
    BY <1>1, <2>2 DEF ReadNotBehind
<1>8. QED
  BY <1>3, <1>4, <1>5, <1>6, <1>7

\* A transfer of a set keeps the invariant.
LEMMA WriteRegInd == ASSUME DsInd, NEW c \in Chips, WriteReg(c) PROVE DsInd'
<1> USE DEF DsInd, DsTypeInv
<1> DEFINE n == op[c].next
<1>1. /\ op[c].kind = "set" /\ n \in Seven
      /\ op' = [op EXCEPT ![c] = [kind |-> "set", next |-> n + 1]]
      /\ UNCHANGED <<rtc_info, since, ticked, got>>
  <2>1. op[c].kind = "set" /\ n \in Seven /\ UNCHANGED <<rtc_info, since, ticked, got>>
    BY DEF WriteReg, Seven
  <2>2. [op[c] EXCEPT !.next = n + 1] = [kind |-> "set", next |-> n + 1]
    BY <2>1
  <2>3. op' = [op EXCEPT ![c] = [op[c] EXCEPT !.next = n + 1]]
    BY DEF WriteReg
  <2>4. QED
    BY <2>1, <2>2, <2>3
<1>2. CASE /\ regs' = [regs EXCEPT ![c] = [regs[c] EXCEPT ![n] = rtc_info[n]]]
           /\ fresh' = [fresh EXCEPT ![c] = fresh[c] \/ n = 1]
           /\ UNCHANGED clean
  <2>1. DsTypeInv'
    BY <1>1, <1>2 DEF Registers, Seven
  <2>2. AloneInv'
    BY <1>1, <1>2 DEF AloneInv
  <2>3. SetInv'
    <3> SUFFICES ASSUME NEW e \in Chips, op'[e].kind = "set", clean[e]
                 PROVE  /\ rtc_valid_tm(since[e])
                        /\ op'[e].next > 1 => fresh'[e]
                        /\ rtc_info = ToRegs(since[e])
                        /\ \A i \in Seven : i < op'[e].next => regs'[e][i] = rtc_info[i]
      BY <1>1, <1>2 DEF SetInv
    <3>1. e = c
      BY <1>1, OthersUnclean
    <3>2. fresh'[c]
      <4>1. CASE n = 1
        BY <1>2, <4>1
      <4>2. CASE n > 1
        <5>1. fresh[c]
          BY <1>1, <3>1, <4>2 DEF SetInv
        <5>2. QED
          BY <1>2, <5>1
      <4>3. QED
        BY <1>1, <4>1, <4>2 DEF Seven
    <3>3. /\ rtc_valid_tm(since[e]) /\ rtc_info = ToRegs(since[e])
          /\ \A i \in Seven : i < op'[e].next => regs'[e][i] = rtc_info[i]
      BY <1>1, <1>2, <3>1 DEF SetInv, Registers, Seven
    <3>4. QED
      BY <3>1, <3>2, <3>3
  <2>4. GetInv'
    <3>1. \A e \in Chips : op'[e].kind = "get" => ~clean'[e]
      BY <1>1, <1>2, OthersUnclean
    <3>2. QED
      BY <3>1 DEF GetInv
  <2>5. ReadNotBehind'
    BY <1>1, <1>2 DEF ReadNotBehind
  <2>6. QED
    BY <2>1, <2>2, <2>3, <2>4, <2>5
<1>3. CASE clean' = [clean EXCEPT ![c] = FALSE] /\ UNCHANGED <<regs, fresh>>
  <2>1. DsTypeInv'
    BY <1>1, <1>3 DEF Seven
  <2>2. AloneInv'
    BY <1>1, <1>3 DEF AloneInv
  <2>3. \A e \in Chips : op'[e].kind # "none" => ~clean'[e]
    BY <1>1, <1>3, OthersUnclean
  <2>4. ReadNotBehind'
    BY <1>1, <1>3 DEF ReadNotBehind
  <2>5. QED
    BY <2>1, <2>2, <2>3, <2>4 DEF SetInv, GetInv
<1>4. QED
  BY <1>2, <1>3 DEF WriteReg, Register

\* A set that returns keeps the invariant.
LEMMA SetReturnsInd == ASSUME DsInd, NEW c \in Chips, SetReturns(c) PROVE DsInd'
<1> USE DEF DsInd, DsTypeInv
<1>1. /\ op' = [op EXCEPT ![c] = NoOp]
      /\ fresh' = [fresh EXCEPT ![c] = FALSE]
      /\ UNCHANGED <<regs, rtc_info, since, clean, ticked, got>>
  BY DEF SetReturns
<1>2. op'[c].kind = "none"
  BY <1>1 DEF NoOp
<1>3. DsTypeInv'
  BY <1>1 DEF NoOp
<1>4. AloneInv' /\ ReadNotBehind'
  BY <1>1, <1>2 DEF AloneInv, ReadNotBehind
<1>5. SetInv'
  BY <1>1, <1>2 DEF SetInv
<1>6. GetInv'
  BY <1>1, <1>2 DEF GetInv
<1>7. QED
  BY <1>3, <1>4, <1>5, <1>6

\* The invariant holds in every state.
LEMMA DsInvariance == DsSpec => []DsInd
<1>1. DsInd /\ [DsNext]_ds_vars => DsInd'
  <2> SUFFICES ASSUME DsInd, [DsNext]_ds_vars PROVE DsInd'
    OBVIOUS
  <2>1. CASE UNCHANGED ds_vars
    BY <2>1 DEF ds_vars, DsInd, DsTypeInv, AloneInv, SetInv, GetInv, ReadNotBehind
  <2>2. QED
    BY <2>1, TickInd, BeginGetInd, BeginSetInd, ReadRegInd, GetReturnsInd, WriteRegInd, SetReturnsInd
       DEF DsNext
<1>2. QED
  BY DsInitInd, <1>1, PTL DEF DsSpec

\* No read that was left alone shows a time before its start, for any number of
\* clocks, times and ticks between its transfers (ds1307_get_time).
THEOREM ReadsNotBehind == DsSpec => []ReadNotBehind
<1>1. DsInd => ReadNotBehind
  BY DEF DsInd
<1>2. QED
  BY DsInvariance, <1>1, PTL

\* A set that was left alone leaves the chip at the given time, ticks during the
\* set or not; of a time that the chip has no digits for, all but the year and
\* the day of the week (ds1307_set_time).
THEOREM SetsExact == DsSpec => []SetIsExact
<1>1. DsInd => SetIsExact
  <2> SUFFICES ASSUME DsInd, NEW c \in Chips, op[c].kind = "set", op[c].next = 8, clean[c]
               PROVE  LET shown == ChipShows(regs[c])
                      IN  /\ \A i \in {1, 2, 3, 5, 6} : shown[i] = since[c][i]
                          /\ IsTime(since[c]) => shown = since[c]
    BY DEF SetIsExact
  <2>1. rtc_valid_tm(since[c]) /\ rtc_info = ToRegs(since[c])
    BY DEF DsInd, SetInv
  <2>2. regs[c] \in Registers /\ rtc_info \in Registers
    BY DEF DsInd, DsTypeInv
  <2>3. \A i \in Seven : regs[c][i] = rtc_info[i]
    <3>1. \A i \in Seven : i < op[c].next => regs[c][i] = rtc_info[i]
      BY DEF DsInd, SetInv
    <3>2. \A i \in Seven : i < 8
      BY DEF Seven
    <3>3. QED
      BY <3>1, <3>2
  <2>4. regs[c] = ToRegs(since[c])
    BY <2>1, <2>2, <2>3 DEF Registers
  <2>5. \A i \in {1, 2, 3, 5, 6} : ChipShows(regs[c])[i] = since[c][i]
    BY <2>1, <2>4, SendShow
  <2>6. IsTime(since[c]) => ChipShows(regs[c]) = since[c]
    BY <2>4, HoldShow
  <2>7. QED
    BY <2>5, <2>6
<1>2. QED
  BY DsInvariance, <1>1, PTL
=============================================================================
