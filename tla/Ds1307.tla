------------------------------- MODULE Ds1307 -------------------------------
(***************************************************************************)
(* linux-device-drivers/15.ds1307_smbus_drv/ds1307_rtc.c: reading and      *)
(* setting a clock chip over I2C, one register at a time.                  *)
(*                                                                         *)
(* The RTC core runs one operation at a time on each chip; all chips share *)
(* the array rtc_info.  The chip ticks at any moment, except that writing  *)
(* its seconds starts a new second, within which the registers written     *)
(* after them are written: those written before them may see a tick.  A    *)
(* transfer may fail: a failed read gives a negative number, of which      *)
(* rtc_info keeps eight bits, a failed write has no effect, and the driver *)
(* looks at neither.                                                       *)
(*                                                                         *)
(* A time is a struct rtc_time: sec, min, hour, wday, mday, mon from 0,    *)
(* and year since 1900.                                                    *)
(***************************************************************************)
EXTENDS Integers, Sequences

CONSTANTS
  Chips,       \* the clock chips
  Times,       \* times the chips show at first
  Asked,       \* times the chips are set to
  INT_MAX,     \* the largest C int
  Wild,        \* registers a chip may come to that counts on from no time
  Errors,      \* negative results of a failed transfer
  MaxTicks,    \* bound: how often the chips tick
  MaxOps,      \* bound: how many operations are begun
  MaxErrors    \* bound: how many transfers fail

\* The years the two digits of the chip stand for.
FirstYear == 100
LastYear == 199

LeapYear(year) ==
  LET y == year + 1900 IN (y % 4 = 0 /\ y % 100 # 0) \/ y % 400 = 0

Days(mon, year) ==
  CASE mon \in {3, 5, 8, 10} -> 30
    [] mon = 1 -> IF LeapYear(year) THEN 29 ELSE 28
    [] OTHER -> 31

\* What the RTC core asks of a time before it calls ds1307_set_time.  The day
\* of the week is not looked at, and the driver gives no range of years.
rtc_valid_tm(t) ==
  /\ t \in [1 .. 7 -> Int]
  /\ t[1] \in 0 .. 59 /\ t[2] \in 0 .. 59 /\ t[3] \in 0 .. 23
  /\ t[5] \in 1 .. Days(t[6], t[7]) /\ t[6] \in 0 .. 11
  /\ t[7] \in 70 .. INT_MAX - 1900

\* The times a chip can show.
IsTime(t) == rtc_valid_tm(t) /\ t[4] \in 0 .. 6 /\ t[7] \in FirstYear .. LastYear

ASSUME Ds1307Assumption ==
  /\ \A t \in Times : IsTime(t)
  /\ \A t \in Asked : rtc_valid_tm(t)
  /\ Wild \subseteq [1 .. 7 -> Nat]
  /\ \A e \in Errors : e \in -255 .. -1
  /\ INT_MAX \in Nat /\ INT_MAX >= LastYear + 1900
  /\ {MaxTicks, MaxOps, MaxErrors} \subseteq Nat

VARIABLES
  regs,       \* for each chip: its seven registers
  rtc_info,   \* the array all chips share
  op,         \* for each chip: the operation in progress and its next register
  since,      \* for each chip: the time it showed at the first transfer, or is set to
  clean,      \* for each chip: nothing failed, no other chip's operation came between
  ticked,     \* for each chip: it ticked since the first transfer
  fresh,      \* for each chip: the set in progress has started a new second
  got,        \* for each chip: the time that the last read returned
  ticks, ops, errors   \* how much of the bounds is used up

ds_vars == <<regs, rtc_info, op, since, clean, ticked, fresh, got, ticks, ops, errors>>

-----------------------------------------------------------------------------
(* linux/bcd.h *)

bcd2bin(v) == (v % 16) + (v \div 16) * 10

\* The argument is unsigned: a negative v stands for 2^32 + v, and 2^32 is
\* ten times 429496729 plus 6, of which the four bits of 9 are left.
bin2bcd(v) ==
  IF v >= 0 THEN ((v \div 10) * 16 + (v % 10)) % 256
            ELSE ((9 + (v + 6) \div 10) * 16 + ((v + 6) % 10)) % 256

\* The end of ds1307_get_time.
ToTime(r) ==
  << bcd2bin(r[1] % 128), bcd2bin(r[2] % 128), bcd2bin(r[3] % 64), bcd2bin(r[4] % 8) - 1,
     bcd2bin(r[5] % 64), bcd2bin(r[6] % 32) - 1, bcd2bin(r[7]) + 100 >>

\* The beginning of ds1307_set_time.
ToRegs(t) ==
  << bin2bcd(t[1]), bin2bcd(t[2]), bin2bcd(t[3]), bin2bcd(t[4] + 1),
     bin2bcd(t[5]), bin2bcd(t[6] + 1), bin2bcd(t[7] - 100) >>

-----------------------------------------------------------------------------
(* The chip: two decimal digits per register, day and month counted from 1. *)

Digits(n) == (n \div 10) * 16 + (n % 10)
Number(r) == (r \div 16) * 10 + (r % 16)

ChipShows(r) ==
  << Number(r[1]), Number(r[2]), Number(r[3]), Number(r[4]) - 1,
     Number(r[5]), Number(r[6]) - 1, Number(r[7]) + 100 >>

ChipHolds(t) ==
  << Digits(t[1]), Digits(t[2]), Digits(t[3]), Digits(t[4] + 1),
     Digits(t[5]), Digits(t[6] + 1), Digits(t[7] - 100) >>

\* One second later.
Later(t) ==
  LET s == t[1] = 59
      m == s /\ t[2] = 59
      h == m /\ t[3] = 23
      d == h /\ t[5] = Days(t[6], t[7])
      y == d /\ t[6] = 11
  IN  << IF s THEN 0 ELSE t[1] + 1,
         IF m THEN 0 ELSE IF s THEN t[2] + 1 ELSE t[2],
         IF h THEN 0 ELSE IF m THEN t[3] + 1 ELSE t[3],
         IF h THEN (t[4] + 1) % 7 ELSE t[4],
         IF d THEN 1 ELSE IF h THEN t[5] + 1 ELSE t[5],
         IF y THEN 0 ELSE IF d THEN t[6] + 1 ELSE t[6],
         IF y THEN t[7] + 1 ELSE t[7] >>

-----------------------------------------------------------------------------
NoOp == [kind |-> "none", next |-> 1]

DsInit ==
  /\ \E t \in [Chips -> Times] : regs = [c \in Chips |-> ChipHolds(t[c])] /\ since = t
  /\ rtc_info = <<1, 1, 1, 1, 1, 1, 71>>
  /\ op = [c \in Chips |-> NoOp]
  /\ clean = [c \in Chips |-> TRUE]
  /\ ticked = [c \in Chips |-> FALSE]
  /\ fresh = [c \in Chips |-> FALSE]
  /\ got = [c \in Chips |-> <<>>]
  /\ ticks = 0 /\ ops = 0 /\ errors = 0

\* The data sheet leaves open what becomes of a chip that shows no time.
\* Bound: the chips stop before the century ends and their years wrap.
Tick(c) ==
  /\ ticks < MaxTicks
  /\ ~fresh[c]
  /\ ticks' = ticks + 1
  /\ LET t == ChipShows(regs[c])
     IN  \/ /\ IsTime(t)
            /\ Later(t)[7] <= LastYear
            /\ regs' = [regs EXCEPT ![c] = ChipHolds(Later(t))]
         \/ /\ ~IsTime(t)
            /\ \E r \in Wild : regs' = [regs EXCEPT ![c] = r]
  /\ ticked' = [ticked EXCEPT ![c] = TRUE]
  /\ UNCHANGED <<rtc_info, op, since, clean, fresh, got, ops, errors>>

\* The RTC core calls the driver for a chip that is not busy.
Begin(c, kind) ==
  /\ op[c] = NoOp /\ ops < MaxOps
  /\ ops' = ops + 1
  /\ op' = [op EXCEPT ![c].kind = kind]
  /\ LET busy == {d \in Chips \ {c} : op[d] # NoOp}
     IN  clean' = [d \in Chips |-> IF d = c THEN busy = {} ELSE clean[d] /\ d \notin busy]
  /\ ticked' = [ticked EXCEPT ![c] = FALSE]
  /\ got' = [got EXCEPT ![c] = <<>>]
  /\ UNCHANGED <<regs, fresh, ticks, errors>>

-----------------------------------------------------------------------------
(* ds1307_get_time *)

BeginGet(c) ==
  /\ Begin(c, "get")
  /\ since' = [since EXCEPT ![c] = ChipShows(regs[c])]
  /\ UNCHANGED rtc_info

\* Mutant: the registers are read from the year down.
RegisterDown(i) == 8 - i

\* The register of the i-th transfer.
Register(i) == i

ReadReg(c) ==
  LET i == Register(op[c].next)
  IN  /\ op[c].kind = "get" /\ op[c].next <= 7
      /\ op' = [op EXCEPT ![c].next = @ + 1]
      /\ \/ /\ rtc_info' = [rtc_info EXCEPT ![i] = regs[c][i]]
            /\ UNCHANGED <<clean, errors>>
         \/ /\ errors < MaxErrors
            /\ errors' = errors + 1
            /\ \E e \in Errors : rtc_info' = [rtc_info EXCEPT ![i] = e % 256]
            /\ clean' = [clean EXCEPT ![c] = FALSE]
      /\ UNCHANGED <<regs, since, ticked, fresh, got, ticks, ops>>

GetReturns(c) ==
  /\ op[c].kind = "get" /\ op[c].next = 8
  /\ op' = [op EXCEPT ![c] = NoOp]
  /\ got' = [got EXCEPT ![c] = ToTime(rtc_info)]
  /\ UNCHANGED <<regs, rtc_info, since, clean, ticked, fresh, ticks, ops, errors>>

-----------------------------------------------------------------------------
(* ds1307_set_time *)

BeginSet(c, t) ==
  /\ Begin(c, "set")
  /\ since' = [since EXCEPT ![c] = t]
  /\ rtc_info' = ToRegs(t)

WriteReg(c) ==
  LET i == Register(op[c].next)
  IN  /\ op[c].kind = "set" /\ op[c].next <= 7
      /\ op' = [op EXCEPT ![c].next = @ + 1]
      /\ \/ /\ regs' = [regs EXCEPT ![c][i] = rtc_info[i]]
            /\ fresh' = [fresh EXCEPT ![c] = @ \/ i = 1]
            /\ UNCHANGED <<clean, errors>>
         \/ /\ errors < MaxErrors
            /\ errors' = errors + 1
            /\ clean' = [clean EXCEPT ![c] = FALSE]
            /\ UNCHANGED <<regs, fresh>>
      /\ UNCHANGED <<rtc_info, since, ticked, got, ticks, ops>>

SetReturns(c) ==
  /\ op[c].kind = "set" /\ op[c].next = 8
  /\ op' = [op EXCEPT ![c] = NoOp]
  /\ fresh' = [fresh EXCEPT ![c] = FALSE]
  /\ UNCHANGED <<regs, rtc_info, since, clean, ticked, got, ticks, ops, errors>>

DsNext ==
  \E c \in Chips :
    \/ Tick(c)
    \/ BeginGet(c) \/ ReadReg(c) \/ GetReturns(c)
    \/ (\E t \in Asked : BeginSet(c, t)) \/ WriteReg(c) \/ SetReturns(c)

DsSpec == DsInit /\ [][DsNext]_ds_vars

-----------------------------------------------------------------------------
(* Properties *)

\* t is not before u; the day of the week does not count.
NotBefore(t, u) ==
  \/ \A i \in (1 .. 7) \ {4} : t[i] = u[i]
  \/ \E i \in (1 .. 7) \ {4} : t[i] > u[i] /\ \A j \in (i + 1 .. 7) \ {4} : t[j] = u[j]

\* A read that had the bus and rtc_info to itself never shows a time before its
\* own start, although the clock may tick and carry between any two of its seven
\* transfers; without a tick it shows the time exactly.  (It may be ahead: a tick
\* at New Year between the month and the year gives the right day of the wrong
\* year.)  The chip has to hold a time when the read starts: a set that shared
\* rtc_info with a failed read of another chip may have written anything.
ReadNotBehind ==
  \A c \in Chips : got[c] # <<>> /\ clean[c] /\ IsTime(since[c]) =>
    /\ NotBefore(got[c], since[c])
    /\ ~ticked[c] => got[c] = since[c]

\* A set that had the bus and rtc_info to itself leaves the chip at the time it
\* was given, in spite of the ticks before and during it: seconds first, so that
\* no carry gets between the registers.  A year or a day of the week that the
\* chip has no digits for is not kept, although the set succeeds (lines 107 and
\* 111); the rest of such a time is.
SetIsExact ==
  \A c \in Chips : op[c].kind = "set" /\ op[c].next = 8 /\ clean[c] =>
    LET shown == ChipShows(regs[c])
    IN  /\ \A i \in {1, 2, 3, 5, 6} : shown[i] = since[c][i]
        /\ IsTime(since[c]) => shown = since[c]
=============================================================================
