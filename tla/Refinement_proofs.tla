-------------------------- MODULE Refinement_proofs --------------------------
(***************************************************************************)
(* The two components that implement a specification of what they promise. *)
(* ChrFifo implements BoundedFifo, for any number of processes, devices    *)
(* and counts and any size of the ring, and Ramdisk implements FlatDisk,   *)
(* for any sectors and requests and any way of cutting these: the          *)
(* invariant of each, and one abstract step or none for each of its steps. *)
(***************************************************************************)
EXTENDS ChrFifo, Ramdisk, SequenceTheorems, TLAPS

-----------------------------------------------------------------------------
(* Slots of the ring *)

\* Products distribute over sums.
LEMMA Distribute == \A m, q, k \in Int : m * q \in Int /\ m * (q + k) = m * q + m * k
BY SMTT(20)

\* Products may be regrouped.
LEMMA Associate == \A m, q, k \in Int : (m * q) * k = m * (q * k)
BY SMTT(20)

\* Every integer is a multiple of the modulus plus its remainder.
LEMMA Quotient ==
  ASSUME NEW m \in Nat \ {0}, NEW x \in Int
  PROVE  \E q \in Int, r \in 0 .. m - 1 : x % m = r /\ x = m * q + r
<1>1. PICK q \in Int : x - m * q = (x % m)
  BY SMTT(20)
<1>2. x % m \in 0 .. m - 1
  OBVIOUS
<1>3. m * q \in Int
  BY Distribute
<1>4. ASSUME NEW y \in Int, NEW r \in 0 .. m - 1, x - y = r PROVE x = y + r
  BY <1>4
<1> DEFINE y == m * q
           r == x % m
<1>5. y \in Int /\ r \in 0 .. m - 1 /\ x - y = r
  BY <1>1, <1>2, <1>3
<1>6. x % m = r /\ x = m * q + r
  <2> HIDE DEF y, r
  <2>1. x = y + r
    BY <1>4, <1>5
  <2>2. QED
    BY <2>1 DEF y, r
<1> HIDE DEF r
<1>7. QED
  BY <1>5, <1>6

\* The remainder of such a sum.
LEMMA Remainder ==
  ASSUME NEW m \in Nat \ {0}, NEW q \in Int, NEW r \in 0 .. m - 1
  PROVE  (m * q + r) % m = r
OBVIOUS

\* Adding a multiple leaves the remainder alone.
LEMMA SameRemainder ==
  ASSUME NEW m \in Nat \ {0}, NEW x \in Int, NEW k \in Int
  PROVE  (x + m * k) % m = x % m
<1>1. PICK q \in Int, r \in 0 .. m - 1 : x % m = r /\ x = m * q + r
  BY Quotient
<1>2. m * q \in Int /\ m * k \in Int /\ m * (q + k) = m * q + m * k
  BY Distribute
<1>3. x + m * k = m * (q + k) + r
  BY <1>1, <1>2
<1>4. (m * (q + k) + r) % m = r
  BY Remainder
<1>5. QED
  BY <1>1, <1>3, <1>4

\* Positions less than Size apart have different slots.
LEMMA OtherSlot ==
  ASSUME NEW x \in Int, NEW n \in 1 .. Size - 1
  PROVE  (x + n) % Size # x % Size
<1>1. Size \in Nat \ {0}
  BY RingAssumption
<1>2. PICK q \in Int, r \in 0 .. Size - 1 : x % Size = r /\ x = Size * q + r
  BY <1>1, Quotient
<1>3. Size * q \in Int /\ Size * (q + 1) = Size * q + Size
  BY <1>1, Distribute
<1>4. CASE r + n < Size
  <2>1. x + n = Size * q + (r + n) /\ r + n \in 0 .. Size - 1
    BY <1>1, <1>2, <1>3, <1>4
  <2>2. (Size * q + (r + n)) % Size = r + n
    BY <1>1, <2>1, Remainder
  <2>3. QED
    BY <1>2, <2>1, <2>2
<1>5. CASE r + n >= Size
  <2>1. x + n = Size * (q + 1) + (r + n - Size) /\ r + n - Size \in 0 .. Size - 1
    BY <1>1, <1>2, <1>3, <1>5
  <2> DEFINE t == q + 1
             e == r + n - Size
  <2>2. t \in Int /\ e \in 0 .. Size - 1 /\ x + n = Size * t + e
    BY <2>1
  <2>3. e # r
    BY <1>1
  <2> HIDE DEF t, e
  <2>4. (Size * t + e) % Size = e
    BY <1>1, <2>2, Remainder
  <2>5. QED
    BY <1>2, <2>2, <2>3, <2>4
<1>6. QED
  BY <1>1, <1>4, <1>5

Counters == 0 .. CounterMod - 1

\* What most proofs use of RingAssumption.
LEMMA Sizes ==
  Size \in Nat \ {0} /\ CounterMod \in Nat \ {0} /\ Size < CounterMod /\ None \notin Procs
BY RingAssumption

\* What a counter leads to does not depend on its having wrapped.
LEMMA CounterSlot ==
  ASSUME NEW x \in Int, NEW k \in Int
  PROVE  x % CounterMod \in Counters /\ ((x % CounterMod) + k) % Size = (x + k) % Size
<1>1. CounterMod \in Nat \ {0} /\ Size \in Nat \ {0} /\ CounterMod % Size = 0
  BY RingAssumption
<1>2. PICK q \in Int, r \in 0 .. CounterMod - 1 : x % CounterMod = r /\ x = CounterMod * q + r
  BY <1>1, Quotient
<1>3. PICK m \in Int, z \in 0 .. Size - 1 : CounterMod % Size = z /\ CounterMod = Size * m + z
  BY <1>1, Quotient
<1>4. Size * m \in Int /\ CounterMod = Size * m
  BY <1>1, <1>3, Distribute
<1>5. m * q \in Int /\ CounterMod * q = Size * (m * q) /\ Size * (m * q) \in Int
  BY <1>1, <1>4, Distribute, Associate
<1> DEFINE t == m * q
           y == r + k
<1>6. x + k = y + Size * t
  BY <1>2, <1>5
<1>7. t \in Int /\ y \in Int
  BY <1>5
<1>8. (y + Size * t) % Size = y % Size
  <2> HIDE DEF t, y
  <2>1. QED
    BY <1>1, <1>7, SameRemainder
<1>9. QED
  BY <1>2, <1>6, <1>8 DEF Counters

\* The distance of two counters.
LEMMA Distance ==
  ASSUME NEW a \in Counters, NEW b \in Counters
  PROVE  /\ (a - b) % CounterMod \in Counters
         /\ (a - b) % CounterMod = IF a >= b THEN a - b ELSE a - b + CounterMod
BY RingAssumption DEF Counters

\* A counter that moves on by less than CounterMod wraps at most once.
LEMMA WrapOnce ==
  ASSUME NEW x \in 0 .. 2 * CounterMod - 1
  PROVE  x % CounterMod = IF x < CounterMod THEN x ELSE x - CounterMod
BY RingAssumption

\* Moving the first counter on, and moving the second one on.
LEMMA Move ==
  ASSUME NEW a \in Counters, NEW b \in Counters, NEW n \in Counters
  PROVE  /\ ((a - b) % CounterMod) + n < CounterMod =>
              (((a + n) % CounterMod) - b) % CounterMod = ((a - b) % CounterMod) + n
         /\ n <= (a - b) % CounterMod =>
              (a - ((b + n) % CounterMod)) % CounterMod = ((a - b) % CounterMod) - n
<1>1. CounterMod \in Nat \ {0} /\ a \in 0 .. CounterMod - 1 /\ b \in 0 .. CounterMod - 1
      /\ n \in 0 .. CounterMod - 1
  BY RingAssumption DEF Counters
<1> DEFINE e == (a + n) % CounterMod
           f == (b + n) % CounterMod
<1>2. /\ e = IF a + n < CounterMod THEN a + n ELSE a + n - CounterMod
      /\ f = IF b + n < CounterMod THEN b + n ELSE b + n - CounterMod
  <2> DEFINE y == a + n
             z == b + n
  <2>1. y \in 0 .. 2 * CounterMod - 1 /\ z \in 0 .. 2 * CounterMod - 1
    BY <1>1
  <2>2. /\ y % CounterMod = IF y < CounterMod THEN y ELSE y - CounterMod
        /\ z % CounterMod = IF z < CounterMod THEN z ELSE z - CounterMod
    <3> HIDE DEF y, z
    <3>1. QED
      BY <2>1, WrapOnce
  <2>3. QED
    BY <1>1, <2>1, <2>2
<1> HIDE DEF e, f
<1>3. e \in Counters /\ f \in Counters
  BY <1>1, <1>2 DEF Counters
<1>4. /\ (a - b) % CounterMod = IF a >= b THEN a - b ELSE a - b + CounterMod
      /\ (e - b) % CounterMod = IF e >= b THEN e - b ELSE e - b + CounterMod
      /\ (a - f) % CounterMod = IF a >= f THEN a - f ELSE a - f + CounterMod
  BY <1>3, Distance
<1> DEFINE u == (a - b) % CounterMod
           v == (e - b) % CounterMod
           w == (a - f) % CounterMod
<1>5. (u + n < CounterMod => v = u + n) /\ (n <= u => w = u - n)
  <2> HIDE DEF u, v, w
  <2>1. /\ u = IF a >= b THEN a - b ELSE a - b + CounterMod
        /\ v = IF e >= b THEN e - b ELSE e - b + CounterMod
        /\ w = IF a >= f THEN a - f ELSE a - f + CounterMod
    BY <1>4 DEF u, v, w
  <2>2. QED
    BY <1>1, <1>2, <2>1
<1>6. QED
  BY <1>5 DEF e, f
\* A function on 1 .. n is a sequence.
LEMMA Sequence ==
  ASSUME NEW B, NEW n \in Nat, NEW s \in [1 .. n -> B]
  PROVE  s \in Seq(B) /\ Len(s) = n
OBVIOUS

-----------------------------------------------------------------------------
(* The invariant *)

Byte == (Procs \X Nat) \cup {None}
Slots == 0 .. Size - 1
Writing == {"w_len", "w_copy"}
Reading == {"r_len", "r_copy"}

TypeInv ==
  /\ buf \in [Devs -> [Slots -> Byte]]
  /\ in \in [Devs -> Counters] /\ out \in [Devs -> Counters]
  /\ w_f_lock \in [Devs -> Procs \cup {None}] /\ r_f_lock \in [Devs -> Procs \cup {None}]
  /\ file \in [Procs -> Devs \cup {None}]
  /\ pc \in [Procs -> {"idle", "w_lock", "r_lock"} \cup Writing \cup Reading]
  /\ count \in [Procs -> Nat] /\ len \in [Procs -> Nat] /\ done \in [Procs -> Nat]
  /\ DOMAIN got = Procs

\* A call works on an open file, holds its mutex from the length on, and has
\* copied nothing before that.
CallInv ==
  \A p \in Procs :
    /\ pc[p] # "idle" => file[p] \in Devs /\ file[p] # None
    /\ pc[p] \in Writing => w_f_lock[file[p]] = p
    /\ pc[p] \in Reading => r_f_lock[file[p]] = p
    /\ pc[p] \notin {"w_copy", "r_copy"} => done[p] = 0 /\ got[p] = << >>

\* The ring is never overfull.
RingInv == \A d \in Devs : Used(d) <= Size

\* A writer fills free slots, in order, with the bytes of its buffer.
WriterInv ==
  \A p \in Procs : pc[p] = "w_copy" =>
    /\ done[p] <= len[p] /\ len[p] <= Size - Used(file[p])
    /\ \A i \in 1 .. done[p] : buf[file[p]][(in[file[p]] + i - 1) % Size] = <<p, i>>

\* A reader has copied unread slots, in order.
ReaderInv ==
  \A p \in Procs : pc[p] = "r_copy" =>
    /\ done[p] <= len[p] /\ len[p] <= Used(file[p])
    /\ got[p] = [i \in 1 .. done[p] |-> buf[file[p]][(out[file[p]] + i - 1) % Size]]

IndInv == TypeInv /\ CallInv /\ RingInv /\ WriterInv /\ ReaderInv

\* Lengths and slots have their types.
LEMMA Types ==
  ASSUME TypeInv
  PROVE  /\ \A d \in Devs : Used(d) \in Counters /\ Used(d) \in Nat
         /\ \A x \in Int : x % Size \in Slots
<1>1. \A d \in Devs : Used(d) \in Counters
  BY Distance DEF TypeInv, Used
<1>2. \A x \in Int : x % Size \in Slots
  BY RingAssumption DEF Slots
<1>3. QED
  BY <1>1, <1>2 DEF Counters

\* A byte of the writer goes behind the unread ones.
LEMMA BehindSlot ==
  ASSUME TypeInv, NEW d \in Devs, NEW k \in Int
  PROVE  (in[d] + k) % Size = (out[d] + Used(d) + k) % Size
<1>1. in[d] \in Counters /\ out[d] \in Counters /\ Used(d) \in Counters
  BY Types DEF TypeInv
<1>2. Used(d) = IF in[d] >= out[d] THEN in[d] - out[d] ELSE in[d] - out[d] + CounterMod
  BY <1>1, Distance DEF Used
<1> DEFINE x == out[d] + Used(d)
<1>3. x % CounterMod = in[d]
  <2>1. x % CounterMod = IF x < CounterMod THEN x ELSE x - CounterMod
    <3>1. x \in 0 .. 2 * CounterMod - 1
      BY <1>1, Sizes DEF Counters
    <3> HIDE DEF x
    <3>2. QED
      BY <3>1, WrapOnce
  <2>2. (IF x < CounterMod THEN x ELSE x - CounterMod) = in[d]
    BY <1>1, <1>2, Sizes DEF Counters
  <2>3. QED
    BY <2>1, <2>2
<1>4. x \in Int
  BY <1>1 DEF Counters
<1>5. ((x % CounterMod) + k) % Size = (x + k) % Size
  BY <1>4, CounterSlot
<1>6. QED
  BY <1>3, <1>5

\* The invariant holds when the drivers are loaded.
LEMMA InitInd == Init => IndInv
<1> SUFFICES ASSUME Init PROVE IndInv
  OBVIOUS
<1>1. TypeInv
  BY Sizes DEF Init, TypeInv, Byte, Counters, Writing, Reading, Slots
<1>2. \A d \in Devs : Used(d) = 0
  BY Sizes, Distance DEF Init, Used, Counters
<1>3. QED
  BY <1>1, <1>2, Sizes DEF Init, IndInv, CallInv, RingInv, WriterInv, ReaderInv, Writing, Reading

\* Steps that leave the ring alone.
Quiet(p) ==
  \/ Open(p) \/ Release(p) \/ WriteCall(p) \/ ReadCall(p) \/ WriteLockIntr(p) \/ ReadLockIntr(p)
  \/ WriteLock(p) \/ ReadLock(p) \/ WriteLen(p) \/ ReadLen(p)

\* They keep the invariant.
LEMMA QuietInd ==
  ASSUME IndInv, NEW p \in Procs, Quiet(p)
  PROVE  IndInv' /\ UNCHANGED kfifo
<1> USE Sizes DEF IndInv, TypeInv, CallInv, Writing, Reading, Goto, mutexes
<1>1. UNCHANGED kfifo
  BY DEF Quiet, Open, Release, WriteCall, ReadCall, Call, WriteLockIntr, ReadLockIntr,
         WriteLock, ReadLock, WriteLen, ReadLen
<1>2. \A d \in Devs : Used(d)' = Used(d) /\ Used(d) \in Nat
  BY <1>1, Types DEF kfifo, Used
<1>3. RingInv'
  BY <1>2 DEF RingInv
<1>4. TypeInv' /\ CallInv'
  <2>1. CASE Open(p)
    BY <2>1 DEF Open, kfifo
  <2>2. CASE Release(p)
    BY <2>2 DEF Release, kfifo
  <2>3. CASE WriteCall(p)
    BY <2>3, RingAssumption DEF WriteCall, Call, kfifo
  <2>4. CASE ReadCall(p)
    BY <2>4, RingAssumption DEF ReadCall, Call, kfifo
  <2>5. CASE WriteLockIntr(p) \/ ReadLockIntr(p)
    <3>1. Return(p) /\ UNCHANGED <<kfifo, mutexes, file>>
      BY <2>5 DEF WriteLockIntr, ReadLockIntr
    <3>2. TypeInv'
      BY <3>1 DEF Return, kfifo
    <3>3. CallInv'
      BY <3>1 DEF Return, kfifo
    <3>4. QED
      BY <3>2, <3>3
  <2>6. CASE WriteLock(p)
    BY <2>6 DEF WriteLock, kfifo
  <2>7. CASE ReadLock(p)
    BY <2>7 DEF ReadLock, kfifo
  <2>8. CASE WriteLen(p)
    BY <1>2, <2>8 DEF WriteLen, kfifo, Lesser, RingInv
  <2>9. CASE ReadLen(p)
    BY <1>2, <2>9 DEF ReadLen, kfifo, Lesser
  <2>10. QED
    BY <2>1, <2>2, <2>3, <2>4, <2>5, <2>6, <2>7, <2>8, <2>9 DEF Quiet
<1>5. \A q \in Procs : pc'[q] \in {"w_copy", "r_copy"} /\ q # p =>
        /\ pc'[q] = pc[q] /\ file'[q] = file[q] /\ len'[q] = len[q] /\ done'[q] = done[q]
        /\ got'[q] = got[q] /\ file[q] \in Devs
  BY DEF Quiet, Open, Release, WriteCall, ReadCall, Call, WriteLockIntr, ReadLockIntr,
         WriteLock, ReadLock, WriteLen, ReadLen, Return
<1>6. pc'[p] = "w_copy" => WriteLen(p) \/ UNCHANGED <<pc[p], file[p], len[p], done[p], got[p]>>
  BY DEF Quiet, Open, Release, WriteCall, ReadCall, Call, WriteLockIntr, ReadLockIntr,
         WriteLock, ReadLock, ReadLen, Return
<1>7. pc'[p] = "r_copy" => ReadLen(p) \/ UNCHANGED <<pc[p], file[p], len[p], done[p], got[p]>>
  BY DEF Quiet, Open, Release, WriteCall, ReadCall, Call, WriteLockIntr, ReadLockIntr,
         WriteLock, ReadLock, WriteLen, Return
<1>8. WriterInv'
  <2> SUFFICES ASSUME NEW q \in Procs, pc'[q] = "w_copy"
               PROVE  /\ done'[q] <= len'[q] /\ len'[q] <= Size - Used(file[q])'
                      /\ \A i \in 1 .. done'[q] :
                           buf'[file'[q]][(in'[file'[q]] + i - 1) % Size] = <<q, i>>
    BY DEF WriterInv, Used
  <2>1. CASE UNCHANGED <<pc[q], file[q], len[q], done[q], got[q]>>
    BY <1>1, <2>1 DEF WriterInv, kfifo, Used
  <2>2. CASE q = p /\ WriteLen(p)
    <3>1. /\ file'[q] = file[q] /\ file[q] \in Devs /\ done'[q] = 0
          /\ len'[q] = Lesser(count[q], Size - Used(file[q]))
      BY <2>2 DEF WriteLen
    <3>2. Used(file[q])' = Used(file[q])
      BY <1>1, <3>1 DEF Used, kfifo
    <3>3. QED
      BY <1>2, <3>1, <3>2 DEF Lesser, RingInv
  <2>3. QED
    BY <1>5, <1>6, <2>1, <2>2
<1>9. ReaderInv'
  <2> SUFFICES ASSUME NEW q \in Procs, pc'[q] = "r_copy"
               PROVE  /\ done'[q] <= len'[q] /\ len'[q] <= Used(file[q])'
                      /\ got'[q] = [i \in 1 .. done'[q] |->
                                     buf'[file'[q]][(out'[file'[q]] + i - 1) % Size]]
    BY DEF ReaderInv, Used
  <2>1. CASE UNCHANGED <<pc[q], file[q], len[q], done[q], got[q]>>
    BY <1>1, <2>1 DEF ReaderInv, kfifo, Used
  <2>2. CASE q = p /\ ReadLen(p)
    <3>1. /\ file'[q] = file[q] /\ file[q] \in Devs /\ done'[q] = 0 /\ got'[q] = << >>
          /\ len'[q] = Lesser(count[q], Used(file[q]))
      BY <2>2 DEF ReadLen
    <3>2. Used(file[q])' = Used(file[q])
      BY <1>1, <3>1 DEF Used, kfifo
    <3>3. QED
      BY <1>2, <3>1, <3>2 DEF Lesser
  <2>3. QED
    BY <1>5, <1>7, <2>1, <2>2
<1>10. QED
  BY <1>1, <1>3, <1>4, <1>8, <1>9

\* A byte is read from the head of the queue.
LEMMA ReadByteInd ==
  ASSUME IndInv, NEW p \in Procs, ReadByte(p)
  PROVE  IndInv' /\ UNCHANGED kfifo
<1> USE Sizes DEF IndInv, TypeInv, CallInv, Writing, Reading
<1> DEFINE d == file[p]
           slot(i) == buf[d][(out[d] + i - 1) % Size]
<1>1. /\ pc[p] = "r_copy" /\ done[p] < len[p] /\ d \in Devs
      /\ got' = [got EXCEPT ![p] = Append(got[p], buf[d][(out[d] + done[p]) % Size])]
      /\ done' = [done EXCEPT ![p] = done[p] + 1]
      /\ UNCHANGED <<kfifo, mutexes, file, pc, count, len>>
  BY DEF ReadByte
<1>2. \A e \in Devs : Used(e)' = Used(e)
  BY <1>1 DEF kfifo, Used
<1>3. TypeInv' /\ CallInv' /\ RingInv' /\ UNCHANGED kfifo
  BY <1>1, <1>2 DEF kfifo, mutexes, RingInv
<1>4. WriterInv'
  BY <1>1 DEF kfifo, WriterInv, Used
<1>5. got'[p] = [i \in 1 .. done[p] + 1 |-> slot(i)]
  <2>1. \A i \in 1 .. done[p] + 1 : slot(i) \in Byte
    <3> TAKE i \in 1 .. done[p] + 1
    <3>1. out[d] + i - 1 \in Int
      BY <1>1 DEF Counters
    <3>2. (out[d] + i - 1) % Size \in Slots
      BY <3>1, Types
    <3>3. QED
      BY <1>1, <3>2
  <2>2. got[p] = [i \in 1 .. done[p] |-> slot(i)]
    BY <1>1 DEF ReaderInv
  <2> DEFINE new == [i \in 1 .. done[p] + 1 |-> slot(i)]
  <2>3. got[p] \in Seq(Byte) /\ Len(got[p]) = done[p]
    <3>1. done[p] \in Nat
      OBVIOUS
    <3> HIDE DEF slot
    <3>2. \A i \in 1 .. done[p] : slot(i) \in Byte
      BY <2>1, <3>1
    <3>3. got[p] \in [1 .. done[p] -> Byte]
      BY <2>2, <3>2
    <3> DEFINE n == done[p]
               old == got[p]
    <3>4. n \in Nat /\ old \in [1 .. n -> Byte]
      BY <3>1, <3>3
    <3> HIDE DEF n, old
    <3>5. old \in Seq(Byte) /\ Len(old) = n
      BY <3>4, Sequence
    <3>6. QED
      BY <3>5 DEF n, old
  <2>4. new \in Seq(Byte) /\ Len(new) = done[p] + 1
    <3> DEFINE n == done[p] + 1
    <3>1. n \in Nat
      OBVIOUS
    <3> HIDE DEF slot
    <3>2. new \in [1 .. n -> Byte]
      BY <2>1
    <3> HIDE DEF new, n
    <3>3. new \in Seq(Byte) /\ Len(new) = n
      BY <3>1, <3>2, Sequence
    <3>4. QED
      BY <3>3 DEF n
  <2>5. got'[p] = Append(got[p], slot(done[p] + 1))
    <3>1. out[d] + (done[p] + 1) - 1 = out[d] + done[p]
      BY <1>1 DEF Counters
    <3>2. QED
      BY <1>1, <3>1
  <2>6. slot(done[p] + 1) \in Byte
    BY <1>1, <2>1
  <2>7. \A i \in 1 .. done[p] + 1 : new[i] = slot(i)
    OBVIOUS
  <2>8. \A i \in 1 .. done[p] : got[p][i] = slot(i)
    BY <2>2
  <2> HIDE DEF slot, new
  <2>9. new = Append(got[p], slot(done[p] + 1))
    <3> DEFINE app == Append(got[p], slot(done[p] + 1))
    <3>1. app \in Seq(Byte) /\ Len(app) = done[p] + 1
      BY <2>3, <2>6, AppendProperties
    <3>2. \A i \in 1 .. done[p] : app[i] = got[p][i]
      BY <2>3, <2>6, AppendProperties
    <3>3. app[done[p] + 1] = slot(done[p] + 1)
      BY <2>3, <2>6, AppendProperties
    <3> HIDE DEF app
    <3>4. \A i \in 1 .. done[p] + 1 : new[i] = app[i]
      <4> TAKE i \in 1 .. done[p] + 1
      <4>1. done[p] \in Nat
        OBVIOUS
      <4>2. i \in 1 .. done[p] \/ i = done[p] + 1
        BY <4>1
      <4>3. QED
        BY <2>7, <2>8, <3>2, <3>3, <4>2
    <3>5. new = app
      BY <2>4, <3>1, <3>4, SeqEqual
    <3>6. QED
      BY <3>5 DEF app
  <2>10. QED
    BY <2>5, <2>9 DEF new
<1>6. ReaderInv'
  <2> SUFFICES ASSUME NEW q \in Procs, pc[q] = "r_copy"
               PROVE  /\ done'[q] <= len[q] /\ len[q] <= Used(file[q])
                      /\ got'[q] = [i \in 1 .. done'[q] |->
                                     buf[file[q]][(out[file[q]] + i - 1) % Size]]
    <3>1. pc' = pc /\ file' = file /\ len' = len /\ buf' = buf /\ in' = in /\ out' = out
      BY <1>1 DEF kfifo
    <3>2. \A q \in Procs : Used(file[q])' = Used(file[q])
      BY <3>1 DEF Used
    <3> HIDE DEF IndInv, TypeInv, CallInv
    <3>3. QED
      BY <3>1, <3>2 DEF ReaderInv
  <2>1. CASE q = p
    BY <1>1, <1>5, <2>1 DEF ReaderInv
  <2>2. CASE q # p
    BY <1>1, <2>2 DEF ReaderInv
  <2>3. QED
    BY <2>1, <2>2
<1>7. QED
  BY <1>3, <1>4, <1>6

\* A writer's byte goes to no slot that is unread, nor to one that this writer
\* has filled before.
LEMMA WriteByteSlot ==
  ASSUME IndInv, NEW p \in Procs, WriteByte(p)
  PROVE  LET d == file[p]
             k == (in[d] + done[p]) % Size
         IN  /\ d \in Devs /\ k \in Slots
             /\ \A i \in 1 .. Used(d) : (out[d] + i - 1) % Size # k
             /\ \A i \in 1 .. done[p] : (in[d] + i - 1) % Size # k
<1> USE Sizes DEF IndInv, TypeInv, CallInv, Writing, Reading
<1> DEFINE d == file[p]
           k == (in[d] + done[p]) % Size
<1>1. /\ d \in Devs /\ pc[p] = "w_copy" /\ done[p] \in Nat /\ done[p] < Size - Used(d)
      /\ Used(d) \in Nat
  <2>1. pc[p] = "w_copy" /\ done[p] < len[p] /\ d \in Devs
    BY DEF WriteByte
  <2>2. len[p] <= Size - Used(d)
    BY <2>1 DEF WriterInv
  <2>3. Used(d) \in Nat /\ len[p] \in Nat /\ done[p] \in Nat
    BY <2>1, Types
  <2>4. QED
    BY <2>1, <2>2, <2>3
<1>2. in[d] \in Int /\ out[d] \in Int /\ Size \in Nat \ {0}
  BY <1>1 DEF Counters
<1>3. k \in Slots
  <2>1. in[d] + done[p] \in Int
    BY <1>1, <1>2
  <2>2. QED
    BY <2>1, Types
<1>4. ASSUME NEW i \in 1 .. Used(d) PROVE (out[d] + i - 1) % Size # k
  <2> DEFINE x == out[d] + i - 1
             n == Used(d) + done[p] - i + 1
  <2>1. k = (out[d] + Used(d) + done[p]) % Size
    BY <1>1, BehindSlot
  <2>2. x \in Int /\ n \in 1 .. Size - 1 /\ x + n = out[d] + Used(d) + done[p]
    <3> DEFINE o == out[d]
               u == Used(d)
               v == done[p]
    <3>1. o \in Int /\ u \in Nat /\ v \in Nat /\ v < Size - u /\ i \in 1 .. u
      BY <1>1, <1>2
    <3> HIDE DEF o, u, v
    <3>2. /\ o + i - 1 \in Int /\ u + v - i + 1 \in 1 .. Size - 1
          /\ (o + i - 1) + (u + v - i + 1) = o + u + v
      BY <1>2, <3>1
    <3>3. QED
      BY <3>2 DEF o, u, v
  <2>3. (x + n) % Size # x % Size
    <3> HIDE DEF x, n
    <3>1. QED
      BY <2>2, OtherSlot
  <2>4. k = (x + n) % Size
    BY <2>1, <2>2
  <2>5. QED
    BY <2>3, <2>4
<1>5. ASSUME NEW i \in 1 .. done[p] PROVE (in[d] + i - 1) % Size # k
  <2> DEFINE x == in[d] + i - 1
             n == done[p] - i + 1
  <2>1. x \in Int /\ n \in 1 .. Size - 1 /\ x + n = in[d] + done[p]
    BY <1>1, <1>2
  <2>2. (x + n) % Size # x % Size
    <3> HIDE DEF x, n
    <3>1. QED
      BY <2>1, OtherSlot
  <2>3. k = (x + n) % Size
    BY <2>1
  <2>4. QED
    BY <2>2, <2>3
<1>6. QED
  BY <1>1, <1>3, <1>4, <1>5

\* Writing a byte changes no unread byte.
LEMMA WriteByteInd ==
  ASSUME IndInv, NEW p \in Procs, WriteByte(p)
  PROVE  IndInv' /\ UNCHANGED <<in, out>> /\ \A e \in Devs : \A i \in 1 .. Used(e) :
           buf'[e][(out[e] + i - 1) % Size] = buf[e][(out[e] + i - 1) % Size]
<1> USE Sizes DEF IndInv, TypeInv, CallInv, Writing, Reading
<1> DEFINE d == file[p]
           k == (in[d] + done[p]) % Size
<1>1. /\ pc[p] = "w_copy" /\ done[p] < len[p] /\ d \in Devs
      /\ done' = [done EXCEPT ![p] = done[p] + 1]
      /\ pc' = pc /\ file' = file /\ len' = len /\ in' = in /\ out' = out
      /\ UNCHANGED <<mutexes, count, got>>
  BY DEF WriteByte
<1>2. /\ k \in Slots
      /\ \A i \in 1 .. Used(d) : (out[d] + i - 1) % Size # k
      /\ \A i \in 1 .. done[p] : (in[d] + i - 1) % Size # k
  BY WriteByteSlot
<1>3. buf' = [buf EXCEPT ![d] = [buf[d] EXCEPT ![k] = <<p, done[p] + 1>>]]
  BY DEF WriteByte
<1> HIDE DEF k
<1>4. /\ \A e \in Devs : e # d => buf'[e] = buf[e]
      /\ buf'[d][k] = <<p, done[p] + 1>>
      /\ \A j \in Slots : j # k => buf'[d][j] = buf[d][j]
  BY <1>1, <1>2, <1>3
<1>5. TypeInv' /\ CallInv'
  <2>1. <<p, done[p] + 1>> \in Byte
    BY DEF Byte
  <2>2. buf' \in [Devs -> [Slots -> Byte]]
    BY <1>1, <1>2, <1>3, <2>1
  <2>3. QED
    BY <1>1, <2>2 DEF mutexes
<1>6. \A e \in Devs : Used(e)' = Used(e) /\ Used(e) \in Nat
  BY <1>1, Types DEF Used
<1>7. RingInv'
  BY <1>6 DEF RingInv
<1>8. ASSUME NEW e \in Devs, NEW i \in 1 .. Used(e)
      PROVE  buf'[e][(out[e] + i - 1) % Size] = buf[e][(out[e] + i - 1) % Size]
  <2>1. out[e] + i - 1 \in Int
    BY <1>6 DEF Counters
  <2>2. (out[e] + i - 1) % Size \in Slots
    BY <2>1, Types
  <2>3. QED
    BY <1>2, <1>4, <2>2
<1>9. WriterInv'
  <2> SUFFICES ASSUME NEW q \in Procs, pc[q] = "w_copy"
               PROVE  /\ done'[q] <= len[q] /\ len[q] <= Size - Used(file[q])
                      /\ \A i \in 1 .. done'[q] :
                           buf'[file[q]][(in[file[q]] + i - 1) % Size] = <<q, i>>
    BY <1>1, <1>6 DEF WriterInv, Used
  <2>1. CASE q # p
    <3>1. file[q] # d /\ file[q] \in Devs /\ done'[q] = done[q]
      BY <1>1, <2>1
    <3>2. QED
      BY <1>4, <3>1 DEF WriterInv
  <2>2. CASE q = p
    <3>1. done'[p] = done[p] + 1 /\ done[p] \in Nat /\ len[p] \in Nat
      BY <1>1
    <3>2. ASSUME NEW i \in 1 .. done[p]
          PROVE  buf'[d][(in[d] + i - 1) % Size] = <<p, i>>
      <4>1. in[d] + i - 1 \in Int
        BY <1>1, <3>1 DEF Counters
      <4>2. (in[d] + i - 1) % Size \in Slots
        BY <4>1, Types
      <4>3. QED
        BY <1>1, <1>2, <1>4, <4>2 DEF WriterInv
    <3>3. buf'[d][(in[d] + (done[p] + 1) - 1) % Size] = <<p, done[p] + 1>>
      <4>1. in[d] + (done[p] + 1) - 1 = in[d] + done[p]
        BY <1>1, <3>1 DEF Counters
      <4>2. QED
        BY <1>4, <4>1 DEF k
    <3>4. \A i \in 1 .. done[p] + 1 : i \in 1 .. done[p] \/ i = done[p] + 1
      BY <3>1
    <3>5. QED
      BY <1>1, <2>2, <3>1, <3>2, <3>3, <3>4 DEF WriterInv
  <2>3. QED
    BY <2>1, <2>2
<1>10. ReaderInv'
  <2> SUFFICES ASSUME NEW q \in Procs, pc[q] = "r_copy"
               PROVE  /\ done'[q] <= len[q] /\ len[q] <= Used(file[q])
                      /\ got[q] = [i \in 1 .. done'[q] |->
                                    buf'[file[q]][(out[file[q]] + i - 1) % Size]]
    BY <1>1, <1>6 DEF ReaderInv, Used
  <2>1. done'[q] = done[q] /\ file[q] \in Devs /\ done[q] \in Nat
    BY <1>1
  <2>2. done[q] <= len[q] /\ len[q] <= Used(file[q]) /\ len[q] \in Nat
    BY DEF ReaderInv
  <2>3. \A i \in 1 .. done[q] : i \in 1 .. Used(file[q])
    BY <1>6, <2>1, <2>2
  <2>4. \A i \in 1 .. done[q] : buf'[file[q]][(out[file[q]] + i - 1) % Size]
                                 = buf[file[q]][(out[file[q]] + i - 1) % Size]
    BY <1>8, <2>1, <2>3
  <2>5. got[q] = [i \in 1 .. done[q] |-> buf[file[q]][(out[file[q]] + i - 1) % Size]]
    BY DEF ReaderInv
  <2>6. QED
    BY <2>1, <2>2, <2>4, <2>5
<1>11. QED
  BY <1>1, <1>5, <1>7, <1>8, <1>9, <1>10

\* Publishing what was written adds the first bytes of the caller's buffer
\* behind the unread ones.
LEMMA WritePublishInd ==
  ASSUME IndInv, NEW p \in Procs, WritePublish(p)
  PROVE  LET d == file[p]
             n == done[p]
         IN  /\ IndInv'
             /\ d \in Devs /\ n \in Nat /\ Used(d) + n <= Size
             /\ UNCHANGED <<buf, out>>
             /\ \A e \in Devs : Used(e)' = IF e = d THEN Used(d) + n ELSE Used(e)
             /\ \A i \in 1 .. n : buf[d][(out[d] + Used(d) + i - 1) % Size] = <<p, i>>
<1> USE Sizes DEF IndInv, TypeInv, CallInv, Writing, Reading
<1> DEFINE d == file[p]
           n == done[p]
<1>1. /\ pc[p] = "w_copy" /\ d \in Devs /\ w_f_lock[d] = p
      /\ in' = [in EXCEPT ![d] = (in[d] + n) % CounterMod]
      /\ w_f_lock' = [w_f_lock EXCEPT ![d] = None]
      /\ Return(p) /\ buf' = buf /\ out' = out /\ r_f_lock' = r_f_lock /\ file' = file
  BY DEF WritePublish
<1>2. n \in Nat /\ Used(d) \in Nat /\ Used(d) + n <= Size
  <2>1. n <= len[p] /\ len[p] <= Size - Used(d)
    BY <1>1 DEF WriterInv
  <2>2. Used(d) \in Nat /\ len[p] \in Nat /\ n \in Nat
    BY <1>1, Types
  <2>3. QED
    BY <2>1, <2>2
<1>3. in'[d] \in Counters /\ (in'[d] - out[d]) % CounterMod = Used(d) + n
  <2> DEFINE a == in[d]
             b == out[d]
             u == (a - b) % CounterMod
  <2>1. a \in Counters /\ b \in Counters
    BY <1>1
  <2>2. u = Used(d)
    BY DEF Used
  <2>3. n \in Counters /\ u + n < CounterMod
    BY <1>2, <2>2 DEF Counters
  <2>4. in'[d] = (a + n) % CounterMod
    BY <1>1
  <2>5. a + n \in Int
    BY <1>2, <2>1 DEF Counters
  <2>6. (a + n) % CounterMod \in Counters
    BY <2>5 DEF Counters
  <2> HIDE DEF a, b, n
  <2>7. (((a + n) % CounterMod) - b) % CounterMod = u + n
    BY <2>1, <2>3, Move
  <2>8. QED
    BY <2>2, <2>4, <2>6, <2>7 DEF b
<1>4. \A e \in Devs : e # d => in'[e] = in[e]
  BY <1>1
<1>6. \A e \in Devs : Used(e)' = IF e = d THEN Used(d) + n ELSE Used(e)
  <2> TAKE e \in Devs
  <2>1. Used(e)' = (in'[e] - out[e]) % CounterMod
    BY <1>1 DEF Used
  <2>2. CASE e = d
    BY <1>3, <2>1, <2>2
  <2>3. CASE e # d
    BY <1>4, <2>1, <2>3 DEF Used
  <2>4. QED
    BY <2>2, <2>3
<1>7. TypeInv'
  BY <1>1, <1>3 DEF Return, Goto
<1>8. CallInv'
  BY <1>1 DEF Return, Goto
<1>9. RingInv'
  BY <1>2, <1>6 DEF RingInv, Used
<1>10. \A q \in Procs : q # p => /\ pc'[q] = pc[q] /\ len'[q] = len[q] /\ done'[q] = done[q]
                                 /\ got'[q] = got[q]
  BY <1>1 DEF Return, Goto
<1>11. pc'[p] = "idle"
  BY <1>1 DEF Return, Goto
<1>12. WriterInv'
  <2> SUFFICES ASSUME NEW q \in Procs, pc'[q] = "w_copy"
               PROVE  /\ done'[q] <= len'[q] /\ len'[q] <= Size - Used(file[q])'
                      /\ \A i \in 1 .. done'[q] :
                           buf'[file'[q]][(in'[file'[q]] + i - 1) % Size] = <<q, i>>
    BY DEF WriterInv
  <2>1. q # p /\ pc[q] = "w_copy" /\ file[q] \in Devs /\ file[q] # d
    BY <1>1, <1>10, <1>11
  <2>2. Used(file[q])' = Used(file[q])
    BY <1>1, <1>6, <2>1 DEF Used
  <2>3. QED
    BY <1>1, <1>4, <1>10, <2>1, <2>2 DEF WriterInv
<1>13. ReaderInv'
  <2> SUFFICES ASSUME NEW q \in Procs, pc'[q] = "r_copy"
               PROVE  /\ done'[q] <= len'[q] /\ len'[q] <= Used(file[q])'
                      /\ got'[q] = [i \in 1 .. done'[q] |->
                                     buf'[file'[q]][(out'[file'[q]] + i - 1) % Size]]
    BY DEF ReaderInv
  <2>1. q # p /\ pc[q] = "r_copy" /\ file[q] \in Devs
    BY <1>10, <1>11
  <2>2. Used(file[q])' = IF file[q] = d THEN Used(d) + n ELSE Used(file[q])
    BY <1>1, <1>6, <2>1 DEF Used
  <2>3. len[q] <= Used(file[q])' /\ done[q] <= len[q]
    <3>1. len[q] <= Used(file[q]) /\ done[q] <= len[q] /\ len[q] \in Nat
      BY <2>1 DEF ReaderInv
    <3>2. QED
      BY <1>2, <2>2, <3>1
  <2>4. done'[q] = done[q] /\ len'[q] = len[q] /\ got'[q] = got[q] /\ file'[q] = file[q]
    BY <1>1, <1>10, <2>1
  <2>5. got[q] = [i \in 1 .. done[q] |-> buf[file[q]][(out[file[q]] + i - 1) % Size]]
    BY <2>1 DEF ReaderInv
  <2>6. QED
    BY <1>1, <2>3, <2>4, <2>5
<1>14. ASSUME NEW i \in 1 .. n
       PROVE  buf[d][(out[d] + Used(d) + i - 1) % Size] = <<p, i>>
  <2>1. buf[d][(in[d] + i - 1) % Size] = <<p, i>>
    BY <1>1 DEF WriterInv
  <2>2. in[d] \in Int /\ out[d] \in Int /\ i \in Int /\ i - 1 \in Int
    BY <1>1, <1>2 DEF Counters
  <2>3. (in[d] + (i - 1)) % Size = (out[d] + Used(d) + (i - 1)) % Size
    BY <1>1, <2>2, BehindSlot
  <2>4. /\ in[d] + (i - 1) = in[d] + i - 1
        /\ out[d] + Used(d) + (i - 1) = out[d] + Used(d) + i - 1
    BY <1>2, <2>2
  <2>5. QED
    BY <2>1, <2>3, <2>4
<1>15. QED
  BY <1>1, <1>2, <1>4, <1>6, <1>7, <1>8, <1>9, <1>12, <1>13, <1>14

\* Publishing what was read takes bytes from the head.
LEMMA ReadPublishInd ==
  ASSUME IndInv, NEW p \in Procs, ReadPublish(p)
  PROVE  LET d == file[p]
             n == done[p]
         IN  /\ IndInv'
             /\ d \in Devs /\ n \in Nat /\ n <= Used(d)
             /\ UNCHANGED buf
             /\ \A e \in Devs : Used(e)' = IF e = d THEN Used(d) - n ELSE Used(e)
             /\ \A e \in Devs : e # d => out'[e] = out[e]
             /\ \A i \in Nat : (out'[d] + i - 1) % Size = (out[d] + (n + i) - 1) % Size
<1> USE Sizes DEF IndInv, TypeInv, CallInv, Writing, Reading
<1> DEFINE d == file[p]
           n == done[p]
<1>1. /\ pc[p] = "r_copy" /\ d \in Devs /\ r_f_lock[d] = p
      /\ out' = [out EXCEPT ![d] = (out[d] + n) % CounterMod]
      /\ r_f_lock' = [r_f_lock EXCEPT ![d] = None]
      /\ Return(p) /\ buf' = buf /\ in' = in /\ w_f_lock' = w_f_lock /\ file' = file
  BY DEF ReadPublish
<1>2. n \in Nat /\ Used(d) \in Nat /\ n <= Used(d) /\ Used(d) < CounterMod
  <2>1. n <= len[p] /\ len[p] <= Used(d)
    BY <1>1 DEF ReaderInv
  <2>2. Used(d) \in Counters /\ Used(d) \in Nat /\ len[p] \in Nat /\ n \in Nat
    BY <1>1, Types
  <2>3. QED
    BY <2>1, <2>2 DEF Counters
<1>3. out'[d] \in Counters /\ (in[d] - out'[d]) % CounterMod = Used(d) - n
  <2> DEFINE a == in[d]
             b == out[d]
             u == (a - b) % CounterMod
  <2>1. a \in Counters /\ b \in Counters
    BY <1>1
  <2>2. u = Used(d)
    BY DEF Used
  <2>3. n \in Counters /\ n <= u
    BY <1>2, <2>2 DEF Counters
  <2>4. out'[d] = (b + n) % CounterMod
    BY <1>1
  <2>5. b + n \in Int
    BY <1>2, <2>1 DEF Counters
  <2>6. (b + n) % CounterMod \in Counters
    BY <2>5 DEF Counters
  <2> HIDE DEF a, b, n
  <2>7. (a - ((b + n) % CounterMod)) % CounterMod = u - n
    BY <2>1, <2>3, Move
  <2>8. QED
    BY <2>2, <2>4, <2>6, <2>7 DEF a
<1>4. \A e \in Devs : e # d => out'[e] = out[e]
  BY <1>1
<1>5. \A e \in Devs : Used(e)' = IF e = d THEN Used(d) - n ELSE Used(e)
  <2> TAKE e \in Devs
  <2>1. Used(e)' = (in[e] - out'[e]) % CounterMod
    BY <1>1 DEF Used
  <2>2. CASE e = d
    BY <1>3, <2>1, <2>2
  <2>3. CASE e # d
    BY <1>4, <2>1, <2>3 DEF Used
  <2>4. QED
    BY <2>2, <2>3
<1>6. TypeInv'
  BY <1>1, <1>3 DEF Return, Goto
<1>7. CallInv'
  BY <1>1 DEF Return, Goto
<1>8. RingInv'
  <2> SUFFICES ASSUME NEW e \in Devs PROVE Used(e)' <= Size
    BY DEF RingInv
  <2>1. Used(e) <= Size /\ Used(e) \in Nat
    BY Types DEF RingInv
  <2>2. CASE e = d
    <3>1. Used(e)' = Used(e) - n
      BY <1>5, <2>2
    <3>2. QED
      BY <1>2, <2>1, <3>1
  <2>3. CASE e # d
    BY <1>5, <2>1, <2>3
  <2>4. QED
    BY <2>2, <2>3
<1>9. \A q \in Procs : q # p => /\ pc'[q] = pc[q] /\ len'[q] = len[q] /\ done'[q] = done[q]
                                /\ got'[q] = got[q]
  BY <1>1 DEF Return, Goto
<1>10. pc'[p] = "idle"
  BY <1>1 DEF Return, Goto
<1>11. WriterInv'
  <2> SUFFICES ASSUME NEW q \in Procs, pc'[q] = "w_copy"
               PROVE  /\ done'[q] <= len'[q] /\ len'[q] <= Size - Used(file[q])'
                      /\ \A i \in 1 .. done'[q] :
                           buf'[file'[q]][(in'[file'[q]] + i - 1) % Size] = <<q, i>>
    BY DEF WriterInv
  <2>1. q # p /\ pc[q] = "w_copy" /\ file[q] \in Devs
    BY <1>9, <1>10
  <2>2. Used(file[q])' = IF file[q] = d THEN Used(d) - n ELSE Used(file[q])
    BY <1>1, <1>5, <2>1 DEF Used
  <2>3. len[q] <= Size - Used(file[q])' /\ done[q] <= len[q]
    <3>1. len[q] <= Size - Used(file[q]) /\ done[q] <= len[q] /\ len[q] \in Nat
      BY <2>1 DEF WriterInv
    <3>2. Used(file[q]) \in Nat
      BY <2>1, Types
    <3>3. QED
      BY <1>2, <2>2, <3>1, <3>2
  <2>4. done'[q] = done[q] /\ len'[q] = len[q] /\ file'[q] = file[q]
    BY <1>1, <1>9, <2>1
  <2>5. \A i \in 1 .. done[q] : buf[file[q]][(in[file[q]] + i - 1) % Size] = <<q, i>>
    BY <2>1 DEF WriterInv
  <2>6. QED
    BY <1>1, <2>3, <2>4, <2>5
<1>12. ReaderInv'
  <2> SUFFICES ASSUME NEW q \in Procs, pc'[q] = "r_copy"
               PROVE  /\ done'[q] <= len'[q] /\ len'[q] <= Used(file[q])'
                      /\ got'[q] = [i \in 1 .. done'[q] |->
                                     buf'[file'[q]][(out'[file'[q]] + i - 1) % Size]]
    BY DEF ReaderInv
  <2>1. q # p /\ pc[q] = "r_copy" /\ file[q] \in Devs /\ file[q] # d
    BY <1>1, <1>9, <1>10
  <2>2. Used(file[q])' = Used(file[q])
    BY <1>1, <1>5, <2>1 DEF Used
  <2>3. /\ done'[q] = done[q] /\ len'[q] = len[q] /\ got'[q] = got[q] /\ file'[q] = file[q]
        /\ out'[file[q]] = out[file[q]]
    BY <1>1, <1>4, <1>9, <2>1
  <2>4. /\ got[q] = [i \in 1 .. done[q] |-> buf[file[q]][(out[file[q]] + i - 1) % Size]]
        /\ done[q] <= len[q] /\ len[q] <= Used(file[q])
    BY <2>1 DEF ReaderInv
  <2>5. buf'[file'[q]] = buf[file[q]] /\ out'[file'[q]] = out[file[q]]
    BY <1>1, <2>3
  <2>6. done'[q] <= len'[q] /\ len'[q] <= Used(file[q])'
    BY <2>2, <2>3, <2>4
  <2>7. QED
    BY <2>3, <2>4, <2>5, <2>6
<1>13. ASSUME NEW i \in Nat PROVE (out'[d] + i - 1) % Size = (out[d] + (n + i) - 1) % Size
  <2> DEFINE x == out[d] + n
             k == i - 1
  <2>1. x \in Int /\ k \in Int /\ out[d] \in Int /\ out'[d] \in Int
    <3>1. out[d] \in Counters /\ out'[d] \in Counters
      BY <1>1, <1>6
    <3> HIDE DEF n
    <3>2. out[d] \in Int /\ out'[d] \in Int
      BY <3>1 DEF Counters
    <3>3. x \in Int
      BY <1>2, <3>2
    <3>4. QED
      BY <3>2, <3>3
  <2>2. ((x % CounterMod) + k) % Size = (x + k) % Size
    <3> HIDE DEF x, k
    <3>1. QED
      BY <2>1, CounterSlot
  <2>3. out'[d] = x % CounterMod
    BY <1>1
  <2>4. out'[d] + k = out'[d] + i - 1 /\ x + k = out[d] + (n + i) - 1
    <3> DEFINE o == out[d]
               w == out'[d]
    <3>1. o \in Int /\ w \in Int /\ n \in Nat
      BY <1>2, <2>1
    <3> HIDE DEF o, w, n
    <3>2. w + (i - 1) = w + i - 1 /\ (o + n) + (i - 1) = o + (n + i) - 1
      BY <3>1
    <3>3. QED
      BY <3>2 DEF o, w, n
  <2>5. QED
    BY <2>2, <2>3, <2>4
<1>14. QED
  BY <1>1, <1>2, <1>4, <1>5, <1>6, <1>7, <1>8, <1>11, <1>12, <1>13

\* The invariant holds in every state.
LEMMA Invariance == Spec => []IndInv
<1>1. IndInv /\ [Next]_vars => IndInv'
  <2> SUFFICES ASSUME IndInv, [Next]_vars PROVE IndInv'
    OBVIOUS
  <2>1. CASE UNCHANGED vars
    BY <2>1 DEF vars, kfifo, mutexes, IndInv, TypeInv, CallInv, RingInv, WriterInv, ReaderInv, Used
  <2>2. CASE Next
    <3>1. PICK p \in Procs : Environment(p) \/ Acquire(p) \/ Driver(p)
      BY <2>2 DEF Next
    <3>2. Quiet(p) \/ ReadByte(p) \/ WriteByte(p) \/ WritePublish(p) \/ ReadPublish(p)
      BY <3>1 DEF Environment, Acquire, Driver, Quiet
    <3>3. QED
      BY <3>2, QuietInd, ReadByteInd, WriteByteInd, WritePublishInd, ReadPublishInd
  <2>3. QED
    BY <2>1, <2>2
<1>2. QED
  BY InitInd, <1>1, PTL DEF Spec

\* The contents are a sequence of bytes.
LEMMA ContentsSeq ==
  ASSUME TypeInv, NEW d \in Devs
  PROVE  /\ Contents(d) \in Seq(Byte) /\ Len(Contents(d)) = Used(d)
         /\ \A i \in 1 .. Used(d) : Contents(d)[i] = buf[d][(out[d] + i - 1) % Size]
         /\ Contents(d) \in [1 .. Used(d) -> Byte]
<1>1. Used(d) \in Nat
  BY Types
<1>2. ASSUME NEW i \in 1 .. Used(d) PROVE buf[d][(out[d] + i - 1) % Size] \in Byte
  <2>1. out[d] + i - 1 \in Int
    BY <1>1 DEF TypeInv, Counters
  <2>2. (out[d] + i - 1) % Size \in Slots
    BY <2>1, Types
  <2>3. QED
    BY <2>2 DEF TypeInv
<1>3. /\ Contents(d) \in [1 .. Used(d) -> Byte]
      /\ \A i \in 1 .. Used(d) : Contents(d)[i] = buf[d][(out[d] + i - 1) % Size]
  BY <1>2 DEF Contents
<1> DEFINE c == Contents(d)
           u == Used(d)
<1>4. u \in Nat /\ c \in [1 .. u -> Byte]
  BY <1>1, <1>3
<1> HIDE DEF c, u
<1>5. c \in Seq(Byte) /\ Len(c) = u
  BY <1>4, Sequence
<1>6. QED
  BY <1>3, <1>5 DEF c, u

\* What a reader has copied is the head of the queue in every state: no writer
\* reuses a slot under it, whatever the size of the ring, the counts, the faults
\* and the wrapping of the counters (kfifo_to_user in the read functions).
THEOREM ReadersAtHead == Spec => []ReadsHead
<1>1. IndInv => ReadsHead
  <2> SUFFICES ASSUME IndInv, NEW p \in Procs, pc[p] = "r_copy"
               PROVE  len[p] <= Used(file[p]) /\ got[p] = SubSeq(Contents(file[p]), 1, done[p])
    BY DEF ReadsHead
  <2> DEFINE c == Contents(file[p])
             u == Used(file[p])
             n == done[p]
  <2>1. /\ file[p] \in Devs /\ n <= len[p] /\ len[p] <= u /\ n \in Nat /\ len[p] \in Nat /\ u \in Nat
        /\ got[p] = [i \in 1 .. n |-> buf[file[p]][(out[file[p]] + i - 1) % Size]]
    <3>1. file[p] \in Devs /\ n \in Nat /\ len[p] \in Nat
      BY DEF IndInv, TypeInv, CallInv
    <3>2. QED
      BY <3>1, Types DEF IndInv, ReaderInv
  <2>2. /\ c \in Seq(Byte) /\ Len(c) = u
        /\ \A i \in 1 .. u : c[i] = buf[file[p]][(out[file[p]] + i - 1) % Size]
    BY <2>1, ContentsSeq DEF IndInv
  <2>3. n <= u
    BY <2>1
  <2>4. got[p] = [i \in 1 .. n |-> c[i]]
    <3> HIDE DEF c
    <3>1. QED
      BY <2>1, <2>2, <2>3
  <2>5. SubSeq(c, 1, n) = [i \in 1 .. n |-> c[i]]
    <3> HIDE DEF c, u, n
    <3>1. QED
      BY <2>1, <2>2, <2>3
  <2>6. QED
    BY <2>1, <2>4, <2>5
<1>2. QED
  BY Invariance, <1>1, PTL
-----------------------------------------------------------------------------
(* The refinement *)

Queue == [d \in Devs |-> Contents(d)]

\* Steps that leave lengths and unread bytes alone leave the queues alone.
LEMMA SameQueue ==
  ASSUME \A e \in Devs : Used(e)' = Used(e),
         \A e \in Devs : \A i \in 1 .. Used(e) :
           buf'[e][(out'[e] + i - 1) % Size] = buf[e][(out[e] + i - 1) % Size]
  PROVE  UNCHANGED Queue
<1>1. ASSUME NEW e \in Devs PROVE Contents(e)' = Contents(e)
  <2>1. Contents(e)' = [i \in 1 .. Used(e)' |-> buf'[e][(out'[e] + i - 1) % Size]]
    BY DEF Contents
  <2>2. Used(e)' = Used(e)
    OBVIOUS
  <2>3. QED
    BY <2>1, <2>2 DEF Contents
<1>2. QED
  BY <1>1 DEF Queue

\* A change of one queue is a change of the function of queues.
LEMMA OneQueue ==
  ASSUME NEW d \in Devs, NEW new,
         \A e \in Devs : Contents(e)' = IF e = d THEN new ELSE Contents(e)
  PROVE  Queue' = [Queue EXCEPT ![d] = new]
BY DEF Queue

\* Publishing a write is one Put, or nothing if nothing was copied.
LEMMA PutStep ==
  ASSUME IndInv, NEW p \in Procs, WritePublish(p)
  PROVE  Fifo!Next \/ UNCHANGED Queue
<1> DEFINE d == file[p]
           n == done[p]
           u == Used(d)
           old == Contents(d)
           chunk == [i \in 1 .. n |-> <<p, i>>]
           new == [i \in 1 .. u + n |-> buf[d][(out[d] + i - 1) % Size]]
<1>1. /\ d \in Devs /\ n \in Nat /\ u + n <= Size /\ buf' = buf /\ out' = out
      /\ \A e \in Devs : Used(e)' = IF e = d THEN u + n ELSE Used(e)
      /\ \A i \in 1 .. n : buf[d][(out[d] + u + i - 1) % Size] = <<p, i>>
  BY WritePublishInd
<1>2. u \in Nat /\ out[d] \in Int
  BY <1>1, Types DEF IndInv, TypeInv, Counters
<1>3. CASE n = 0
  <2>1. \A e \in Devs : Used(e)' = Used(e)
    <3>1. u + n = u
      BY <1>2, <1>3
    <3>2. QED
      BY <1>1, <3>1
  <2>2. QED
    BY <1>1, <2>1, SameQueue
<1>4. CASE n # 0
  <2>1. /\ old \in Seq(Byte) /\ Len(old) = u
        /\ \A i \in 1 .. u : old[i] = buf[d][(out[d] + i - 1) % Size]
    BY <1>1, ContentsSeq DEF IndInv
  <2>2. chunk \in Seq(Byte) /\ Len(chunk) = n
    <3>1. chunk \in [1 .. n -> Byte]
      BY <1>1 DEF Byte
    <3> HIDE DEF chunk, n
    <3>2. QED
      BY <1>1, <3>1, Sequence
  <2>3. \A i \in 1 .. u + n : new[i] = IF i <= u THEN old[i] ELSE chunk[i - u]
    <3> TAKE i \in 1 .. u + n
    <3>1. new[i] = buf[d][(out[d] + i - 1) % Size]
      OBVIOUS
    <3>2. CASE i <= u
      <4>1. i \in 1 .. u
        BY <1>1, <1>2, <3>2
      <4>2. QED
        BY <2>1, <3>1, <3>2, <4>1
    <3>3. CASE ~(i <= u)
      <4> DEFINE o == out[d]
                 j == i - u
      <4>1. o \in Int /\ u \in Nat /\ n \in Nat
        BY <1>1, <1>2
      <4>2. j \in 1 .. n /\ o + u + j - 1 = o + i - 1
        <5> HIDE DEF o, u, n
        <5>1. QED
          BY <3>3, <4>1
      <4>3. new[i] = <<p, j>>
        BY <1>1, <3>1, <4>2
      <4>4. chunk[j] = <<p, j>>
        BY <4>2
      <4>5. QED
        BY <3>3, <4>3, <4>4
    <3>4. QED
      BY <3>2, <3>3
  <2>4. new \in Seq(Byte) /\ Len(new) = u + n
    <3>1. \A i \in 1 .. u + n : new[i] \in Byte
      <4> TAKE i \in 1 .. u + n
      <4>1. CASE i <= u
        <5>1. i \in 1 .. u
          BY <1>1, <1>2, <4>1
        <5>2. old[i] \in Byte
          BY <2>1, <5>1, ElementOfSeq
        <5>3. QED
          BY <2>3, <4>1, <5>2
      <4>2. CASE ~(i <= u)
        <5>1. i - u \in 1 .. n
          BY <1>1, <1>2, <4>2
        <5>2. chunk[i - u] \in Byte
          BY <2>2, <5>1, ElementOfSeq
        <5>3. QED
          BY <2>3, <4>2, <5>2
      <4>3. QED
        BY <4>1, <4>2
    <3>2. DOMAIN new = 1 .. u + n /\ new = [i \in 1 .. u + n |-> new[i]] /\ u + n \in Nat
      BY <1>1, <1>2
    <3> DEFINE m == u + n
    <3>3. m \in Nat /\ new \in [1 .. m -> Byte]
      BY <3>1, <3>2
    <3> HIDE DEF m, new
    <3>4. new \in Seq(Byte) /\ Len(new) = m
      BY <3>3, Sequence
    <3>5. QED
      BY <3>4 DEF m
  <2>5. new = old \o chunk
    <3> HIDE DEF new, old, chunk, u, n
    <3>1. /\ old \o chunk \in Seq(Byte) /\ Len(old \o chunk) = u + n
          /\ \A i \in 1 .. u + n : (old \o chunk)[i] = IF i <= u THEN old[i] ELSE chunk[i - u]
      BY <2>1, <2>2, ConcatProperties
    <3>2. QED
      BY <2>3, <2>4, <3>1, SeqEqual
  <2>6. \A e \in Devs : Contents(e)' = IF e = d THEN new ELSE Contents(e)
    <3> TAKE e \in Devs
    <3>1. Contents(e)' = [i \in 1 .. Used(e)' |-> buf[e][(out[e] + i - 1) % Size]]
      BY <1>1 DEF Contents
    <3>2. CASE e = d
      BY <1>1, <3>1, <3>2
    <3>3. CASE e # d
      BY <1>1, <3>1, <3>3 DEF Contents
    <3>4. QED
      BY <3>2, <3>3
  <2>7. Queue' = [Queue EXCEPT ![d] = old \o chunk]
    <3> HIDE DEF d, new, old, chunk
    <3>1. QED
      BY <1>1, <2>5, <2>6, OneQueue
  <2>8. Queue[d] = old
    BY <1>1 DEF Queue
  <2>9. n \in 1 .. Size /\ Len(Queue[d]) + n <= Size
    <3> HIDE DEF n, u, old, d
    <3>1. QED
      BY <1>1, <1>2, <1>4, <2>1, <2>8, Sizes
  <2>10. Fifo!Put(d, p, n)
    <3>1. Fifo!Chunk(p, n) = chunk
      BY DEF Fifo!Chunk
    <3>2. Queue' = [Queue EXCEPT ![d] = Queue[d] \o Fifo!Chunk(p, n)]
      BY <2>7, <2>8, <3>1
    <3> HIDE DEF d, n, old, chunk
    <3>3. QED
      BY <2>9, <3>2 DEF Fifo!Put, Queue
  <2>11. QED
    BY <1>1, <2>9, <2>10 DEF Fifo!Next
<1>5. QED
  BY <1>3, <1>4

\* Publishing a read is one Get, or nothing if nothing was copied.
LEMMA GetStep ==
  ASSUME IndInv, NEW p \in Procs, ReadPublish(p)
  PROVE  Fifo!Next \/ UNCHANGED Queue
<1> DEFINE d == file[p]
           n == done[p]
           u == Used(d)
           old == Contents(d)
           new == [i \in 1 .. u - n |-> old[i + n]]
<1>1. /\ d \in Devs /\ n \in Nat /\ n <= u /\ buf' = buf
      /\ \A e \in Devs : Used(e)' = IF e = d THEN u - n ELSE Used(e)
      /\ \A e \in Devs : e # d => out'[e] = out[e]
      /\ \A i \in Nat : (out'[d] + i - 1) % Size = (out[d] + (n + i) - 1) % Size
  BY ReadPublishInd
<1>2. u \in Nat /\ u <= Size
  BY <1>1, Types DEF IndInv, RingInv
<1>3. /\ old \in Seq(Byte) /\ Len(old) = u
      /\ \A i \in 1 .. u : old[i] = buf[d][(out[d] + i - 1) % Size]
  BY <1>1, ContentsSeq DEF IndInv
<1>4. \A e \in Devs : Contents(e)' = IF e = d THEN new ELSE Contents(e)
  <2> TAKE e \in Devs
  <2>1. Contents(e)' = [i \in 1 .. Used(e)' |-> buf[e][(out'[e] + i - 1) % Size]]
    BY <1>1 DEF Contents
  <2>2. CASE e = d
    <3>1. ASSUME NEW i \in 1 .. u - n PROVE buf[e][(out'[e] + i - 1) % Size] = old[i + n]
      <4>1. i \in Nat /\ n + i = i + n /\ n + i \in 1 .. u
        <5> HIDE DEF u, n
        <5>1. QED
          BY <1>1, <1>2
      <4>2. (out'[d] + i - 1) % Size = (out[d] + (n + i) - 1) % Size
        BY <1>1, <4>1
      <4>3. old[n + i] = buf[d][(out[d] + (n + i) - 1) % Size]
        <5> HIDE DEF old, n, u
        <5>1. QED
          BY <1>3, <4>1
      <4> HIDE DEF old, n, d
      <4>4. QED
        BY <2>2, <4>1, <4>2, <4>3
    <3>2. Used(e)' = u - n
      BY <1>1, <2>2
    <3> HIDE DEF u, n, old
    <3>3. QED
      BY <2>1, <2>2, <3>1, <3>2
  <2>3. CASE e # d
    BY <1>1, <2>1, <2>3 DEF Contents
  <2>4. QED
    BY <2>2, <2>3
<1>5. new = SubSeq(old, n + 1, u)
  <2> HIDE DEF old, n, u
  <2>1. QED
    BY <1>1, <1>2, <1>3
<1>6. Queue' = [Queue EXCEPT ![d] = SubSeq(old, n + 1, u)]
  <2> HIDE DEF d, new, old, n, u
  <2>1. QED
    BY <1>1, <1>4, <1>5, OneQueue
<1>7. Queue[d] = old /\ Len(Queue[d]) = u
  BY <1>1, <1>3 DEF Queue
<1>8. CASE n # 0
  <2>1. n \in 1 .. Size
    <3> HIDE DEF n, u
    <3>1. QED
      BY <1>1, <1>2, <1>8, Sizes
  <2>2. Fifo!Get(d, n)
    <3>1. Queue' = [Queue EXCEPT ![d] = SubSeq(Queue[d], n + 1, Len(Queue[d]))]
      BY <1>6, <1>7
    <3>2. n <= Len(Queue[d])
      BY <1>1, <1>7
    <3> HIDE DEF d, n, old, u
    <3>3. QED
      BY <3>1, <3>2 DEF Fifo!Get, Queue
  <2>3. QED
    BY <1>1, <2>1, <2>2 DEF Fifo!Next
<1>9. CASE n = 0
  <2>1. SubSeq(old, n + 1, u) = old
    <3> HIDE DEF old, n, u
    <3>1. QED
      BY <1>2, <1>3, <1>9
  <2>2. Queue' = Queue
    <3> HIDE DEF d, old, n, u
    <3>1. QED
      BY <1>1, <1>6, <1>7, <2>1 DEF Queue
  <2>3. QED
    BY <2>2
<1>10. QED
  BY <1>8, <1>9

\* Every device of the fifo drivers is a bounded first-in first-out queue, for
\* every size of the ring, counter width, number of processes and devices: each
\* step of the byte-wise code with its two mutexes (driver_write_fifo and
\* driver_read_fifo) is a Put of one unbroken piece, a Get from the head, or invisible.
THEOREM ImplementsFifo == Spec => IsBoundedFifo
<1>1. Init => Fifo!Init
  <2> SUFFICES ASSUME Init PROVE Queue = [d \in Devs |-> << >>]
    BY DEF Fifo!Init, Queue
  <2>1. ASSUME NEW d \in Devs PROVE Contents(d) = << >>
    <3>1. Used(d) = 0
      BY Sizes DEF Init, Used
    <3>2. QED
      BY <3>1 DEF Contents
  <2>2. QED
    BY <2>1 DEF Queue
<1>2. IndInv /\ [Next]_vars => Fifo!Next \/ UNCHANGED Queue
  <2> SUFFICES ASSUME IndInv, [Next]_vars PROVE Fifo!Next \/ UNCHANGED Queue
    OBVIOUS
  <2>1. ASSUME UNCHANGED kfifo PROVE UNCHANGED Queue
    BY <2>1, SameQueue DEF kfifo, Used
  <2>2. CASE UNCHANGED vars
    BY <2>1, <2>2 DEF vars
  <2>3. CASE Next
    <3>1. PICK p \in Procs : Environment(p) \/ Acquire(p) \/ Driver(p)
      BY <2>3 DEF Next
    <3>2. Quiet(p) \/ ReadByte(p) \/ WriteByte(p) \/ WritePublish(p) \/ ReadPublish(p)
      BY <3>1 DEF Environment, Acquire, Driver, Quiet
    <3>3. CASE Quiet(p) \/ ReadByte(p)
      BY <2>1, <3>3, QuietInd, ReadByteInd
    <3>4. CASE WriteByte(p)
      <4>1. in' = in /\ out' = out /\ \A e \in Devs : \A i \in 1 .. Used(e) :
              buf'[e][(out[e] + i - 1) % Size] = buf[e][(out[e] + i - 1) % Size]
        BY <3>4, WriteByteInd
      <4>2. \A e \in Devs : Used(e)' = Used(e)
        BY <4>1 DEF Used
      <4>3. QED
        BY <4>1, <4>2, SameQueue
    <3>5. QED
      BY <3>2, <3>3, <3>4, PutStep, GetStep
  <2>4. QED
    BY <2>2, <2>3
<1>3. IndInv /\ [Next]_vars => [Fifo!Next]_Queue
  BY <1>2
<1>4. QED
  BY <1>1, <1>3, Invariance, PTL DEF Spec, IsBoundedFifo, Fifo!Spec, Queue
-----------------------------------------------------------------------------
(* Ramdisk *)

\* How many sectors a request has that is cut in this way.
Last(ends) == ends[Len(ends)]

Bufs == UNION {[1 .. n -> SectorValues] : n \in 0 .. NrSectors}

Records == [at : {"queued", "started"}, dir : {"read", "write"}, sector : Nat,
            buf : Bufs, ends : Shapes, iter : Nat, pos : Nat]

\* A request lies on the disk, its buffer has its length, and pos is as far in the
\* request as the segment at hand is in the buffer.
Sound(q) ==
  /\ q \in Records
  /\ q.buf \in [1 .. Last(q.ends) -> SectorValues]
  /\ q.sector + Last(q.ends) <= NrSectors
  /\ q.iter \in 1 .. Len(q.ends) + 1
  /\ q.at = "queued" => q.iter = 1
  /\ q.at = "started" => q.pos = q.sector + B_buf(q)

RqInv ==
  /\ data \in [0 .. NrSectors - 1 -> SectorValues]
  /\ DOMAIN rq = Reqs /\ \A r \in Reqs : rq[r] = NoRq \/ Sound(rq[r])

\* The memory is freed when no request is left and none can come.
ExitInv ==
  /\ exit_pc \in {"free", "gone"} => \A r \in Reqs : rq[r] = NoRq
  /\ freed = FALSE \/ exit_pc = "gone"

DiskInd == RqInv /\ ExitInv

\* What RamdiskAssumption says of a cut.
LEMMA Cuts ==
  ASSUME NEW ends \in Shapes
  PROVE  /\ Len(ends) \in Nat /\ Len(ends) >= 1 /\ DOMAIN ends = 1 .. Len(ends)
         /\ \A i \in 1 .. Len(ends) : ends[i] \in Nat /\ 1 <= ends[i] /\ ends[i] <= Last(ends)
         /\ \A i \in 1 .. Len(ends) : i > 1 => ends[i - 1] < ends[i]
         /\ Last(ends) \in 1 .. NrSectors
<1> DEFINE n == Len(ends)
<1>1. /\ ends \in Seq(1 .. NrSectors) /\ ends # <<>>
      /\ \A i, j \in DOMAIN ends : i < j => ends[i] < ends[j]
  BY RamdiskAssumption
<1>2. n \in Nat /\ n >= 1 /\ DOMAIN ends = 1 .. n
  BY <1>1
<1>3. \A i \in 1 .. n : ends[i] \in 1 .. NrSectors
  BY <1>1, ElementOfSeq
<1> HIDE DEF n
<1>4. n \in 1 .. n
  BY <1>2
<1>5. \A i \in 1 .. n : ends[i] \in Nat /\ 1 <= ends[i] /\ ends[i] <= ends[n]
  <2> TAKE i \in 1 .. n
  <2>1. ends[i] \in Nat /\ 1 <= ends[i] /\ ends[n] \in Nat
    BY <1>3, <1>4
  <2>2. i = n \/ i < n
    BY <1>2
  <2>3. CASE i = n
    BY <2>1, <2>3
  <2>4. CASE i < n
    BY <1>1, <1>2, <1>4, <2>1, <2>4
  <2>5. QED
    BY <2>2, <2>3, <2>4
<1>6. \A i \in 1 .. n : i > 1 => ends[i - 1] < ends[i]
  BY <1>1, <1>2
<1>7. QED
  BY <1>2, <1>3, <1>4, <1>5, <1>6 DEF Last, n

\* Where a segment that is about to be copied lies: behind what was moved, inside
\* the request and inside the disk.
LEMMA SegmentPlace ==
  ASSUME NEW q, Sound(q), q.at = "started", q.iter <= Len(q.ends)
  PROVE  /\ q.pos = q.sector + B_buf(q)
         /\ B_buf(q) \in Nat /\ B_len(q) \in Nat /\ B_len(q) > 0
         /\ B_buf(q) + B_len(q) = q.ends[q.iter]
         /\ B_buf(q) + B_len(q) <= Last(q.ends)
<1> DEFINE ends == q.ends
           i == q.iter
           o == B_buf(q)
<1>1. /\ ends \in Shapes /\ q.sector + Last(ends) <= NrSectors
      /\ i \in 1 .. Len(ends) + 1 /\ q.pos = q.sector + o
      /\ q.sector \in Nat /\ q.pos \in Nat
  BY DEF Sound, Records
<1>2. Len(ends) \in Nat /\ i \in 1 .. Len(ends) /\ Last(ends) \in Nat
  BY <1>1, Cuts
<1>3. o \in Nat /\ o < ends[i] /\ ends[i] \in Nat /\ ends[i] <= Last(ends)
  <2>1. ends[i] \in Nat /\ 1 <= ends[i] /\ ends[i] <= Last(ends)
    BY <1>1, <1>2, Cuts
  <2>2. CASE i = 1
    BY <2>1, <2>2 DEF B_buf
  <2>3. CASE i # 1
    <3>1. i > 1 /\ i - 1 \in 1 .. Len(ends) /\ o = ends[i - 1]
      BY <1>2, <2>3 DEF B_buf
    <3>2. QED
      BY <1>1, <1>2, <2>1, <3>1, Cuts
  <2>4. QED
    BY <2>2, <2>3
<1>4. B_len(q) = ends[i] - o
  <2> DEFINE s == q.sector
             p == q.pos
             e == ends[i]
             l == Last(ends)
  <2>1. /\ s \in Nat /\ p \in Nat /\ e \in Nat /\ l \in Nat /\ o \in Nat
        /\ s + l <= NrSectors /\ p = s + o /\ e <= l
    BY <1>1, <1>2, <1>3
  <2> HIDE DEF s, p, e, l, o
  <2>2. ~(p + (e - o) > NrSectors)
    BY <2>1, RamdiskAssumption
  <2>3. QED
    BY <2>2 DEF B_len, p, e, o
<1> HIDE DEF o
<1>5. B_len(q) \in Nat /\ B_len(q) > 0 /\ o + B_len(q) = ends[i]
  BY <1>3, <1>4
<1>6. QED
  BY <1>1, <1>3, <1>5 DEF o

\* A step of one request.
LEMMA OneRequest ==
  ASSUME RqInv, NEW r \in Reqs, NEW q, q = NoRq \/ Sound(q),
         rq' = [rq EXCEPT ![r] = q], data' \in [0 .. NrSectors - 1 -> SectorValues]
  PROVE  RqInv' /\ rq'[r] = q
<1>1. DOMAIN rq' = Reqs /\ rq'[r] = q /\ \A s \in Reqs : s # r => rq'[s] = rq[s]
  BY DEF RqInv
<1>2. \A s \in Reqs : rq'[s] = NoRq \/ Sound(rq'[s])
  BY <1>1 DEF RqInv
<1>3. QED
  BY <1>1, <1>2 DEF RqInv, NoRq, Sound, Records, Bufs, Last, B_buf

\* It is a step of one request of the abstract disk.
LEMMA OneAsked ==
  ASSUME RqInv, NEW r \in Reqs, NEW q, rq' = [rq EXCEPT ![r] = q]
  PROVE  Requests' = [Requests EXCEPT ![r] = Asked(q)]
<1>1. DOMAIN rq = Reqs
  BY DEF RqInv
<1>2. \A s \in Reqs : rq'[s] = IF s = r THEN q ELSE rq[s]
  BY <1>1
<1>3. Requests' = [s \in Reqs |-> Asked(rq'[s])]
  BY DEF Requests, Asked
<1>4. \A s \in Reqs : Requests[s] = Asked(rq[s])
  BY DEF Requests
<1>5. \A s \in Reqs : Asked(rq'[s]) = IF s = r THEN Asked(q) ELSE Requests[s]
  BY <1>2, <1>4
<1>6. DOMAIN Requests = Reqs
  BY DEF Requests
<1>7. QED
  BY <1>3, <1>5, <1>6 DEF Requests

\* No request is none.
LEMMA NoAsked == Asked(NoRq) = Flat!Idle
BY DEF Asked, NoRq, Flat!Idle

\* The disk is all zero and there is no request.
LEMMA DiskInit == RamdiskStart => DiskInd /\ Flat!FlatInit
<1> SUFFICES ASSUME RamdiskStart PROVE DiskInd /\ Flat!FlatInit
  OBVIOUS
<1>1. RqInv /\ ExitInv
  BY RamdiskAssumption DEF RamdiskStart, RqInv, ExitInv
<1>2. Flat!FlatInit
  BY <1>1, NoAsked DEF RamdiskStart, RqInv, Requests, Flat!FlatInit
<1>3. QED
  BY <1>1, <1>2 DEF DiskInd

\* A request that is handed over lies on the disk.
LEMMA SubmitFlat ==
  ASSUME DiskInd, NEW r \in Reqs, Submit(r)
  PROVE  DiskInd' /\ Flat!Ask(r)
<1>1. PICK dir \in {"read", "write"}, ends \in Shapes :
        \E sector \in 0 .. NrSectors - Last(ends), mem \in Buffers(dir, Last(ends)) :
          rq' = [rq EXCEPT ![r] = [at |-> "queued", dir |-> dir, sector |-> sector,
                                   buf |-> mem, ends |-> ends, iter |-> 1, pos |-> 0]]
  BY DEF Submit, Last
<1> DEFINE n == Last(ends)
<1>2. n \in 1 .. NrSectors /\ Len(ends) \in Nat /\ Len(ends) >= 1 /\ NrSectors \in Nat
  BY Cuts, RamdiskAssumption
<1>3. PICK sector \in 0 .. NrSectors - n, mem \in Buffers(dir, n) :
        rq' = [rq EXCEPT ![r] = [at |-> "queued", dir |-> dir, sector |-> sector,
                                 buf |-> mem, ends |-> ends, iter |-> 1, pos |-> 0]]
  BY <1>1
<1> DEFINE q == [at |-> "queued", dir |-> dir, sector |-> sector,
                 buf |-> mem, ends |-> ends, iter |-> 1, pos |-> 0]
<1>4. mem \in [1 .. n -> SectorValues] /\ mem \in Bufs /\ sector \in Nat /\ sector + n <= NrSectors
  <2> HIDE DEF n
  <2>1. mem \in [1 .. n -> SectorValues]
    BY RamdiskAssumption DEF Buffers
  <2>2. n \in 0 .. NrSectors
    BY <1>2
  <2>3. mem \in Bufs
    BY <2>1, <2>2 DEF Bufs
  <2>4. QED
    BY <1>2, <2>1, <2>3
<1>5. exit_pc = "loaded" /\ rq[r] = NoRq /\ UNCHANGED <<data, freed, exit_pc>>
  BY DEF Submit
<1>6. Sound(q)
  <2>1. q \in Records
    BY <1>4 DEF Records
  <2>2. QED
    BY <1>2, <1>4, <2>1 DEF Sound
<1>7. DiskInd'
  <2> HIDE DEF q
  <2>1. RqInv'
    BY <1>3, <1>5, <1>6, OneRequest DEF DiskInd, RqInv, q
  <2>2. ExitInv'
    BY <1>5 DEF DiskInd, ExitInv
  <2>3. QED
    BY <2>1, <2>2 DEF DiskInd
<1>8. Flat!Ask(r)
  <2>1. Requests[r] = Flat!Idle
    BY <1>5, NoAsked DEF Requests
  <2>2. Asked(q) = [dir |-> dir, sector |-> sector, buf |-> mem, moved |-> {}]
    BY DEF Asked
  <2>3. Requests' = [Requests EXCEPT ![r] = Asked(q)]
    BY <1>3, OneAsked DEF DiskInd
  <2>4. Requests' = [Requests EXCEPT ![r] =
                       [dir |-> dir, sector |-> sector, buf |-> mem, moved |-> {}]]
    BY <2>2, <2>3
  <2> HIDE DEF q, n
  <2>5. QED
    BY <1>2, <1>4, <1>5, <2>1, <2>4 DEF Flat!Ask
<1>9. QED
  BY <1>7, <1>8

\* A request begins with its first segment and nothing moved.
LEMMA QueueRqFlat ==
  ASSUME DiskInd, NEW r \in Reqs, QueueRq(r)
  PROVE  DiskInd' /\ UNCHANGED <<data, Requests>>
<1> DEFINE q == rq[r]
           w == [q EXCEPT !.at = "started", !.pos = q.sector]
<1>1. q.at = "queued" /\ UNCHANGED <<data, freed, exit_pc>>
  BY DEF QueueRq
<1>2. q # NoRq /\ Sound(q)
  BY <1>1 DEF DiskInd, RqInv, NoRq
<1>3. rq' = [rq EXCEPT ![r] = w]
  BY DEF QueueRq
<1>4. Sound(w) /\ Asked(w) = Asked(q)
  <2>1. q \in Records /\ q.sector \in Nat /\ q.iter = 1
    BY <1>1, <1>2 DEF Sound, Records
  <2>2. w \in Records
    BY <2>1 DEF Records
  <2>3. /\ w.at = "started" /\ w.pos = q.sector /\ w.dir = q.dir /\ w.sector = q.sector
        /\ w.buf = q.buf /\ w.ends = q.ends /\ w.iter = 1
    BY <2>1 DEF Records
  <2>4. w.pos = w.sector + B_buf(w) /\ 1 .. w.pos - w.sector = {}
    BY <2>1, <2>3 DEF B_buf
  <2> HIDE DEF w
  <2>5. Sound(w)
    BY <1>2, <2>1, <2>2, <2>3, <2>4 DEF Sound
  <2>6. Asked(w) = Asked(q)
    BY <1>1, <2>3, <2>4 DEF Asked
  <2>7. QED
    BY <2>5, <2>6
<1> HIDE DEF w
<1>5. RqInv'
  BY <1>1, <1>3, <1>4, OneRequest DEF DiskInd, RqInv
<1>6. ExitInv'
  BY <1>1, <1>2 DEF DiskInd, ExitInv
<1>7. Requests' = Requests
  <2>1. Requests' = [Requests EXCEPT ![r] = Asked(w)]
    BY <1>3, OneAsked DEF DiskInd
  <2>2. Requests[r] = Asked(w) /\ DOMAIN Requests = Reqs
    BY <1>4 DEF Requests
  <2>3. QED
    BY <2>1, <2>2 DEF Requests
<1>8. QED
  BY <1>1, <1>5, <1>6, <1>7 DEF DiskInd

\* A request that has come to its end has moved all of its sectors.
LEMMA EndRequestFlat ==
  ASSUME DiskInd, NEW r \in Reqs, EndRequest(r)
  PROVE  DiskInd' /\ Flat!End(r)
<1> DEFINE q == rq[r]
           l == Last(q.ends)
<1>1. /\ q.at = "started" /\ q.iter > Len(q.ends)
      /\ rq' = [rq EXCEPT ![r] = NoRq] /\ UNCHANGED <<data, freed, exit_pc>>
  BY DEF EndRequest
<1>2. q # NoRq /\ Sound(q)
  BY <1>1 DEF DiskInd, RqInv, NoRq
<1>3. /\ q.ends \in Shapes /\ q.sector \in Nat /\ q.dir \in {"read", "write"}
      /\ q.buf \in [1 .. l -> SectorValues] /\ q.iter \in 1 .. Len(q.ends) + 1
      /\ q.pos = q.sector + B_buf(q)
  BY <1>1, <1>2 DEF Sound, Records
<1>4. Len(q.ends) \in Nat /\ Len(q.ends) >= 1 /\ l \in Nat
  BY <1>3, Cuts
<1>5. q.iter = Len(q.ends) + 1
  BY <1>1, <1>3, <1>4
<1>6. B_buf(q) = l
  BY <1>4, <1>5 DEF B_buf, Last
<1>7. 1 .. q.pos - q.sector = 1 .. l
  <2> HIDE DEF l
  <2>1. QED
    BY <1>3, <1>4, <1>6
<1>8. RqInv'
  BY <1>1, OneRequest DEF DiskInd, RqInv
<1>9. ExitInv'
  BY <1>1, <1>2 DEF DiskInd, ExitInv
<1>10. Flat!End(r)
  <2>1. Requests[r] = Asked(q)
    BY DEF Requests
  <2>2. Requests[r].dir # "none" /\ Requests[r].moved = DOMAIN Requests[r].buf
    <3>1. Asked(q).dir = q.dir /\ Asked(q).moved = 1 .. l /\ Asked(q).buf = q.buf
      BY <1>1, <1>7 DEF Asked
    <3>2. DOMAIN q.buf = 1 .. l
      BY <1>3
    <3>3. QED
      BY <1>3, <2>1, <3>1, <3>2
  <2>3. Requests' = [Requests EXCEPT ![r] = Flat!Idle]
    BY <1>1, NoAsked, OneAsked DEF DiskInd
  <2>4. QED
    BY <1>1, <2>2, <2>3 DEF Flat!End
<1>11. QED
  BY <1>8, <1>9, <1>10 DEF DiskInd

\* The module goes without a step of the disk.
LEMMA ExitFlat ==
  ASSUME DiskInd, DelGendisk \/ Drained \/ FreeAll
  PROVE  DiskInd' /\ UNCHANGED <<data, Requests>>
<1>1. UNCHANGED <<data, rq>>
  BY DEF DelGendisk, Drained, FreeAll
<1>2. RqInv'
  BY <1>1 DEF DiskInd, RqInv, NoRq, Sound, Records, Bufs, Last, B_buf
<1>3. ExitInv'
  BY <1>1 DEF DelGendisk, Drained, FreeAll, DiskInd, ExitInv, NoRq
<1>4. UNCHANGED Requests
  BY <1>1 DEF Requests, Asked
<1>5. QED
  BY <1>1, <1>2, <1>3, <1>4 DEF DiskInd

\* What a segment's copy does to the request's record: it moves on by the whole
\* segment, and a read has put the sectors of the disk into the buffer.
LEMMA SegmentRecord ==
  ASSUME NEW q, Sound(q), q.at = "started", q.iter <= Len(q.ends),
         NEW b \in [1 .. Last(q.ends) -> SectorValues],
         NEW w, w = [q EXCEPT !.buf = b, !.iter = q.iter + 1, !.pos = q.pos + B_len(q)]
  PROVE  /\ Sound(w)
         /\ Asked(w) = [dir |-> q.dir, sector |-> q.sector, buf |-> b,
                        moved |-> Asked(q).moved \cup (B_buf(q) + 1 .. B_buf(q) + B_len(q))]
<1> DEFINE o == B_buf(q)
           n == B_len(q)
<1>1. /\ q.pos = q.sector + o /\ o \in Nat /\ n \in Nat /\ n > 0
      /\ o + n = q.ends[q.iter] /\ o + n <= Last(q.ends)
  BY SegmentPlace
<1>2. q \in Records /\ q.ends \in Shapes /\ q.iter \in Nat /\ q.pos \in Nat /\ q.sector \in Nat
  BY DEF Sound, Records
<1>3. Len(q.ends) \in Nat /\ Last(q.ends) \in 1 .. NrSectors /\ NrSectors \in Nat
  BY <1>2, Cuts, RamdiskAssumption
<1>4. b \in Bufs
  <2>1. Last(q.ends) \in 0 .. NrSectors
    BY <1>3
  <2>2. QED
    BY <2>1 DEF Bufs
<1>5. q.pos + n \in Nat /\ q.iter + 1 \in Nat /\ q.iter \in 1 .. Len(q.ends)
  <2> DEFINE i == q.iter
             m == Len(q.ends)
             p == q.pos
  <2>1. i \in 1 .. m + 1 /\ i <= m /\ m \in Nat /\ p \in Nat /\ n \in Nat
    BY <1>1, <1>2, <1>3 DEF Sound
  <2> HIDE DEF i, m, p, n
  <2>2. p + n \in Nat /\ i + 1 \in Nat /\ i \in 1 .. m
    BY <2>1
  <2>3. QED
    BY <2>2 DEF i, m, p
<1>6. w \in Records
  BY <1>2, <1>4, <1>5 DEF Records
<1>7. /\ w.at = "started" /\ w.dir = q.dir /\ w.sector = q.sector /\ w.buf = b
      /\ w.ends = q.ends /\ w.iter = q.iter + 1 /\ w.pos = q.pos + n
  BY <1>2 DEF Records
<1>8. B_buf(w) = o + n
  <2>1. w.iter # 1 /\ w.iter - 1 = q.iter
    BY <1>5, <1>7
  <2>2. QED
    BY <1>1, <1>7, <2>1 DEF B_buf
<1>9. w.pos = w.sector + B_buf(w)
  <2> HIDE DEF o, n
  <2>1. QED
    BY <1>1, <1>2, <1>7, <1>8
<1>10. w.iter \in 1 .. Len(w.ends) + 1
  BY <1>3, <1>5, <1>7
<1>11. Sound(w)
  <2>1. q.sector + Last(q.ends) <= NrSectors
    BY DEF Sound
  <2>2. QED
    BY <1>6, <1>7, <1>9, <1>10, <2>1 DEF Sound
<1>12. 1 .. w.pos - w.sector = (1 .. q.pos - q.sector) \cup (o + 1 .. o + n)
  <2> DEFINE s == q.sector
             p == q.pos
  <2>1. /\ s \in Nat /\ p \in Nat /\ o \in Nat /\ n \in Nat
        /\ p = s + o /\ w.pos = p + n /\ w.sector = s
    BY <1>1, <1>2, <1>7
  <2> HIDE DEF s, p, o, n
  <2>2. 1 .. (p + n) - s = (1 .. p - s) \cup (o + 1 .. o + n)
    BY <2>1
  <2>3. QED
    BY <2>1, <2>2 DEF s, p
<1>13. QED
  BY <1>7, <1>11, <1>12 DEF Asked

\* A segment's copy moves its sectors, each to or from its own place.
LEMMA SegmentFlat ==
  ASSUME DiskInd, NEW r \in Reqs, Segment(r)
  PROVE  DiskInd' /\ Flat!Move(r)
<1> DEFINE q == rq[r]
           o == B_buf(q)
           n == B_len(q)
           l == Last(q.ends)
           K == o + 1 .. o + n
           At(k) == q.sector + k - 1
<1>1. q.at = "started" /\ q.iter <= Len(q.ends) /\ UNCHANGED <<freed, exit_pc>>
  BY DEF Segment
<1>2. q # NoRq /\ Sound(q) /\ freed = FALSE
  BY <1>1 DEF DiskInd, RqInv, NoRq, ExitInv
<1>3. /\ q.pos = q.sector + o /\ o \in Nat /\ n \in Nat /\ n > 0 /\ o + n <= l
  BY <1>1, <1>2, SegmentPlace
<1>4. /\ q \in Records /\ q.sector \in Nat /\ q.pos \in Nat /\ q.dir \in {"read", "write"}
      /\ q.buf \in [1 .. l -> SectorValues] /\ q.sector + l <= NrSectors /\ q.ends \in Shapes
  BY <1>2 DEF Sound, Records
<1>5. l \in Nat /\ NrSectors \in Nat
  BY <1>4, Cuts, RamdiskAssumption
<1>6. data \in [0 .. NrSectors - 1 -> SectorValues]
  BY DEF DiskInd, RqInv
<1>7. \A k \in 1 .. l : At(k) \in 0 .. NrSectors - 1
  <2> DEFINE s == q.sector
  <2>1. s \in Nat /\ s + l <= NrSectors
    BY <1>4
  <2> HIDE DEF s, l
  <2>2. \A k \in 1 .. l : s + k - 1 \in 0 .. NrSectors - 1
    BY <1>5, <2>1
  <2>3. QED
    BY <2>2 DEF s
<1>8. K \subseteq 1 .. l /\ K # {} /\ K \cap (1 .. o) = {} /\ 1 .. q.pos - q.sector = 1 .. o
  <2> DEFINE s == q.sector
             p == q.pos
  <2>1. s \in Nat /\ p = s + o
    BY <1>3, <1>4
  <2> HIDE DEF o, n, l, s, p
  <2>2. K \subseteq 1 .. l /\ o + 1 \in K /\ K \cap (1 .. o) = {} /\ 1 .. p - s = 1 .. o
    BY <1>3, <1>5, <2>1
  <2>3. QED
    BY <2>2 DEF p, s
<1> DEFINE b == IF q.dir = "write" THEN q.buf
                ELSE [k \in 1 .. l |-> IF k \in K THEN data[At(k)] ELSE q.buf[k]]
           w == [q EXCEPT !.buf = b, !.iter = q.iter + 1, !.pos = q.pos + n]
<1>9. b \in [1 .. l -> SectorValues]
  <2>1. CASE q.dir = "write"
    BY <1>4, <2>1
  <2>2. CASE q.dir # "write"
    <3> HIDE DEF l, K, At
    <3>1. \A k \in 1 .. l : data[At(k)] \in SectorValues /\ q.buf[k] \in SectorValues
      BY <1>4, <1>6, <1>7
    <3>2. QED
      BY <2>2, <3>1
  <2>3. QED
    BY <2>1, <2>2
<1>10. rq' = [rq EXCEPT ![r] = w]
  <2>1. CASE q.dir = "write"
    <3>1. rq' = [rq EXCEPT ![r].iter = @ + 1, ![r].pos = @ + n]
      BY <2>1 DEF Segment, Advance
    <3>2. [q EXCEPT !.iter = @ + 1, !.pos = @ + n] = w
      BY <1>4, <2>1 DEF Records
    <3>3. QED
      BY <3>1, <3>2
  <2>2. CASE q.dir = "read"
    <3>1. rq' = [rq EXCEPT ![r].buf = [k \in DOMAIN @ |->
                              IF k \in K THEN data[q.pos + k - o - 1] ELSE @[k]],
                           ![r].iter = @ + 1, ![r].pos = @ + n]
      BY <1>2, <2>2 DEF Segment, Advance
    <3>2. DOMAIN q.buf = 1 .. l
      BY <1>4
    <3>3. \A k \in 1 .. l : q.pos + k - o - 1 = At(k)
      <4> DEFINE s == q.sector
                 p == q.pos
      <4>1. s \in Nat /\ p = s + o
        BY <1>3, <1>4
      <4> HIDE DEF s, p, o, l
      <4>2. \A k \in 1 .. l : p + k - o - 1 = s + k - 1
        BY <1>3, <1>5, <4>1
      <4>3. QED
        BY <4>2 DEF s, p
    <3>4. [k \in DOMAIN q.buf |-> IF k \in K THEN data[q.pos + k - o - 1] ELSE q.buf[k]] = b
      <4> HIDE DEF l, K, o, At
      <4>1. QED
        BY <2>2, <3>2, <3>3
    <3>5. QED
      <4> HIDE DEF b, K, o, n
      <4>1. QED
        BY <3>1, <3>4
  <2>3. QED
    BY <1>4, <2>1, <2>2
<1>11. data' = [s \in DOMAIN data |-> IF q.dir = "write" /\ \E k \in K : At(k) = s
                                      THEN q.buf[s - q.sector + 1] ELSE data[s]]
  <2>1. CASE q.dir = "write"
    <3>1. data' = [s \in DOMAIN data |-> IF s \in q.pos .. q.pos + n - 1
                                         THEN q.buf[o + s - q.pos + 1] ELSE data[s]]
      BY <1>2, <2>1 DEF Segment
    <3>2. \A s \in DOMAIN data :
            /\ s \in q.pos .. q.pos + n - 1 <=> \E k \in K : At(k) = s
            /\ o + s - q.pos + 1 = s - q.sector + 1
      <4> DEFINE f == q.sector
                 p == q.pos
      <4>1. f \in Nat /\ p = f + o /\ DOMAIN data \subseteq Int
        BY <1>3, <1>4, <1>6
      <4> HIDE DEF f, p, o, n
      <4>2. ASSUME NEW s \in Int
            PROVE  /\ s \in p .. p + n - 1 <=> \E k \in K : f + k - 1 = s
                   /\ o + s - p + 1 = s - f + 1
        <5>1. ASSUME s \in p .. p + n - 1 PROVE \E k \in K : f + k - 1 = s
          <6>1. s - f + 1 \in K /\ f + (s - f + 1) - 1 = s
            BY <1>3, <4>1, <5>1
          <6>2. QED
            BY <6>1
        <5>2. ASSUME NEW k \in K, f + k - 1 = s PROVE s \in p .. p + n - 1
          BY <1>3, <4>1, <5>2
        <5>3. o + s - p + 1 = s - f + 1
          BY <1>3, <4>1
        <5>4. QED
          BY <5>1, <5>2, <5>3
      <4>3. QED
        BY <4>1, <4>2 DEF f, p
    <3> HIDE DEF K, At, o, n
    <3>3. QED
      BY <2>1, <3>1, <3>2
  <2>2. CASE q.dir = "read"
    BY <1>6, <2>2 DEF Segment
  <2>3. QED
    BY <1>4, <2>1, <2>2
<1>12. data' \in [0 .. NrSectors - 1 -> SectorValues]
  <2>1. \A s \in 0 .. NrSectors - 1 :
          (\E k \in K : At(k) = s) => s - q.sector + 1 \in 1 .. l
    <3> DEFINE f == q.sector
    <3>1. f \in Nat
      BY <1>4
    <3> HIDE DEF f, K, l
    <3>2. \A s \in Int : \A k \in 1 .. l : f + k - 1 = s => s - f + 1 = k
      BY <1>5, <3>1
    <3>3. QED
      BY <1>8, <3>2 DEF f
  <2> HIDE DEF K, At, l
  <2>2. QED
    BY <1>4, <1>6, <1>11, <2>1
<1>13. /\ Sound(w)
       /\ Asked(w) = [dir |-> q.dir, sector |-> q.sector, buf |-> b,
                       moved |-> Asked(q).moved \cup K]
  <2> HIDE DEF b
  <2>1. QED
    BY <1>1, <1>2, <1>9, SegmentRecord
<1>14. DiskInd'
  <2> HIDE DEF w
  <2>1. RqInv'
    BY <1>10, <1>12, <1>13, OneRequest DEF DiskInd
  <2>2. ExitInv'
    BY <1>1, <1>2 DEF DiskInd, ExitInv
  <2>3. QED
    BY <2>1, <2>2 DEF DiskInd
<1>15. Flat!Move(r)
  <2>1. Requests[r] = Asked(q) /\ Requests \in [Reqs -> {Asked(rq[s]) : s \in Reqs}]
    BY DEF Requests
  <2>2. /\ Asked(q).dir = q.dir /\ Asked(q).sector = q.sector /\ Asked(q).buf = q.buf
        /\ Asked(q).moved = 1 .. o
    BY <1>1, <1>8 DEF Asked
  <2>3. K \in SUBSET (DOMAIN q.buf \ (1 .. o)) /\ K # {} /\ DOMAIN q.buf = 1 .. l
    BY <1>4, <1>8
  <2>4. b = [k \in DOMAIN q.buf |->
               IF q.dir = "read" /\ k \in K THEN data[At(k)] ELSE q.buf[k]]
    <3> HIDE DEF K, At, l
    <3>1. CASE q.dir = "write"
      BY <1>4, <3>1
    <3>2. CASE q.dir = "read"
      BY <2>3, <3>2
    <3>3. QED
      BY <1>4, <3>1, <3>2
  <2>5. Requests' = [Requests EXCEPT ![r] = Asked(w)]
    <3> HIDE DEF w
    <3>1. QED
      BY <1>10, OneAsked DEF DiskInd
  <2>6. Requests' = [Requests EXCEPT ![r] = [dir |-> @.dir, sector |-> @.sector, buf |-> b,
                                             moved |-> @.moved \cup K]]
    <3>1. Asked(w) = [dir |-> Requests[r].dir, sector |-> Requests[r].sector, buf |-> b,
                      moved |-> Requests[r].moved \cup K]
      <4> HIDE DEF w, b, K
      <4>1. QED
        BY <1>13, <2>1, <2>2
    <3> HIDE DEF w, b, K
    <3>2. QED
      BY <2>5, <3>1
  <2> HIDE DEF K, w
  <2>7. b = [k \in DOMAIN Requests[r].buf |->
               IF Requests[r].dir = "read" /\ k \in K
               THEN data[Requests[r].sector + k - 1] ELSE Requests[r].buf[k]]
    BY <2>1, <2>2, <2>4
  <2>8. data' = [s \in DOMAIN data |->
                   IF Requests[r].dir = "write" /\ \E k \in K : Requests[r].sector + k - 1 = s
                   THEN Requests[r].buf[s - Requests[r].sector + 1] ELSE data[s]]
    BY <1>11, <2>1, <2>2
  <2>9. /\ Requests[r].dir # "none"
        /\ K \in SUBSET (DOMAIN Requests[r].buf \ Requests[r].moved) /\ K # {}
    BY <1>4, <2>1, <2>2, <2>3
  <2>10. QED
    BY <2>6, <2>7, <2>8, <2>9 DEF Flat!Move
<1>16. QED
  BY <1>14, <1>15

\* What the theorem is made of: every step of the driver is a step of the abstract
\* disk or none.
LEMMA DiskStep ==
  ASSUME DiskInd, [RamdiskNext]_ramdisk_vars
  PROVE  DiskInd' /\ [Flat!FlatNext]_(Flat!flat_vars)
<1>1. CASE UNCHANGED ramdisk_vars
  <2>1. UNCHANGED <<data, rq, freed, exit_pc>>
    BY <1>1 DEF ramdisk_vars
  <2>2. RqInv' /\ ExitInv'
    BY <2>1 DEF DiskInd, RqInv, ExitInv, NoRq, Sound, Records, Bufs, Last, B_buf
  <2>3. UNCHANGED <<data, Requests>>
    BY <2>1 DEF Requests, Asked
  <2>4. QED
    BY <2>2, <2>3 DEF DiskInd, Flat!flat_vars
<1>2. ASSUME NEW r \in Reqs, Submit(r) \/ RamdiskRequest(r)
      PROVE  DiskInd' /\ [Flat!FlatNext]_(Flat!flat_vars)
  BY <1>2, SubmitFlat, QueueRqFlat, SegmentFlat, EndRequestFlat
     DEF RamdiskRequest, Flat!FlatNext, Flat!flat_vars
<1>3. CASE DelGendisk \/ Drained \/ FreeAll
  BY <1>3, ExitFlat DEF Flat!flat_vars
<1>4. QED
  BY <1>1, <1>2, <1>3 DEF RamdiskNext

\* The driver is a disk, as far as safety goes: for any number of sectors and
\* requests and however they are cut, a request moves each of its sectors once, to or
\* from its own place, and ends when all are moved, even while the module goes
\* (request_handle, ramdisk_blkdev_exit).
THEOREM ImplementsDisk == RamdiskSpec => Flat!FlatSafe
<1>1. DiskInd /\ [RamdiskNext]_ramdisk_vars => DiskInd' /\ [Flat!FlatNext]_(Flat!flat_vars)
  BY DiskStep
<1>2. QED
  BY DiskInit, <1>1, PTL DEF RamdiskSpec, Flat!FlatSafe
=============================================================================
