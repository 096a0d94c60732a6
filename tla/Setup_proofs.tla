---------------------------- MODULE Setup_proofs ----------------------------
(***************************************************************************)
(* Proofs about the programs that are a sequence of calls each of which    *)
(* may fail: the KVM host (KvmHost), for every size of the image and of a  *)
(* read, and the init, undo and exit functions of the modules (Setup), for *)
(* every number of minors and every choice of modules loaded together.     *)
(***************************************************************************)
EXTENDS Setup, KvmHost, SequenceTheorems, TLAPS

-----------------------------------------------------------------------------
(* The KVM host *)

AfterCopy == {"create_vcpu", "mmap_size", "mmap_run", "get_sregs", "set_sregs", "set_regs", "run"}

\* What has been read of the image is at the start of the guest's memory.
ImageInv ==
  /\ img_pos \in 0 .. ImgSize /\ p = img_pos
  /\ guest = [a \in 0 .. ImgSize + Chunk |-> IF a < img_pos THEN a + 1 ELSE 0]

\* SetRegion lets only mapped memory through, and the copy ends at the end of
\* the image or with a failed read.
OrderInv ==
  /\ kvm_pc = "set_region" => mem \in {"mapped", "failed"}
  /\ kvm_pc \in AfterCopy \cup {"copy"} => mem = "mapped"
  /\ kvm_pc \in AfterCopy => read_failed \/ img_pos = ImgSize

KvmInd == ImageInv /\ OrderInv

\* A program that gives up is on its way out.
LEMMA GiveUp == Give_up => kvm_pc' \in {"close", "close_kvm", "exited"}
BY DEF Give_up

\* A read that returns n bytes extends the copied part of the image by n.
LEMMA CopyInd ==
  ASSUME KvmInd, NEW n \in 1 .. Chunk, CopyChunk(n)
  PROVE  KvmInd'
<1> USE KvmAssumption
<1>1. /\ img_pos' = img_pos + n /\ p' = img_pos' /\ img_pos' \in 0 .. ImgSize
      /\ UNCHANGED <<kvm_pc, mem, read_failed>> /\ kvm_pc = "copy"
  BY DEF KvmInd, ImageInv, CopyChunk
<1>2. guest' = [a \in 0 .. ImgSize + Chunk |-> IF a < img_pos' THEN a + 1 ELSE 0]
  <2>1. guest' = [a \in 0 .. ImgSize + Chunk |->
                    IF a \in p .. p + n - 1 THEN img_pos + (a - p) + 1 ELSE guest[a]]
    BY DEF KvmInd, ImageInv, CopyChunk, Copied
  <2>2. ASSUME NEW a \in 0 .. ImgSize + Chunk
        PROVE  (IF a \in p .. p + n - 1 THEN img_pos + (a - p) + 1 ELSE guest[a])
                 = (IF a < img_pos' THEN a + 1 ELSE 0)
    BY <1>1 DEF KvmInd, ImageInv
  <2>3. QED
    BY <2>1, <2>2
<1>3. QED
  BY <1>1, <1>2 DEF KvmInd, ImageInv, OrderInv, AfterCopy

\* Every other call leaves the memory and the position alone.
LEMMA CallInd ==
  ASSUME KvmInd, KvmNext, ~\E n \in 1 .. Chunk : CopyChunk(n)
  PROVE  KvmInd'
<1>1. UNCHANGED <<guest, p, img_pos>>
  BY DEF KvmNext, Main, Vm_setup, Vcpu_setup, Run_and_emulate, OpenFd, Close, MmapMem, SetRegion,
         CopyEnds, Ioctl, MmapRun, RunFails, RunExits
<1>2. ImageInv'
  BY <1>1 DEF KvmInd, ImageInv
<1>3. OrderInv'
  <2> USE DEF KvmInd, OrderInv, AfterCopy
  <2>1. CASE Main
    BY <1>1, <2>1, GiveUp DEF Main, OpenFd, Close
  <2>2. CASE Vm_setup
    BY <1>1, <2>2, GiveUp DEF Vm_setup, OpenFd, MmapMem, SetRegion, CopyEnds
  <2>3. CASE Vcpu_setup
    BY <1>1, <2>3, GiveUp DEF Vcpu_setup, OpenFd, Ioctl, MmapRun
  <2>4. CASE Run_and_emulate
    BY <1>1, <2>4 DEF Run_and_emulate, RunFails, RunExits
  <2>5. QED
    BY <2>1, <2>2, <2>3, <2>4 DEF KvmNext
<1>4. QED
  BY <1>2, <1>3 DEF KvmInd

\* Whatever the reads of cp_guest_img return, the guest starts with the image,
\* or with a prefix of it after a failed read, at address 0 of mapped memory;
\* for every size of the image and of a read (host_kvm_simple.c).
THEOREM GuestStartsRight == KvmSpec => []GuestSeesImage
<1>1. KvmInit => KvmInd
  BY KvmAssumption DEF KvmInit, KvmInd, ImageInv, OrderInv, AfterCopy
<1>2. KvmInd /\ [KvmNext]_kvm_vars => KvmInd'
  <2> SUFFICES ASSUME KvmInd, [KvmNext]_kvm_vars PROVE KvmInd'
    OBVIOUS
  <2>1. CASE UNCHANGED kvm_vars
    BY <2>1 DEF kvm_vars, KvmInd, ImageInv, OrderInv
  <2>2. CASE KvmNext
    BY <2>2, CopyInd, CallInd
  <2>3. QED
    BY <2>1, <2>2
<1>3. KvmInd => GuestSeesImage
  BY KvmAssumption DEF KvmInd, ImageInv, OrderInv, AfterCopy, GuestSeesImage
<1>4. QED
  BY <1>1, <1>2, <1>3, PTL DEF KvmSpec

-----------------------------------------------------------------------------
(* What is asked of the tables of Setup *)

IsSeq(s) == Len(s) \in Nat /\ DOMAIN s = 1 .. Len(s) /\ s = [i \in 1 .. Len(s) |-> s[i]]

Outcomes == {"err", "zero", "ignored", "sure", "oops"}

\* What the first k calls of an init take.
Takes(init, k) == {init[i].take : i \in 1 .. k}
All(init) == Takes(init, Len(init))

\* What a list of releasing calls takes away.
Gives(rs) == UNION {WithContents(rs[i]) : i \in 1 .. Len(rs)}

\* No call releases a thing that another one of the list has released.
Once(rs) ==
  /\ \A i, j \in 1 .. Len(rs) : rs[i] = rs[j] => i = j
  /\ \A i \in 1 .. Len(rs) : rs[i] # <<"dbg_file">>

\* What may stay after an undo and after an exit.
UndoKeeps(m) == IF m = "virtbus" THEN {<<"bus_name">>} ELSE IF m = "ramdisk" THEN {<<"gdisk">>} ELSE {}
ExitKeeps(m) == IF m = "ramdisk" THEN {<<"gdisk">>} ELSE {}

\* The sets of things that one undo may release and not find.
Excuses(m) ==
  IF m = "mcdevdrvs" THEN {{<<"cdev", d>>} : d \in 0 .. NR_MINOR_DEVCS}
  ELSE IF m = "ramdisk" THEN {{<<"added">>, <<"major">>}} ELSE {Unchecked[m]}

\* The modules that report success after an undo, and those with files in /proc.
Silent == {"kernelnewbies", "mcdevdrvs"}
InProc == {"jit", "jiq"}

\* The undo of call k releases all that the calls before it have taken, each
\* thing once, and little else.
UndoFits(m, init, k) ==
  LET undo == init[k].undo
  IN  /\ Once(undo)
      /\ \A j \in 1 .. Len(undo) : undo[j] \notin ProcFiles
      /\ Takes(init, k - 1) \subseteq Gives(undo) \cup UndoKeeps(m)
      /\ \E E \in Excuses(m) : \A j \in 1 .. Len(undo) :
           undo[j] \in Takes(init, k - 1) \cup E \/ Harmless(undo[j])

CallFits(m, init, exit, k) ==
  /\ IsSeq(init[k].undo)
  /\ init[k].outcome \in Outcomes
  /\ init[k].take \in Gives(exit) \cup ExitKeeps(m)
  /\ init[k].take \in ProcFiles => m \in InProc
  /\ init[k].outcome = "ignored" => init[k].take \in Unchecked[m]
  /\ init[k].outcome = "zero" => m \in Silent
  /\ init[k].outcome \in {"err", "zero"} => UndoFits(m, init, k)

Fit(m, init, exit) ==
  /\ IsSeq(init) /\ IsSeq(exit)
  /\ \A k \in 1 .. Len(init) : CallFits(m, init, exit, k)
  /\ Once(exit)
  /\ \A j \in 1 .. Len(exit) : exit[j] \in All(init)

-----------------------------------------------------------------------------
(* The tables of Setup have that form *)

\* The files that jit and jiq have in /proc.
LEMMA ProcNames ==
  ProcFiles = {<<"currentime">>, <<"jitbusy">>, <<"jitsched">>, <<"jitqueue">>, <<"jitschedto">>,
               <<"jitimer">>, <<"jitasklet">>, <<"jitasklethi">>, <<"jiqwq">>, <<"jiqwqdelay">>, <<"jiqtasklet">>}
<1>1. ProcFiles = {JitInit[i].take : i \in 1 .. 8} \cup {JiqInit[i].take : i \in 1 .. 4}
  <2>1. DOMAIN JitInit = 1 .. 8 /\ DOMAIN JiqInit = 1 .. 4
    BY DEF JitInit, JiqInit, AllIgnored
  <2>2. QED
    BY <2>1 DEF ProcFiles
<1>2. {JitInit[i].take : i \in 1 .. 8} = {<<"currentime">>, <<"jitbusy">>, <<"jitsched">>, <<"jitqueue">>, <<"jitschedto">>,
               <<"jitimer">>, <<"jitasklet">>, <<"jitasklethi">>}
  BY DEF JitInit, AllIgnored, Call
<1>3. {JiqInit[i].take : i \in 1 .. 4} = {<<"jiqwq">>, <<"jiqwqdelay">>, <<"jitimer">>, <<"jiqtasklet">>}
  BY DEF JiqInit, AllIgnored, Call
<1>4. QED
  BY <1>1, <1>2, <1>3

\* The modules that Setup has tables for.
LEMMA ModuleNames ==
  Modules = {"kernelnewbies", "chardrvs", "mcdevdrvs", "jit", "jiq", "pltdevs_load", "pltdrv",
             "pltdrv_probe", "pltdrv_attr", "pltdrv_attr_probe", "virtbus", "virtbusdevs_load",
             "ds1307_probe", "ramdisk"}
BY DEF Modules, Init_of

\* These modules check every call.
LEMMA UncheckedNone ==
  ASSUME NEW m \in {"kernelnewbies", "mcdevdrvs", "pltdrv_probe", "pltdrv_attr_probe", "virtbus", "ds1307_probe"}
  PROVE  Unchecked[m] = {}
<1>1. m \in Modules
  BY ModuleNames
<1>2. /\ m \notin {"jit", "jiq", "pltdevs_load", "virtbusdevs_load"} /\ m # "chardrvs"
      /\ m \notin {"pltdrv", "pltdrv_attr"} /\ m # "ramdisk"
  OBVIOUS
<1>3. QED
  BY <1>1, <1>2, Zenon DEF Unchecked

\* These modules do not check some calls.
LEMMA UncheckedSome ==
  /\ Unchecked["chardrvs"] = {<<"dbg_dir">>, <<"dbg_file">>}
  /\ Unchecked["ramdisk"] = {<<"major">>}
  /\ \A m \in {"pltdrv", "pltdrv_attr"} : Unchecked[m] = {<<"plt-fifo-dev">>}
<1>1. {"chardrvs", "ramdisk", "pltdrv", "pltdrv_attr"} \subseteq Modules
  BY ModuleNames
<1>2. ASSUME NEW m \in {"pltdrv", "pltdrv_attr"} PROVE Unchecked[m] = {<<"plt-fifo-dev">>}
  <2>1. m \notin {"jit", "jiq", "pltdevs_load", "virtbusdevs_load"} /\ m # "chardrvs" /\ m # "ramdisk"
    OBVIOUS
  <2>2. QED
    BY <1>1, <2>1, Zenon DEF Unchecked
<1>3. Unchecked["chardrvs"] = {<<"dbg_dir">>, <<"dbg_file">>}
    BY <1>1, Zenon DEF Unchecked
<1>4. Unchecked["ramdisk"] = {<<"major">>}
    BY <1>1, Zenon DEF Unchecked
<1>5. QED
  BY <1>2, <1>3, <1>4

\* What a list of releasing calls names.
Rel(rs) == {rs[i] : i \in 1 .. Len(rs)}

\* What is named is taken away.
LEMMA RelGives == ASSUME NEW rs PROVE Rel(rs) \subseteq Gives(rs)
BY DEF Rel, Gives, WithContents

\* A list releases a set if it has exactly its elements.
LEMMA RelIs ==
  ASSUME NEW f, NEW S, \A j \in 1 .. Len(f) : f[j] \in S, \A x \in S : \E j \in 1 .. Len(f) : x = f[j]
  PROVE  Rel(f) = S
BY DEF Rel

\* The tail of a function: different labels release different things.
IsTail(labels) ==
  /\ IsSeq(labels)
  /\ \A i, j \in 1 .. Len(labels) : labels[i][1] = labels[j][1] \/ labels[i][2] = labels[j][2] => i = j
  /\ \A i \in 1 .. Len(labels) : labels[i][2] # "dbg_file"

\* A jump to the k-th label releases what is at that label and below, once.
LEMMA FromLabel ==
  ASSUME NEW labels, IsTail(labels), NEW k \in 1 .. Len(labels), NEW l, labels[k][1] = l
  PROVE  /\ IsSeq(From(labels, l)) /\ Once(From(labels, l))
         /\ Rel(From(labels, l)) = {<<labels[j][2]>> : j \in k .. Len(labels)}
<1> DEFINE k0 == CHOOSE j \in DOMAIN labels : labels[j][1] = l
           f == From(labels, l)
           n == Len(labels) - k + 1
<1>1. k0 = k
  BY DEF IsTail, IsSeq
<1>2. f = [j \in 1 .. Len(labels) - k0 + 1 |-> <<labels[k0 + j - 1][2]>>]
  BY DEF From
<1>3. f = [j \in 1 .. n |-> <<labels[k + j - 1][2]>>] /\ n \in Nat /\ Len(labels) \in Nat
  <2>1. Len(labels) \in Nat
    BY DEF IsTail, IsSeq
  <2> HIDE DEF k0, f
  <2>2. QED
    BY <1>1, <1>2, <2>1
<1> HIDE DEF f, n, k0
<1>4. IsSeq(f) /\ Len(f) = n
  BY <1>3 DEF IsSeq
<1>5. \A j \in 1 .. n : /\ k + j - 1 \in k .. Len(labels) /\ k + j - 1 \in 1 .. Len(labels)
                        /\ f[j] = <<labels[k + j - 1][2]>>
  BY <1>3 DEF n
<1>6. \A j \in k .. Len(labels) : j - k + 1 \in 1 .. n /\ k + (j - k + 1) - 1 = j
  BY <1>3 DEF n
<1>7. Once(f)
  <2>1. ASSUME NEW i \in 1 .. n, NEW j \in 1 .. n, f[i] = f[j] PROVE i = j
    <3>1. labels[k + i - 1][2] = labels[k + j - 1][2]
      <4>1. f[i][1] = labels[k + i - 1][2] /\ f[j][1] = labels[k + j - 1][2]
        BY <1>5
      <4>2. QED
        BY <2>1, <4>1
    <3>2. k + i - 1 \in 1 .. Len(labels) /\ k + j - 1 \in 1 .. Len(labels)
      BY <1>3, <1>5
    <3>3. k + i - 1 = k + j - 1
      BY <3>1, <3>2 DEF IsTail
    <3>4. QED
      BY <1>3, <3>3
  <2>2. ASSUME NEW i \in 1 .. n PROVE f[i] # <<"dbg_file">>
    <3>1. k + i - 1 \in 1 .. Len(labels)
      BY <1>3, <1>5
    <3>2. labels[k + i - 1][2] # "dbg_file"
      BY <3>1 DEF IsTail
    <3>3. f[i][1] # "dbg_file"
      BY <1>5, <3>2
    <3>4. QED
      BY <3>3
  <2>3. QED
    BY <1>4, <2>1, <2>2 DEF Once
<1>8. Rel(f) = {<<labels[j][2]>> : j \in k .. Len(labels)}
  <2>1. \A j \in k .. Len(labels) : <<labels[j][2]>> = f[j - k + 1]
    BY <1>5, <1>6
  <2> DEFINE S == {<<labels[j][2]>> : j \in k .. Len(labels)}
  <2>2. \A i \in 1 .. n : f[i] \in S
    BY <1>5
  <2>3. \A x \in S : \E i \in 1 .. n : x = f[i]
    BY <1>6, <2>1
  <2> HIDE DEF S
  <2>4. Rel(f) = S
    BY <1>4, <2>2, <2>3 DEF Rel
  <2>5. QED
    BY <2>4 DEF S
<1>9. QED
  BY <1>4, <1>7, <1>8 DEF f

\* An undo fits if the set of what it releases does.
LEMMA UndoBySet ==
  ASSUME NEW m, NEW init, NEW k, NEW E \in Excuses(m), Once(init[k].undo),
         \A r \in Rel(init[k].undo) :
           r \notin ProcFiles /\ (r \in Takes(init, k - 1) \cup E \/ Harmless(r)),
         Takes(init, k - 1) \subseteq Rel(init[k].undo) \cup UndoKeeps(m)
  PROVE  UndoFits(m, init, k)
<1>1. Rel(init[k].undo) \subseteq Gives(init[k].undo)
  BY RelGives
<1>2. \A j \in 1 .. Len(init[k].undo) : init[k].undo[j] \in Rel(init[k].undo)
  BY DEF Rel
<1>3. QED
  BY <1>1, <1>2 DEF UndoFits

\* One call takes one more thing.
LEMMA TakesNext ==
  ASSUME NEW init
  PROVE  /\ Takes(init, 0) = {} /\ Takes(init, 1) = {init[1].take}
         /\ \A k \in Nat \ {0} : Takes(init, k) = Takes(init, k - 1) \cup {init[k].take}
<1>1. Takes(init, 0) = {} /\ Takes(init, 1) = {init[1].take}
  BY DEF Takes
<1>2. ASSUME NEW k \in Nat \ {0} PROVE Takes(init, k) = Takes(init, k - 1) \cup {init[k].take}
  <2>1. 1 .. k = (1 .. k - 1) \cup {k}
    OBVIOUS
  <2>2. QED
    BY <2>1 DEF Takes
<1>3. QED
  BY <1>1, <1>2

\* What those modules do not check is all that their exit releases.
LEMMA UncheckedExit ==
  /\ Unchecked["jit"] = {JitCleanup[i] : i \in DOMAIN JitCleanup}
  /\ Unchecked["jiq"] = {JiqCleanup[i] : i \in DOMAIN JiqCleanup}
  /\ Unchecked["pltdevs_load"] = {PltdevsLoadExit[i] : i \in DOMAIN PltdevsLoadExit}
  /\ Unchecked["virtbusdevs_load"] = {VirtbusdevsLoadExit[i] : i \in DOMAIN VirtbusdevsLoadExit}
<1>1. \A m \in {"jit", "jiq", "pltdevs_load", "virtbusdevs_load"} :
        Unchecked[m] = {Exit_of[m][i] : i \in DOMAIN Exit_of[m]}
  <2>1. ASSUME NEW m \in {"jit", "jiq", "pltdevs_load", "virtbusdevs_load"}
        PROVE  Unchecked[m] = {Exit_of[m][i] : i \in DOMAIN Exit_of[m]}
    <3>1. m \in Modules /\ m # "chardrvs" /\ m \notin {"pltdrv", "pltdrv_attr"} /\ m # "ramdisk"
      BY ModuleNames
    <3>2. QED
      BY <3>1, Zenon DEF Unchecked
  <2>2. QED
    BY <2>1
<1>2. /\ Exit_of["jit"] = JitCleanup /\ Exit_of["jiq"] = JiqCleanup
      /\ Exit_of["pltdevs_load"] = PltdevsLoadExit /\ Exit_of["virtbusdevs_load"] = VirtbusdevsLoadExit
  BY DEF Exit_of
<1>3. QED
  BY <1>1, <1>2

\* Lists of things with different names.
LEMMA EachNames ==
  ASSUME NEW names, IsSeq(names), \A i, j \in 1 .. Len(names) : names[i] = names[j] => i = j,
         \A i \in 1 .. Len(names) : names[i] # "dbg_file"
  PROVE  /\ IsSeq(Each(names)) /\ Len(Each(names)) = Len(names) /\ Once(Each(names))
         /\ \A i \in 1 .. Len(names) : Each(names)[i] = <<names[i]>>
         /\ Rel(Each(names)) = {<<names[i]>> : i \in 1 .. Len(names)}
<1> DEFINE e == Each(names)
           n == Len(names)
<1>1. n \in Nat /\ e = [i \in 1 .. n |-> <<names[i]>>]
  BY DEF Each, IsSeq
<1> HIDE DEF e, n
<1>2. IsSeq(e) /\ Len(e) = n /\ \A i \in 1 .. n : e[i] = <<names[i]>> /\ e[i][1] = names[i]
  BY <1>1 DEF IsSeq
<1>3. Once(e)
  BY <1>2 DEF Once, n
<1>4. Rel(e) = {<<names[i]>> : i \in 1 .. n}
  <2> DEFINE S == {<<names[i]>> : i \in 1 .. n}
  <2>1. (\A i \in 1 .. n : e[i] \in S) /\ \A x \in S : \E i \in 1 .. n : x = e[i]
    BY <1>2
  <2> HIDE DEF S
  <2>2. Rel(e) = S
    BY <1>2, <2>1 DEF Rel
  <2>3. QED
    BY <2>2 DEF S
<1>5. QED
  BY <1>2, <1>3, <1>4 DEF e, n

\* A module that looks at no result and takes everything back by name.
LEMMA IgnoredFit ==
  ASSUME NEW m, NEW names, IsSeq(names), \A i, j \in 1 .. Len(names) : names[i] = names[j] => i = j,
         \A i \in 1 .. Len(names) : names[i] # "dbg_file" /\ (<<names[i]>> \in ProcFiles => m \in InProc),
         Unchecked[m] = {Each(names)[i] : i \in DOMAIN Each(names)}
  PROVE  Fit(m, AllIgnored(names), Each(names))
<1> DEFINE init == AllIgnored(names)
           exit == Each(names)
           n == Len(names)
<1>1. /\ IsSeq(exit) /\ Len(exit) = n /\ Once(exit) /\ n \in Nat
      /\ \A i \in 1 .. n : exit[i] = <<names[i]>>
  BY EachNames DEF IsSeq
<1>2. n \in Nat /\ init = [i \in 1 .. n |-> Call(names[i], "ignored", << >>)]
  BY DEF AllIgnored, IsSeq
<1>3. \A i \in 1 .. n : exit[i] \in Unchecked[m] /\ exit[i] \in Gives(exit)
  BY <1>1, RelGives DEF IsSeq, Rel
<1> HIDE DEF init, exit, n
<1>4. IsSeq(init) /\ Len(init) = n
  BY <1>2 DEF IsSeq
<1>5. \A i \in 1 .. n : init[i].take = exit[i] /\ init[i].outcome = "ignored" /\ init[i].undo = << >>
  BY <1>1, <1>2 DEF Call
<1>6. IsSeq(<< >>)
  BY DEF IsSeq
<1>7. \A k \in 1 .. n : CallFits(m, init, exit, k)
  <2> TAKE k \in 1 .. n
  <2>1. exit[k] \in ProcFiles => m \in InProc
    BY <1>1 DEF n
  <2>2. init[k].take = exit[k] /\ init[k].outcome = "ignored" /\ init[k].undo = << >>
    BY <1>5
  <2>3. exit[k] \in Unchecked[m] /\ exit[k] \in Gives(exit)
    BY <1>3
  <2>4. QED
    BY <1>6, <2>1, <2>2, <2>3 DEF CallFits, Outcomes
<1>8. \A j \in 1 .. n : exit[j] \in All(init)
  BY <1>4, <1>5 DEF All, Takes
<1>9. Fit(m, init, exit)
  BY <1>1, <1>4, <1>7, <1>8 DEF Fit
<1>10. QED
  BY <1>9 DEF init, exit

\* 04.time/jit.c, 05.workqueues/jiq.c and 06.pltdevs_load.
LEMMA IgnoringFit ==
  /\ Fit("jit", JitInit, JitCleanup) /\ Fit("jiq", JiqInit, JiqCleanup)
  /\ Fit("pltdevs_load", PltdevsLoadInit, PltdevsLoadExit)
<1>1. Fit("jit", JitInit, JitCleanup)
  <2> DEFINE names == <<"currentime", "jitbusy", "jitsched", "jitqueue", "jitschedto",
                        "jitimer", "jitasklet", "jitasklethi">>
  <2>1. JitInit = AllIgnored(names) /\ JitCleanup = Each(names)
    BY DEF JitInit, JitCleanup
  <2>2. /\ IsSeq(names) /\ \A i, j \in 1 .. Len(names) : names[i] = names[j] => i = j
        /\ \A i \in 1 .. Len(names) : names[i] # "dbg_file"
    BY DEF IsSeq
  <2>3. Unchecked["jit"] = {Each(names)[i] : i \in DOMAIN Each(names)}
    BY <2>1, UncheckedExit
  <2> HIDE DEF names
  <2>4. QED
    BY <2>1, <2>2, <2>3, IgnoredFit DEF InProc
<1>2. Fit("jiq", JiqInit, JiqCleanup)
  <2> DEFINE names == <<"jiqwq", "jiqwqdelay", "jitimer", "jiqtasklet">>
  <2>1. JiqInit = AllIgnored(names) /\ JiqCleanup = Each(names)
    BY DEF JiqInit, JiqCleanup
  <2>2. /\ IsSeq(names) /\ \A i, j \in 1 .. Len(names) : names[i] = names[j] => i = j
        /\ \A i \in 1 .. Len(names) : names[i] # "dbg_file"
    BY DEF IsSeq
  <2>3. Unchecked["jiq"] = {Each(names)[i] : i \in DOMAIN Each(names)}
    BY <2>1, UncheckedExit
  <2> HIDE DEF names
  <2>4. QED
    BY <2>1, <2>2, <2>3, IgnoredFit DEF InProc
<1>3. Fit("pltdevs_load", PltdevsLoadInit, PltdevsLoadExit)
  <2> DEFINE names == <<"plt_devices">>
  <2>1. PltdevsLoadInit = AllIgnored(names) /\ PltdevsLoadExit = Each(names)
    BY DEF PltdevsLoadInit, PltdevsLoadExit
  <2>2. /\ IsSeq(names) /\ \A i, j \in 1 .. Len(names) : names[i] = names[j] => i = j
        /\ \A i \in 1 .. Len(names) : names[i] # "dbg_file" /\ <<names[i]>> \notin ProcFiles
    BY ProcNames DEF IsSeq
  <2>3. Unchecked["pltdevs_load"] = {Each(names)[i] : i \in DOMAIN Each(names)}
    BY <2>1, UncheckedExit
  <2> HIDE DEF names
  <2>4. QED
    BY <2>1, <2>2, <2>3, IgnoredFit
<1>4. QED
  BY <1>1, <1>2, <1>3

\* Two lists after each other.
LEMMA Concat ==
  ASSUME NEW a, NEW b, IsSeq(a), IsSeq(b)
  PROVE  /\ IsSeq(a \o b) /\ Len(a \o b) = Len(a) + Len(b)
         /\ \A i \in 1 .. Len(a) : (a \o b)[i] = a[i]
         /\ \A i \in 1 .. Len(b) : (a \o b)[Len(a) + i] = b[i]
<1> DEFINE n == Len(a)
           k == Len(b)
           S == {a[i] : i \in 1 .. n} \cup {b[i] : i \in 1 .. k}
           c == a \o b
<1>1. n \in Nat /\ k \in Nat /\ a \in [1 .. n -> S] /\ b \in [1 .. k -> S]
  BY DEF IsSeq
<1>2. a \in Seq(S) /\ b \in Seq(S)
  <2> HIDE DEF n, k, S
  <2>1. QED
    BY <1>1
<1>3. /\ c \in Seq(S) /\ Len(c) = n + k
      /\ \A i \in 1 .. n + k : c[i] = IF i <= n THEN a[i] ELSE b[i - n]
  <2> HIDE DEF S
  <2>1. QED
    BY <1>2, ConcatProperties
<1>4. DOMAIN c = 1 .. Len(c) /\ c = [i \in 1 .. Len(c) |-> c[i]] /\ Len(c) \in Nat
  <2> HIDE DEF c, S
  <2>1. QED
    BY <1>3
<1> HIDE DEF n, k, c
<1>5. \A i \in 1 .. n : c[i] = a[i]
  BY <1>1, <1>3
<1>6. \A i \in 1 .. k : c[n + i] = b[i]
  <2> TAKE i \in 1 .. k
  <2> DEFINE h == n + i
  <2>1. h \in 1 .. n + k /\ ~(h <= n) /\ h - n = i
    BY <1>1
  <2> HIDE DEF h
  <2>2. c[h] = b[h - n]
    BY <1>3, <2>1
  <2>3. QED
    BY <2>1, <2>2 DEF h
<1>7. IsSeq(c)
  BY <1>4 DEF IsSeq
<1>8. QED
  BY <1>3, <1>5, <1>6, <1>7 DEF n, k, c

\* What two lists release.
LEMMA RelConcat ==
  ASSUME NEW a, NEW b, IsSeq(a), IsSeq(b)
  PROVE  /\ Rel(a \o b) = Rel(a) \cup Rel(b)
         /\ Once(a) /\ Once(b) /\ Rel(a) \cap Rel(b) = {} => Once(a \o b)
<1> DEFINE n == Len(a)
           k == Len(b)
           c == a \o b
<1>1. /\ IsSeq(c) /\ Len(c) = n + k /\ n \in Nat /\ k \in Nat
      /\ \A i \in 1 .. n : c[i] = a[i]
      /\ \A i \in 1 .. k : c[n + i] = b[i]
  BY Concat DEF IsSeq
<1> HIDE DEF c, n, k
<1>2. \A i \in 1 .. n + k :
        \/ i \in 1 .. n /\ c[i] = a[i]
        \/ i - n \in 1 .. k /\ c[i] = b[i - n] /\ i > n
  <2> TAKE i \in 1 .. n + k
  <2>1. CASE i <= n
    BY <1>1, <2>1
  <2>2. CASE i > n
    <3>1. i - n \in 1 .. k /\ n + (i - n) = i
      BY <1>1, <2>2
    <3>2. QED
      BY <1>1, <2>2, <3>1
  <2>3. QED
    BY <1>1, <2>1, <2>2
<1>3. Rel(c) = Rel(a) \cup Rel(b)
  <2>1. \A x \in Rel(c) : x \in Rel(a) \cup Rel(b)
    BY <1>1, <1>2 DEF Rel, n, k
  <2>2. \A i \in 1 .. n : i \in 1 .. n + k
    BY <1>1
  <2>3. \A i \in 1 .. k : n + i \in 1 .. n + k
    BY <1>1
  <2>4. \A x \in Rel(a) : x \in Rel(c)
    <3> TAKE x \in Rel(a)
    <3>1. PICK i \in 1 .. n : x = a[i]
      BY DEF Rel, n
    <3>2. QED
      BY <1>1, <2>2, <3>1 DEF Rel
  <2>5. \A x \in Rel(b) : x \in Rel(c)
    <3> TAKE x \in Rel(b)
    <3>1. PICK i \in 1 .. k : x = b[i]
      BY DEF Rel, k
    <3>2. QED
      BY <1>1, <2>3, <3>1 DEF Rel
  <2>6. QED
    BY <2>1, <2>4, <2>5
<1>4. ASSUME Once(a), Once(b), Rel(a) \cap Rel(b) = {} PROVE Once(c)
  <2>1. \A i \in 1 .. n + k : c[i] # <<"dbg_file">>
    BY <1>2, <1>4 DEF Once, n, k
  <2>2. ASSUME NEW i \in 1 .. n + k, NEW j \in 1 .. n + k, c[i] = c[j] PROVE i = j
    <3>1. CASE i \in 1 .. n /\ c[i] = a[i] /\ j \in 1 .. n /\ c[j] = a[j]
      BY <1>4, <2>2, <3>1 DEF Once, n
    <3>2. CASE i - n \in 1 .. k /\ c[i] = b[i - n] /\ j - n \in 1 .. k /\ c[j] = b[j - n]
      <4>1. i - n = j - n
        BY <1>4, <2>2, <3>2 DEF Once, k
      <4>2. QED
        BY <1>1, <4>1
    <3>3. CASE i \in 1 .. n /\ c[i] = a[i] /\ j - n \in 1 .. k /\ c[j] = b[j - n]
      <4>1. c[i] \in Rel(a) /\ c[j] \in Rel(b)
        BY <3>3 DEF Rel, n, k
      <4>2. QED
        BY <1>4, <2>2, <4>1
    <3>4. CASE j \in 1 .. n /\ c[j] = a[j] /\ i - n \in 1 .. k /\ c[i] = b[i - n]
      <4>1. c[j] \in Rel(a) /\ c[i] \in Rel(b)
        BY <3>4 DEF Rel, n, k
      <4>2. QED
        BY <1>4, <2>2, <4>1
    <3>5. QED
      BY <1>2, <3>1, <3>2, <3>3, <3>4
  <2>3. QED
    BY <1>1, <2>1, <2>2 DEF Once
<1>5. QED
  BY <1>3, <1>4 DEF c

\* A pair after a pair.
LEMMA Pairs == ASSUME NEW a, NEW b, NEW c, NEW d PROVE <<a, b>> \o <<c, d>> = <<a, b, c, d>>
<1> DEFINE r == <<a, b>> \o <<c, d>>
<1>1. IsSeq(<<a, b>>) /\ IsSeq(<<c, d>>) /\ Len(<<a, b>>) = 2 /\ Len(<<c, d>>) = 2
  BY DEF IsSeq
<1>2. IsSeq(r) /\ Len(r) = 4 /\ r[1] = a /\ r[2] = b
  BY <1>1, Concat
<1>3. r[2 + 1] = c /\ r[2 + 2] = d
  <2>1. \A i \in 1 .. 2 : r[2 + i] = <<c, d>>[i]
    BY <1>1, Concat
  <2> HIDE DEF r
  <2>2. QED
    BY <2>1
<1> HIDE DEF r
<1>4. r = [i \in 1 .. 4 |-> r[i]]
  BY <1>2 DEF IsSeq
<1>5. r = <<a, b, c, d>>
  BY <1>2, <1>3, <1>4
<1>6. QED
  BY <1>5 DEF r

\* 01.kernelnewbies.
LEMMA KernelnewbiesFit == Fit("kernelnewbies", KernelnewbiesInit, KernelnewbiesExit)
<1> DEFINE m == "kernelnewbies"
           init == KernelnewbiesInit
           exit == KernelnewbiesExit
           t == KernelnewbiesTail
<1>1. IsSeq(init) /\ IsSeq(exit) /\ Once(exit) /\ IsTail(t)
  BY DEF IsSeq, Once, KernelnewbiesInit, Call, KernelnewbiesExit, Each, IsTail, KernelnewbiesTail
<1>2. Len(init) = 5 /\ Len(t) = 4
  BY DEF KernelnewbiesInit, Call, KernelnewbiesTail
<1>3. /\ init[1].take = <<"region">> /\ init[2].take = <<"class">> /\ init[3].take = <<"device">>
      /\ init[4].take = <<"cdev">> /\ init[5].take = <<"fifo">>
  BY DEF KernelnewbiesInit, Call
<1>4. /\ init[1].outcome = "err" /\ init[2].outcome = "err" /\ init[3].outcome = "err"
      /\ init[4].outcome = "zero" /\ init[5].outcome = "err"
  BY DEF KernelnewbiesInit, Call
<1>5. Rel(exit) = {<<"cdev">>, <<"device">>, <<"class">>, <<"region">>, <<"fifo">>}
  BY DEF Rel, KernelnewbiesExit, Each
<1>6. IsSeq(init[1].undo) /\ Once(init[1].undo) /\ Rel(init[1].undo) = {}
  BY DEF IsSeq, Once, Rel, KernelnewbiesInit, Call
<1>7. IsSeq(init[2].undo) /\ Once(init[2].undo)
      /\ Rel(init[2].undo) = {<<"region">>}
  <2>1. init[2].undo = From(t, "err_class_create")
    BY DEF KernelnewbiesInit, Call
  <2>2. t[4][1] = "err_class_create" /\ {<<t[j][2]>> : j \in 4 .. 4} = {<<"region">>}
    BY DEF KernelnewbiesTail
  <2> HIDE DEF init, t
  <2>3. 4 \in 1 .. Len(t) /\ {<<t[j][2]>> : j \in 4 .. Len(t)} = {<<"region">>}
    BY <1>2, <2>2
  <2>4. QED
    BY <1>1, <2>1, <2>2, <2>3, FromLabel
<1>8. IsSeq(init[3].undo) /\ Once(init[3].undo)
      /\ Rel(init[3].undo) = {<<"class">>, <<"region">>}
  <2>1. init[3].undo = From(t, "err_device_create")
    BY DEF KernelnewbiesInit, Call
  <2>2. t[3][1] = "err_device_create" /\ {<<t[j][2]>> : j \in 3 .. 4} = {<<"class">>, <<"region">>}
    BY DEF KernelnewbiesTail
  <2> HIDE DEF init, t
  <2>3. 3 \in 1 .. Len(t) /\ {<<t[j][2]>> : j \in 3 .. Len(t)} = {<<"class">>, <<"region">>}
    BY <1>2, <2>2
  <2>4. QED
    BY <1>1, <2>1, <2>2, <2>3, FromLabel
<1>9. IsSeq(init[4].undo) /\ Once(init[4].undo)
      /\ Rel(init[4].undo) = {<<"device">>, <<"class">>, <<"region">>}
  <2>1. init[4].undo = From(t, "err_add_device")
    BY DEF KernelnewbiesInit, Call
  <2>2. t[2][1] = "err_add_device" /\ {<<t[j][2]>> : j \in 2 .. 4} = {<<"device">>, <<"class">>, <<"region">>}
    BY DEF KernelnewbiesTail
  <2> HIDE DEF init, t
  <2>3. 2 \in 1 .. Len(t) /\ {<<t[j][2]>> : j \in 2 .. Len(t)} = {<<"device">>, <<"class">>, <<"region">>}
    BY <1>2, <2>2
  <2>4. QED
    BY <1>1, <2>1, <2>2, <2>3, FromLabel
<1>10. IsSeq(init[5].undo) /\ Once(init[5].undo)
      /\ Rel(init[5].undo) = {<<"cdev">>, <<"device">>, <<"class">>, <<"region">>}
  <2>1. init[5].undo = From(t, "err_alloc_fifo")
    BY DEF KernelnewbiesInit, Call
  <2>2. t[1][1] = "err_alloc_fifo" /\ {<<t[j][2]>> : j \in 1 .. 4} = {<<"cdev">>, <<"device">>, <<"class">>, <<"region">>}
    BY DEF KernelnewbiesTail
  <2> HIDE DEF init, t
  <2>3. 1 \in 1 .. Len(t) /\ {<<t[j][2]>> : j \in 1 .. Len(t)} = {<<"cdev">>, <<"device">>, <<"class">>, <<"region">>}
    BY <1>2, <2>2
  <2>4. QED
    BY <1>1, <2>1, <2>2, <2>3, FromLabel
<1> HIDE DEF init, exit, t
<1>11. /\ Takes(init, 0) = {}
      /\ Takes(init, 1) = {<<"region">>}
      /\ Takes(init, 2) = {<<"region">>, <<"class">>}
      /\ Takes(init, 3) = {<<"region">>, <<"class">>, <<"device">>}
      /\ Takes(init, 4) = {<<"region">>, <<"class">>, <<"device">>, <<"cdev">>}
      /\ Takes(init, 5) = {<<"region">>, <<"class">>, <<"device">>, <<"cdev">>, <<"fifo">>}
  <2>1. Takes(init, 1) = {<<"region">>}
    BY <1>3, TakesNext
  <2>2. Takes(init, 2) = {<<"region">>, <<"class">>}
    BY <1>3, <2>1, TakesNext
  <2>3. Takes(init, 3) = {<<"region">>, <<"class">>, <<"device">>}
    BY <1>3, <2>2, TakesNext
  <2>4. Takes(init, 4) = {<<"region">>, <<"class">>, <<"device">>, <<"cdev">>}
    BY <1>3, <2>3, TakesNext
  <2>5. Takes(init, 5) = {<<"region">>, <<"class">>, <<"device">>, <<"cdev">>, <<"fifo">>}
    BY <1>3, <2>4, TakesNext
  <2>6. QED
    BY TakesNext, <2>1, <2>2, <2>3, <2>4, <2>5
<1>12. UndoKeeps(m) = {} /\ ExitKeeps(m) = {} /\ Unchecked[m] = {} /\ Unchecked[m] \in Excuses(m)
  BY UncheckedNone, UncheckedSome DEF UndoKeeps, ExitKeeps, Excuses
<1>13. \A r \in {<<"region">>, <<"class">>, <<"device">>, <<"cdev">>, <<"fifo">>} : r \notin ProcFiles
  BY ProcNames
<1>14. /\ UndoFits(m, init, 1) /\ UndoFits(m, init, 2) /\ UndoFits(m, init, 3)
      /\ UndoFits(m, init, 4) /\ UndoFits(m, init, 5)
  <2> HIDE DEF m
  <2>1. UndoFits(m, init, 1)
    BY <1>6, <1>11, <1>12, <1>13, UndoBySet DEF Harmless
  <2>2. UndoFits(m, init, 2)
    BY <1>7, <1>11, <1>12, <1>13, UndoBySet DEF Harmless
  <2>3. UndoFits(m, init, 3)
    BY <1>8, <1>11, <1>12, <1>13, UndoBySet DEF Harmless
  <2>4. UndoFits(m, init, 4)
    BY <1>9, <1>11, <1>12, <1>13, UndoBySet DEF Harmless
  <2>5. UndoFits(m, init, 5)
    BY <1>10, <1>11, <1>12, <1>13, UndoBySet DEF Harmless
  <2>6. QED
    BY <2>1, <2>2, <2>3, <2>4, <2>5
<1>15. \A k \in 1 .. Len(init) : CallFits(m, init, exit, k)
  <2> USE DEF CallFits, Outcomes, Silent
  <2>1. Rel(exit) \subseteq Gives(exit)
    BY RelGives
  <2>2. CallFits(m, init, exit, 1)
    BY <1>3, <1>4, <1>5, <1>6, <1>12, <1>13, <1>14, <2>1
  <2>3. CallFits(m, init, exit, 2)
    BY <1>3, <1>4, <1>5, <1>7, <1>12, <1>13, <1>14, <2>1
  <2>4. CallFits(m, init, exit, 3)
    BY <1>3, <1>4, <1>5, <1>8, <1>12, <1>13, <1>14, <2>1
  <2>5. CallFits(m, init, exit, 4)
    BY <1>3, <1>4, <1>5, <1>9, <1>12, <1>13, <1>14, <2>1
  <2>6. CallFits(m, init, exit, 5)
    BY <1>3, <1>4, <1>5, <1>10, <1>12, <1>13, <1>14, <2>1
  <2>7. QED
    BY <1>2, <2>2, <2>3, <2>4, <2>5, <2>6
<1>16. \A j \in 1 .. Len(exit) : exit[j] \in All(init)
  <2>1. Rel(exit) \subseteq Takes(init, 5) /\ All(init) = Takes(init, 5)
    BY <1>2, <1>5, <1>11 DEF All
  <2>2. QED
    BY <2>1 DEF Rel
<1>17. Fit(m, init, exit)
  BY <1>1, <1>15, <1>16 DEF Fit
<1>18. QED
  BY <1>17 DEF init, exit

\* 02.chardrvs.
LEMMA ChardrvsFit == Fit("chardrvs", ChardrvsInit, ChardrvsExit)
<1> DEFINE m == "chardrvs"
           init == ChardrvsInit
           exit == ChardrvsExit
           t == ChardrvsTail
<1>1. IsSeq(init) /\ IsSeq(exit) /\ Once(exit) /\ IsTail(t)
  BY DEF IsSeq, Once, ChardrvsInit, Call, ChardrvsExit, Each, IsTail, ChardrvsTail
<1>2. Len(init) = 9 /\ Len(t) = 8
  BY DEF ChardrvsInit, Call, ChardrvsTail
<1>3. /\ init[1].take = <<"chardrvs_ptr">> /\ init[2].take = <<"region">> /\ init[3].take = <<"class">>
      /\ init[4].take = <<"device">> /\ init[5].take = <<"cdev">> /\ init[6].take = <<"fifo">>
      /\ init[7].take = <<"proc_file">> /\ init[8].take = <<"dbg_dir">> /\ init[9].take = <<"dbg_file">>
  BY DEF ChardrvsInit, Call
<1>4. /\ init[1].outcome = "err" /\ init[2].outcome = "err" /\ init[3].outcome = "err"
      /\ init[4].outcome = "err" /\ init[5].outcome = "err" /\ init[6].outcome = "err"
      /\ init[7].outcome = "err" /\ init[8].outcome = "ignored" /\ init[9].outcome = "ignored"
  BY DEF ChardrvsInit, Call
<1>5. Rel(exit) = {<<"cdev">>, <<"device">>, <<"class">>, <<"region">>, <<"fifo">>, <<"proc_file">>, <<"dbg_dir">>, <<"chardrvs_ptr">>}
  BY DEF Rel, ChardrvsExit, Each
<1>6. IsSeq(init[1].undo) /\ Once(init[1].undo) /\ Rel(init[1].undo) = {}
  BY DEF IsSeq, Once, Rel, ChardrvsInit, Call
<1>7. IsSeq(init[2].undo) /\ Once(init[2].undo)
      /\ Rel(init[2].undo) = {<<"chardrvs_ptr">>}
  <2>1. init[2].undo = From(t, "err_free_dev")
    BY DEF ChardrvsInit, Call
  <2>2. t[8][1] = "err_free_dev" /\ {<<t[j][2]>> : j \in 8 .. 8} = {<<"chardrvs_ptr">>}
    BY DEF ChardrvsTail
  <2> HIDE DEF init, t
  <2>3. 8 \in 1 .. Len(t) /\ {<<t[j][2]>> : j \in 8 .. Len(t)} = {<<"chardrvs_ptr">>}
    BY <1>2, <2>2
  <2>4. QED
    BY <1>1, <2>1, <2>2, <2>3, FromLabel
<1>8. IsSeq(init[3].undo) /\ Once(init[3].undo)
      /\ Rel(init[3].undo) = {<<"region">>, <<"chardrvs_ptr">>}
  <2>1. init[3].undo = From(t, "err_unregister_chrdev")
    BY DEF ChardrvsInit, Call
  <2>2. t[7][1] = "err_unregister_chrdev" /\ {<<t[j][2]>> : j \in 7 .. 8} = {<<"region">>, <<"chardrvs_ptr">>}
    BY DEF ChardrvsTail
  <2> HIDE DEF init, t
  <2>3. 7 \in 1 .. Len(t) /\ {<<t[j][2]>> : j \in 7 .. Len(t)} = {<<"region">>, <<"chardrvs_ptr">>}
    BY <1>2, <2>2
  <2>4. QED
    BY <1>1, <2>1, <2>2, <2>3, FromLabel
<1>9. IsSeq(init[4].undo) /\ Once(init[4].undo)
      /\ Rel(init[4].undo) = {<<"class">>, <<"region">>, <<"chardrvs_ptr">>}
  <2>1. init[4].undo = From(t, "err_destruct_class")
    BY DEF ChardrvsInit, Call
  <2>2. t[6][1] = "err_destruct_class" /\ {<<t[j][2]>> : j \in 6 .. 8} = {<<"class">>, <<"region">>, <<"chardrvs_ptr">>}
    BY DEF ChardrvsTail
  <2> HIDE DEF init, t
  <2>3. 6 \in 1 .. Len(t) /\ {<<t[j][2]>> : j \in 6 .. Len(t)} = {<<"class">>, <<"region">>, <<"chardrvs_ptr">>}
    BY <1>2, <2>2
  <2>4. QED
    BY <1>1, <2>1, <2>2, <2>3, FromLabel
<1>10. IsSeq(init[5].undo) /\ Once(init[5].undo)
      /\ Rel(init[5].undo) = {<<"device">>, <<"class">>, <<"region">>, <<"chardrvs_ptr">>}
  <2>1. init[5].undo = From(t, "err_destruct_device")
    BY DEF ChardrvsInit, Call
  <2>2. t[5][1] = "err_destruct_device" /\ {<<t[j][2]>> : j \in 5 .. 8} = {<<"device">>, <<"class">>, <<"region">>, <<"chardrvs_ptr">>}
    BY DEF ChardrvsTail
  <2> HIDE DEF init, t
  <2>3. 5 \in 1 .. Len(t) /\ {<<t[j][2]>> : j \in 5 .. Len(t)} = {<<"device">>, <<"class">>, <<"region">>, <<"chardrvs_ptr">>}
    BY <1>2, <2>2
  <2>4. QED
    BY <1>1, <2>1, <2>2, <2>3, FromLabel
<1>11. IsSeq(init[6].undo) /\ Once(init[6].undo)
      /\ Rel(init[6].undo) = {<<"cdev">>, <<"device">>, <<"class">>, <<"region">>, <<"chardrvs_ptr">>}
  <2>1. init[6].undo = From(t, "err_unregister_cdev")
    BY DEF ChardrvsInit, Call
  <2>2. t[4][1] = "err_unregister_cdev" /\ {<<t[j][2]>> : j \in 4 .. 8} = {<<"cdev">>, <<"device">>, <<"class">>, <<"region">>, <<"chardrvs_ptr">>}
    BY DEF ChardrvsTail
  <2> HIDE DEF init, t
  <2>3. 4 \in 1 .. Len(t) /\ {<<t[j][2]>> : j \in 4 .. Len(t)} = {<<"cdev">>, <<"device">>, <<"class">>, <<"region">>, <<"chardrvs_ptr">>}
    BY <1>2, <2>2
  <2>4. QED
    BY <1>1, <2>1, <2>2, <2>3, FromLabel
<1>12. IsSeq(init[7].undo) /\ Once(init[7].undo)
      /\ Rel(init[7].undo) = {<<"fifo">>, <<"cdev">>, <<"device">>, <<"class">>, <<"region">>, <<"chardrvs_ptr">>}
  <2>1. init[7].undo = From(t, "err_setup_chardrvs")
    BY DEF ChardrvsInit, Call
  <2>2. t[3][1] = "err_setup_chardrvs" /\ {<<t[j][2]>> : j \in 3 .. 8} = {<<"fifo">>, <<"cdev">>, <<"device">>, <<"class">>, <<"region">>, <<"chardrvs_ptr">>}
    BY DEF ChardrvsTail
  <2> HIDE DEF init, t
  <2>3. 3 \in 1 .. Len(t) /\ {<<t[j][2]>> : j \in 3 .. Len(t)} = {<<"fifo">>, <<"cdev">>, <<"device">>, <<"class">>, <<"region">>, <<"chardrvs_ptr">>}
    BY <1>2, <2>2
  <2>4. QED
    BY <1>1, <2>1, <2>2, <2>3, FromLabel
<1>13. IsSeq(init[8].undo) /\ Once(init[8].undo)
      /\ Rel(init[8].undo) = {<<"proc_file">>, <<"fifo">>, <<"cdev">>, <<"device">>, <<"class">>, <<"region">>, <<"chardrvs_ptr">>}
  <2>1. init[8].undo = From(t, "err_procfs")
    BY DEF ChardrvsInit, Call
  <2>2. t[2][1] = "err_procfs" /\ {<<t[j][2]>> : j \in 2 .. 8} = {<<"proc_file">>, <<"fifo">>, <<"cdev">>, <<"device">>, <<"class">>, <<"region">>, <<"chardrvs_ptr">>}
    BY DEF ChardrvsTail
  <2> HIDE DEF init, t
  <2>3. 2 \in 1 .. Len(t) /\ {<<t[j][2]>> : j \in 2 .. Len(t)} = {<<"proc_file">>, <<"fifo">>, <<"cdev">>, <<"device">>, <<"class">>, <<"region">>, <<"chardrvs_ptr">>}
    BY <1>2, <2>2
  <2>4. QED
    BY <1>1, <2>1, <2>2, <2>3, FromLabel
<1>14. IsSeq(init[9].undo) /\ Once(init[9].undo)
      /\ Rel(init[9].undo) = {<<"dbg_dir">>, <<"proc_file">>, <<"fifo">>, <<"cdev">>, <<"device">>, <<"class">>, <<"region">>, <<"chardrvs_ptr">>}
  <2>1. init[9].undo = From(t, "err_dbg_dir")
    BY DEF ChardrvsInit, Call
  <2>2. t[1][1] = "err_dbg_dir" /\ {<<t[j][2]>> : j \in 1 .. 8} = {<<"dbg_dir">>, <<"proc_file">>, <<"fifo">>, <<"cdev">>, <<"device">>, <<"class">>, <<"region">>, <<"chardrvs_ptr">>}
    BY DEF ChardrvsTail
  <2> HIDE DEF init, t
  <2>3. 1 \in 1 .. Len(t) /\ {<<t[j][2]>> : j \in 1 .. Len(t)} = {<<"dbg_dir">>, <<"proc_file">>, <<"fifo">>, <<"cdev">>, <<"device">>, <<"class">>, <<"region">>, <<"chardrvs_ptr">>}
    BY <1>2, <2>2
  <2>4. QED
    BY <1>1, <2>1, <2>2, <2>3, FromLabel
<1> HIDE DEF init, exit, t
<1>15. /\ Takes(init, 0) = {}
      /\ Takes(init, 1) = {<<"chardrvs_ptr">>}
      /\ Takes(init, 2) = {<<"chardrvs_ptr">>, <<"region">>}
      /\ Takes(init, 3) = {<<"chardrvs_ptr">>, <<"region">>, <<"class">>}
      /\ Takes(init, 4) = {<<"chardrvs_ptr">>, <<"region">>, <<"class">>, <<"device">>}
      /\ Takes(init, 5) = {<<"chardrvs_ptr">>, <<"region">>, <<"class">>, <<"device">>, <<"cdev">>}
      /\ Takes(init, 6) = {<<"chardrvs_ptr">>, <<"region">>, <<"class">>, <<"device">>, <<"cdev">>, <<"fifo">>}
      /\ Takes(init, 7) = {<<"chardrvs_ptr">>, <<"region">>, <<"class">>, <<"device">>, <<"cdev">>, <<"fifo">>, <<"proc_file">>}
      /\ Takes(init, 8) = {<<"chardrvs_ptr">>, <<"region">>, <<"class">>, <<"device">>, <<"cdev">>, <<"fifo">>, <<"proc_file">>, <<"dbg_dir">>}
      /\ Takes(init, 9) = {<<"chardrvs_ptr">>, <<"region">>, <<"class">>, <<"device">>, <<"cdev">>, <<"fifo">>, <<"proc_file">>, <<"dbg_dir">>, <<"dbg_file">>}
  <2>1. Takes(init, 1) = {<<"chardrvs_ptr">>}
    BY <1>3, TakesNext
  <2>2. Takes(init, 2) = {<<"chardrvs_ptr">>, <<"region">>}
    BY <1>3, <2>1, TakesNext
  <2>3. Takes(init, 3) = {<<"chardrvs_ptr">>, <<"region">>, <<"class">>}
    BY <1>3, <2>2, TakesNext
  <2>4. Takes(init, 4) = {<<"chardrvs_ptr">>, <<"region">>, <<"class">>, <<"device">>}
    BY <1>3, <2>3, TakesNext
  <2>5. Takes(init, 5) = {<<"chardrvs_ptr">>, <<"region">>, <<"class">>, <<"device">>, <<"cdev">>}
    BY <1>3, <2>4, TakesNext
  <2>6. Takes(init, 6) = {<<"chardrvs_ptr">>, <<"region">>, <<"class">>, <<"device">>, <<"cdev">>, <<"fifo">>}
    BY <1>3, <2>5, TakesNext
  <2>7. Takes(init, 7) = {<<"chardrvs_ptr">>, <<"region">>, <<"class">>, <<"device">>, <<"cdev">>, <<"fifo">>, <<"proc_file">>}
    BY <1>3, <2>6, TakesNext
  <2>8. Takes(init, 8) = {<<"chardrvs_ptr">>, <<"region">>, <<"class">>, <<"device">>, <<"cdev">>, <<"fifo">>, <<"proc_file">>, <<"dbg_dir">>}
    BY <1>3, <2>7, TakesNext
  <2>9. Takes(init, 9) = {<<"chardrvs_ptr">>, <<"region">>, <<"class">>, <<"device">>, <<"cdev">>, <<"fifo">>, <<"proc_file">>, <<"dbg_dir">>, <<"dbg_file">>}
    BY <1>3, <2>8, TakesNext
  <2>10. QED
    BY TakesNext, <2>1, <2>2, <2>3, <2>4, <2>5, <2>6, <2>7, <2>8, <2>9
<1>16. UndoKeeps(m) = {} /\ ExitKeeps(m) = {} /\ Unchecked[m] = {<<"dbg_dir">>, <<"dbg_file">>} /\ Unchecked[m] \in Excuses(m)
  BY UncheckedNone, UncheckedSome DEF UndoKeeps, ExitKeeps, Excuses
<1>17. \A r \in {<<"chardrvs_ptr">>, <<"region">>, <<"class">>, <<"device">>, <<"cdev">>, <<"fifo">>, <<"proc_file">>, <<"dbg_dir">>, <<"dbg_file">>} : r \notin ProcFiles
  BY ProcNames
<1>18. /\ UndoFits(m, init, 1) /\ UndoFits(m, init, 2) /\ UndoFits(m, init, 3)
      /\ UndoFits(m, init, 4) /\ UndoFits(m, init, 5) /\ UndoFits(m, init, 6)
      /\ UndoFits(m, init, 7)
  <2> HIDE DEF m
  <2>1. UndoFits(m, init, 1)
    BY <1>6, <1>15, <1>16, <1>17, UndoBySet DEF Harmless
  <2>2. UndoFits(m, init, 2)
    BY <1>7, <1>15, <1>16, <1>17, UndoBySet DEF Harmless
  <2>3. UndoFits(m, init, 3)
    BY <1>8, <1>15, <1>16, <1>17, UndoBySet DEF Harmless
  <2>4. UndoFits(m, init, 4)
    BY <1>9, <1>15, <1>16, <1>17, UndoBySet DEF Harmless
  <2>5. UndoFits(m, init, 5)
    BY <1>10, <1>15, <1>16, <1>17, UndoBySet DEF Harmless
  <2>6. UndoFits(m, init, 6)
    BY <1>11, <1>15, <1>16, <1>17, UndoBySet DEF Harmless
  <2>7. UndoFits(m, init, 7)
    BY <1>12, <1>15, <1>16, <1>17, UndoBySet DEF Harmless
  <2>8. QED
    BY <2>1, <2>2, <2>3, <2>4, <2>5, <2>6, <2>7
<1>19. \A k \in 1 .. Len(init) : CallFits(m, init, exit, k)
  <2> USE DEF CallFits, Outcomes, Silent
  <2>1. Rel(exit) \subseteq Gives(exit)
    BY RelGives
  <2>2. CallFits(m, init, exit, 1)
    BY <1>3, <1>4, <1>5, <1>6, <1>16, <1>17, <1>18, <2>1
  <2>3. CallFits(m, init, exit, 2)
    BY <1>3, <1>4, <1>5, <1>7, <1>16, <1>17, <1>18, <2>1
  <2>4. CallFits(m, init, exit, 3)
    BY <1>3, <1>4, <1>5, <1>8, <1>16, <1>17, <1>18, <2>1
  <2>5. CallFits(m, init, exit, 4)
    BY <1>3, <1>4, <1>5, <1>9, <1>16, <1>17, <1>18, <2>1
  <2>6. CallFits(m, init, exit, 5)
    BY <1>3, <1>4, <1>5, <1>10, <1>16, <1>17, <1>18, <2>1
  <2>7. CallFits(m, init, exit, 6)
    BY <1>3, <1>4, <1>5, <1>11, <1>16, <1>17, <1>18, <2>1
  <2>8. CallFits(m, init, exit, 7)
    BY <1>3, <1>4, <1>5, <1>12, <1>16, <1>17, <1>18, <2>1
  <2>9. CallFits(m, init, exit, 8)
    BY <1>3, <1>4, <1>5, <1>13, <1>16, <1>17, <1>18, <2>1
  <2>10. CallFits(m, init, exit, 9)
    BY <1>3, <1>4, <1>5, <1>14, <1>16, <1>17, <1>18, <2>1
  <2>11. QED
    BY <1>2, <2>2, <2>3, <2>4, <2>5, <2>6, <2>7, <2>8, <2>9, <2>10
<1>20. \A j \in 1 .. Len(exit) : exit[j] \in All(init)
  <2>1. Rel(exit) \subseteq Takes(init, 9) /\ All(init) = Takes(init, 9)
    BY <1>2, <1>5, <1>15 DEF All
  <2>2. QED
    BY <2>1 DEF Rel
<1>21. Fit(m, init, exit)
  BY <1>1, <1>19, <1>20 DEF Fit
<1>22. QED
  BY <1>21 DEF init, exit

-----------------------------------------------------------------------------
(* 03.mcdevdrvs, whose tables depend on the number of minors *)

\* The thing of a name with number i, and all of them up to n.
Thing(name, i) == <<name, i>>
Numbered(name, n) == {Thing(name, i) : i \in 0 .. n - 1}

\* The i-th number of 0 .. n - 1, counted from below or from above.
Num(up, n, i) == IF up THEN i ELSE n - 1 - i

\* Things differ if their names or their numbers do.
LEMMA Things ==
  /\ \A x, y : \A i, j : Thing(x, i) = Thing(y, j) => x = y /\ i = j
  /\ \A x, y : \A i : Thing(x, i) # <<y>>
<1>1. ASSUME NEW x, NEW y, NEW i, NEW j, Thing(x, i) = Thing(y, j) PROVE x = y /\ i = j
  BY <1>1 DEF Thing
<1>2. ASSUME NEW x, NEW y, NEW i PROVE Thing(x, i) # <<y>>
  BY DEF Thing
<1>3. QED
  BY <1>1, <1>2

\* Counting from above twice is counting from below.
LEMMA NumTwice ==
  ASSUME NEW n \in Nat, NEW up, NEW i \in 0 .. n - 1
  PROVE  Num(up, n, i) \in 0 .. n - 1 /\ Num(up, n, Num(up, n, i)) = i
BY DEF Num

\* A list that releases one thing of a name per number.
Singles(f, name, up, n) ==
  IsSeq(f) /\ Len(f) = n /\ \A q \in 0 .. n - 1 : f[q + 1] = Thing(name, Num(up, n, q))

\* It releases all of them, each once.
LEMMA SinglesRel ==
  ASSUME NEW n \in Nat, NEW name, NEW up, NEW f, Singles(f, name, up, n)
  PROVE  Once(f) /\ Rel(f) = Numbered(name, n)
<1> DEFINE N(q) == Num(up, n, q)
<1>0. Len(f) = n /\ n \in Nat
  BY DEF Singles
<1>1. \A q \in 0 .. n - 1 : N(q) \in 0 .. n - 1 /\ N(N(q)) = q
  BY NumTwice
<1>2. \A q \in 0 .. n - 1 : f[q + 1] = Thing(name, N(q))
  BY DEF Singles
<1> HIDE DEF N
<1>3. ASSUME NEW j \in 1 .. n PROVE \E q \in 0 .. n - 1 : j = q + 1
  <2>1. j - 1 \in 0 .. n - 1 /\ j = (j - 1) + 1
    OBVIOUS
  <2>2. QED
    BY <2>1
<1>4. ASSUME NEW i \in 1 .. n, NEW j \in 1 .. n, f[i] = f[j] PROVE i = j
  <2>1. PICK q \in 0 .. n - 1 : i = q + 1
    BY <1>3
  <2>2. PICK r \in 0 .. n - 1 : j = r + 1
    BY <1>3
  <2>3. N(q) = N(r)
    BY <1>2, <1>4, <2>1, <2>2, Things
  <2>4. q = r
    BY <1>1, <2>3
  <2>5. QED
    BY <2>1, <2>2, <2>4
<1>5. ASSUME NEW j \in 1 .. n PROVE f[j] # <<"dbg_file">> /\ f[j] \in Numbered(name, n)
  <2>1. PICK q \in 0 .. n - 1 : j = q + 1
    BY <1>3
  <2>2. QED
    BY <1>1, <1>2, <2>1, Things DEF Numbered
<1>6. ASSUME NEW x \in Numbered(name, n) PROVE \E j \in 1 .. n : x = f[j]
  <2>1. PICK i \in 0 .. n - 1 : x = Thing(name, i)
    BY DEF Numbered
  <2>2. N(i) \in 0 .. n - 1 /\ f[N(i) + 1] = x
    BY <1>1, <1>2, <2>1
  <2>3. N(i) + 1 \in 1 .. n
    BY <2>2
  <2>4. QED
    BY <2>2, <2>3
<1>7. Once(f)
  BY <1>0, <1>4, <1>5 DEF Once
<1>8. Rel(f) = Numbered(name, n)
  BY <1>0, <1>5, <1>6, RelIs
<1>9. QED
  BY <1>7, <1>8

\* Every place of a list of pairs is the first or the second one of a pair.
LEMMA Halves ==
  ASSUME NEW n \in Nat, NEW j \in 1 .. 2 * n
  PROVE  \E q \in 0 .. n - 1 : j = 2 * q + 1 \/ j = 2 * q + 2
<1> DEFINE q == (j - 1) \div 2
<1>1. q \in 0 .. n - 1 /\ (j = 2 * q + 1 \/ j = 2 * q + 2)
  OBVIOUS
<1>2. QED
  BY <1>1

\* A list that releases a cdev and a device per number.
Doubles(f, up, n) ==
  /\ IsSeq(f) /\ Len(f) = 2 * n
  /\ \A q \in 0 .. n - 1 : /\ f[2 * q + 1] = Thing("cdev", Num(up, n, q))
                           /\ f[2 * q + 2] = Thing("device", Num(up, n, q))

\* It releases all of them, each once.
LEMMA DoublesRel ==
  ASSUME NEW n \in Nat, NEW up, NEW f, Doubles(f, up, n)
  PROVE  Once(f) /\ Rel(f) = Numbered("cdev", n) \cup Numbered("device", n)
<1> DEFINE N(q) == Num(up, n, q)
           S == Numbered("cdev", n) \cup Numbered("device", n)
           k == 2 * n
<1>0. Len(f) = k /\ k \in Nat
  BY DEF Doubles
<1>1. \A q \in 0 .. n - 1 : N(q) \in 0 .. n - 1 /\ N(N(q)) = q
  BY NumTwice
<1>2. \A q \in 0 .. n - 1 : f[2 * q + 1] = Thing("cdev", N(q)) /\ f[2 * q + 2] = Thing("device", N(q))
  BY DEF Doubles
<1>3. \A j \in 1 .. k : \E q \in 0 .. n - 1 : j = 2 * q + 1 \/ j = 2 * q + 2
  BY Halves
<1>4. \A q \in 0 .. n - 1 : 2 * q + 1 \in 1 .. k /\ 2 * q + 2 \in 1 .. k
  OBVIOUS
<1> HIDE DEF N, k
<1>5. ASSUME NEW i \in 1 .. k, NEW j \in 1 .. k, f[i] = f[j] PROVE i = j
  <2>1. PICK q \in 0 .. n - 1 : i = 2 * q + 1 \/ i = 2 * q + 2
    BY <1>3
  <2>2. PICK r \in 0 .. n - 1 : j = 2 * r + 1 \/ j = 2 * r + 2
    BY <1>3
  <2>3. (f[i] = Thing("cdev", N(q)) /\ i = 2 * q + 1) \/ (f[i] = Thing("device", N(q)) /\ i = 2 * q + 2)
    BY <1>2, <2>1
  <2>4. (f[j] = Thing("cdev", N(r)) /\ j = 2 * r + 1) \/ (f[j] = Thing("device", N(r)) /\ j = 2 * r + 2)
    BY <1>2, <2>2
  <2>5. "cdev" # "device"
    OBVIOUS
  <2>6. N(q) = N(r) /\ ((i = 2 * q + 1 /\ j = 2 * r + 1) \/ (i = 2 * q + 2 /\ j = 2 * r + 2))
    BY <1>5, <2>3, <2>4, <2>5, Things
  <2>7. q = r
    BY <1>1, <2>6
  <2>8. QED
    BY <2>6, <2>7
<1>6. ASSUME NEW j \in 1 .. k PROVE f[j] # <<"dbg_file">> /\ f[j] \in S
  <2>1. PICK q \in 0 .. n - 1 : j = 2 * q + 1 \/ j = 2 * q + 2
    BY <1>3
  <2>2. f[j] = Thing("cdev", N(q)) \/ f[j] = Thing("device", N(q))
    BY <1>2, <2>1
  <2>3. QED
    BY <1>1, <2>2, Things DEF Numbered
<1>7. ASSUME NEW x \in S PROVE \E j \in 1 .. k : x = f[j]
  <2>1. PICK i \in 0 .. n - 1 : x = Thing("cdev", i) \/ x = Thing("device", i)
    BY DEF Numbered
  <2>2. PICK q \in 0 .. n - 1 : N(q) = i
    BY <1>1
  <2>3. x = f[2 * q + 1] \/ x = f[2 * q + 2]
    BY <1>2, <2>1, <2>2
  <2>4. QED
    BY <1>4, <2>3
<1>8. Once(f)
  BY <1>0, <1>5, <1>6 DEF Once
<1> HIDE DEF S
<1>9. Rel(f) = S
  BY <1>0, <1>6, <1>7, RelIs
<1>10. QED
  BY <1>8, <1>9 DEF S

\* The two lists that a module with one thing of a kind of each releases last.
LEMMA ClassRegion ==
  LET f == Each(<<"class", "region">>)
  IN  IsSeq(f) /\ Len(f) = 2 /\ Once(f) /\ Rel(f) = {<<"class">>, <<"region">>}
<1> DEFINE names == <<"class", "region">>
<1>1. /\ IsSeq(names) /\ Len(names) = 2 /\ \A i, j \in 1 .. Len(names) : names[i] = names[j] => i = j
      /\ \A i \in 1 .. Len(names) : names[i] # "dbg_file"
  BY DEF IsSeq
<1>2. {<<names[i]>> : i \in 1 .. Len(names)} = {<<"class">>, <<"region">>}
  OBVIOUS
<1> HIDE DEF names
<1>3. /\ IsSeq(Each(names)) /\ Len(Each(names)) = 2 /\ Once(Each(names))
      /\ Rel(Each(names)) = {<<"class">>, <<"region">>}
  BY <1>1, <1>2, EachNames
<1>4. QED
  BY <1>3 DEF names

\* What both undo loops of mcdevdrvs release: all devices and cdevs down from
\* the given count, the count itself included.
LEMMA UndoDevs ==
  ASSUME NEW d \in Nat
  PROVE  /\ IsSeq(McdevdrvsUndoDevs(d)) /\ Once(McdevdrvsUndoDevs(d))
         /\ Rel(McdevdrvsUndoDevs(d)) =
              (Numbered("cdev", d + 1) \cup Numbered("device", d + 1)) \cup {<<"class">>, <<"region">>}
<1> DEFINE n == d + 1
           g == [j \in 1 .. 2 * (d + 1) |->
                   <<IF j % 2 = 1 THEN "cdev" ELSE "device", d - (j - 1) \div 2>>]
           e == Each(<<"class", "region">>)
           S == Numbered("cdev", n) \cup Numbered("device", n)
<1>1. n \in Nat /\ McdevdrvsUndoDevs(d) = g \o e
  BY DEF McdevdrvsUndoDevs
<1>2. IsSeq(g) /\ Len(g) = 2 * n
  BY DEF IsSeq
<1>3. ASSUME NEW q \in 0 .. n - 1
      PROVE  g[2 * q + 1] = Thing("cdev", Num(FALSE, n, q)) /\ g[2 * q + 2] = Thing("device", Num(FALSE, n, q))
  <2>1. /\ 2 * q + 1 \in 1 .. 2 * (d + 1) /\ 2 * q + 2 \in 1 .. 2 * (d + 1)
        /\ (2 * q + 1) % 2 = 1 /\ (2 * q + 2) % 2 # 1
        /\ ((2 * q + 1) - 1) \div 2 = q /\ ((2 * q + 2) - 1) \div 2 = q
    OBVIOUS
  <2>2. Num(FALSE, n, q) = d - q
    BY DEF Num
  <2>3. QED
    BY <2>1, <2>2 DEF Thing
<1> HIDE DEF g, n, e
<1>4. Doubles(g, FALSE, n)
  BY <1>2, <1>3 DEF Doubles
<1>5. Once(g) /\ Rel(g) = S
  BY <1>1, <1>4, DoublesRel
<1>6. IsSeq(e) /\ Once(e) /\ Rel(e) = {<<"class">>, <<"region">>}
  BY ClassRegion DEF e
<1>7. S \cap {<<"class">>, <<"region">>} = {}
  BY Things DEF Numbered
<1> HIDE DEF S
<1>8. IsSeq(g \o e) /\ Once(g \o e) /\ Rel(g \o e) = S \cup {<<"class">>, <<"region">>}
  BY <1>2, <1>5, <1>6, <1>7, Concat, RelConcat
<1>9. QED
  BY <1>1, <1>8 DEF S, n

\* ... and the fifos down from the given count.
LEMMA UndoFifos ==
  ASSUME NEW c \in Nat, NEW d \in Nat, d = NR_MINOR_DEVCS
  PROVE  /\ IsSeq(McdevdrvsUndoFifos(c)) /\ Once(McdevdrvsUndoFifos(c))
         /\ Rel(McdevdrvsUndoFifos(c)) = Numbered("fifo", c + 1) \cup
              ((Numbered("cdev", d + 1) \cup Numbered("device", d + 1)) \cup {<<"class">>, <<"region">>})
<1> DEFINE n == c + 1
           h == [j \in 1 .. c + 1 |-> <<"fifo", c - (j - 1)>>]
           u == McdevdrvsUndoDevs(d)
           S == (Numbered("cdev", d + 1) \cup Numbered("device", d + 1)) \cup {<<"class">>, <<"region">>}
<1>1. n \in Nat /\ McdevdrvsUndoFifos(c) = h \o u
  BY DEF McdevdrvsUndoFifos
<1>2. IsSeq(h) /\ Len(h) = n
  BY DEF IsSeq
<1>3. ASSUME NEW q \in 0 .. n - 1 PROVE h[q + 1] = Thing("fifo", Num(FALSE, n, q))
  <2>1. q + 1 \in 1 .. c + 1 /\ c - ((q + 1) - 1) = c - q /\ Num(FALSE, n, q) = c - q
    BY DEF Num
  <2>2. QED
    BY <2>1 DEF Thing
<1> HIDE DEF h, n, u
<1>4. Singles(h, "fifo", FALSE, n)
  BY <1>2, <1>3 DEF Singles
<1>5. Once(h) /\ Rel(h) = Numbered("fifo", n)
  BY <1>1, <1>4, SinglesRel
<1>6. IsSeq(u) /\ Once(u) /\ Rel(u) = S
  BY UndoDevs DEF u
<1>7. Numbered("fifo", n) \cap S = {}
  <2>1. "fifo" # "cdev" /\ "fifo" # "device"
    OBVIOUS
  <2>2. QED
    BY <2>1, Things DEF Numbered
<1> HIDE DEF S
<1>8. IsSeq(h \o u) /\ Once(h \o u) /\ Rel(h \o u) = Numbered("fifo", n) \cup S
  BY <1>2, <1>5, <1>6, <1>7, Concat, RelConcat
<1>9. QED
  BY <1>1, <1>8 DEF S, n

\* The exit of mcdevdrvs releases everything of all minors.
LEMMA McdevdrvsExitRel ==
  ASSUME NEW n \in Nat, n = NR_MINOR_DEVCS
  PROVE  /\ IsSeq(McdevdrvsExit) /\ Once(McdevdrvsExit)
         /\ Rel(McdevdrvsExit) =
              ((Numbered("cdev", n) \cup Numbered("device", n)) \cup {<<"class">>, <<"region">>})
                \cup Numbered("fifo", n)
<1> DEFINE g == [j \in 1 .. 2 * n |-> <<IF j % 2 = 1 THEN "cdev" ELSE "device", (j - 1) \div 2>>]
           e == Each(<<"class", "region">>)
           h == [j \in 1 .. n |-> <<"fifo", j - 1>>]
           S == Numbered("cdev", n) \cup Numbered("device", n)
           T == {<<"class">>, <<"region">>}
<1>1. McdevdrvsExit = (g \o e) \o h
  BY DEF McdevdrvsExit
<1>2. IsSeq(g) /\ Len(g) = 2 * n /\ IsSeq(h) /\ Len(h) = n
  BY DEF IsSeq
<1>3. ASSUME NEW q \in 0 .. n - 1
      PROVE  g[2 * q + 1] = Thing("cdev", Num(TRUE, n, q)) /\ g[2 * q + 2] = Thing("device", Num(TRUE, n, q))
  <2>1. /\ 2 * q + 1 \in 1 .. 2 * n /\ 2 * q + 2 \in 1 .. 2 * n
        /\ (2 * q + 1) % 2 = 1 /\ (2 * q + 2) % 2 # 1
        /\ ((2 * q + 1) - 1) \div 2 = q /\ ((2 * q + 2) - 1) \div 2 = q
    OBVIOUS
  <2>2. QED
    BY <2>1 DEF Thing, Num
<1>4. ASSUME NEW q \in 0 .. n - 1 PROVE h[q + 1] = Thing("fifo", Num(TRUE, n, q))
  <2>1. q + 1 \in 1 .. n /\ (q + 1) - 1 = q
    OBVIOUS
  <2>2. QED
    BY <2>1 DEF Thing, Num
<1> HIDE DEF g, e, h
<1>5. Once(g) /\ Rel(g) = S
  <2>1. Doubles(g, TRUE, n)
    BY <1>2, <1>3 DEF Doubles
  <2>2. QED
    BY <2>1, DoublesRel
<1>6. Once(h) /\ Rel(h) = Numbered("fifo", n)
  <2>1. Singles(h, "fifo", TRUE, n)
    BY <1>2, <1>4 DEF Singles
  <2>2. QED
    BY <2>1, SinglesRel
<1>7. IsSeq(e) /\ Once(e) /\ Rel(e) = T
  BY ClassRegion DEF e
<1>8. S \cap T = {} /\ (S \cup T) \cap Numbered("fifo", n) = {}
  <2>1. "fifo" # "cdev" /\ "fifo" # "device"
    OBVIOUS
  <2>2. QED
    BY <2>1, Things DEF Numbered
<1> HIDE DEF S, T
<1>9. IsSeq(g \o e) /\ Once(g \o e) /\ Rel(g \o e) = S \cup T
  BY <1>2, <1>5, <1>7, <1>8, Concat, RelConcat
<1>10. /\ IsSeq((g \o e) \o h) /\ Once((g \o e) \o h)
       /\ Rel((g \o e) \o h) = (S \cup T) \cup Numbered("fifo", n)
  BY <1>2, <1>6, <1>8, <1>9, Concat, RelConcat
<1>11. QED
  BY <1>1, <1>10 DEF S, T

\* The calls of mcdevdrvs' init, for n minors.
LEMMA McdevdrvsCalls ==
  ASSUME NEW n \in Nat, n = NR_MINOR_DEVCS
  PROVE  LET init == McdevdrvsInit
         IN  /\ IsSeq(init) /\ Len(init) = 3 * n + 2
             /\ init[1] = Call("region", "err", << >>)
             /\ init[2] = Call("class", "err", Each(<<"region">>))
             /\ \A q \in 0 .. n - 1 :
                  /\ init[2 * q + 3] = [take |-> Thing("device", q), outcome |-> "err", undo |-> McdevdrvsUndoDevs(q)]
                  /\ init[2 * q + 4] = [take |-> Thing("cdev", q), outcome |-> "zero", undo |-> McdevdrvsUndoDevs(q)]
                  /\ init[2 * n + q + 3] = [take |-> Thing("fifo", q), outcome |-> "err", undo |-> McdevdrvsUndoFifos(q)]
<1> DEFINE a == <<Call("region", "err", << >>), Call("class", "err", Each(<<"region">>))>>
           b == [j \in 1 .. 2 * n |->
                   [take    |-> <<IF j % 2 = 1 THEN "device" ELSE "cdev", (j - 1) \div 2>>,
                    outcome |-> IF j % 2 = 1 THEN "err" ELSE "zero",
                    undo    |-> McdevdrvsUndoDevs((j - 1) \div 2)]]
           c == [j \in 1 .. n |->
                   [take |-> <<"fifo", j - 1>>, outcome |-> "err", undo |-> McdevdrvsUndoFifos(j - 1)]]
           ab == a \o b
           init == ab \o c
<1>1. McdevdrvsInit = init
  BY DEF McdevdrvsInit
<1>2. IsSeq(a) /\ Len(a) = 2 /\ a[1] = Call("region", "err", << >>) /\ a[2] = Call("class", "err", Each(<<"region">>))
  BY DEF IsSeq
<1>3. IsSeq(b) /\ Len(b) = 2 * n /\ IsSeq(c) /\ Len(c) = n
  BY DEF IsSeq
<1>4. ASSUME NEW q \in 0 .. n - 1
      PROVE  /\ b[2 * q + 1] = [take |-> Thing("device", q), outcome |-> "err", undo |-> McdevdrvsUndoDevs(q)]
             /\ b[2 * q + 2] = [take |-> Thing("cdev", q), outcome |-> "zero", undo |-> McdevdrvsUndoDevs(q)]
  <2>1. /\ 2 * q + 1 \in 1 .. 2 * n /\ 2 * q + 2 \in 1 .. 2 * n
        /\ (2 * q + 1) % 2 = 1 /\ (2 * q + 2) % 2 # 1
        /\ ((2 * q + 1) - 1) \div 2 = q /\ ((2 * q + 2) - 1) \div 2 = q
    OBVIOUS
  <2>2. QED
    BY <2>1 DEF Thing
<1>5. ASSUME NEW q \in 0 .. n - 1
      PROVE  c[q + 1] = [take |-> Thing("fifo", q), outcome |-> "err", undo |-> McdevdrvsUndoFifos(q)]
  <2>1. q + 1 \in 1 .. n /\ (q + 1) - 1 = q
    OBVIOUS
  <2>2. QED
    BY <2>1 DEF Thing
<1> HIDE DEF a, b, c
<1>6. /\ IsSeq(ab) /\ Len(ab) = 2 + 2 * n
      /\ (\A i \in 1 .. 2 : ab[i] = a[i]) /\ (\A i \in 1 .. 2 * n : ab[2 + i] = b[i])
  <2>1. /\ IsSeq(ab) /\ Len(ab) = Len(a) + Len(b)
        /\ (\A i \in 1 .. Len(a) : ab[i] = a[i]) /\ (\A i \in 1 .. Len(b) : ab[Len(a) + i] = b[i])
    <3>1. IsSeq(a) /\ IsSeq(b)
      BY <1>2, <1>3
    <3>2. QED
      BY <3>1, Concat
  <2> HIDE DEF ab
  <2>2. QED
    BY <1>2, <1>3, <2>1
<1> HIDE DEF ab
<1>7. /\ IsSeq(init) /\ Len(init) = (2 + 2 * n) + n
      /\ (\A i \in 1 .. 2 + 2 * n : init[i] = ab[i]) /\ (\A i \in 1 .. n : init[(2 + 2 * n) + i] = c[i])
  <2>1. /\ IsSeq(init) /\ Len(init) = Len(ab) + Len(c)
        /\ (\A i \in 1 .. Len(ab) : init[i] = ab[i]) /\ (\A i \in 1 .. Len(c) : init[Len(ab) + i] = c[i])
    <3>1. IsSeq(ab) /\ IsSeq(c)
      BY <1>3, <1>6
    <3>2. QED
      BY <3>1, Concat
  <2> HIDE DEF init
  <2>2. QED
    BY <1>3, <1>6, <2>1
<1> HIDE DEF init
<1>8. IsSeq(init) /\ Len(init) = 3 * n + 2 /\ init[1] = a[1] /\ init[2] = a[2]
  BY <1>6, <1>7
<1>9. ASSUME NEW q \in 0 .. n - 1
      PROVE  init[2 * q + 3] = b[2 * q + 1] /\ init[2 * q + 4] = b[2 * q + 2] /\ init[2 * n + q + 3] = c[q + 1]
  <2>1. /\ 2 * q + 1 \in 1 .. 2 * n /\ 2 * q + 2 \in 1 .. 2 * n /\ q + 1 \in 1 .. n
        /\ 2 * q + 3 \in 1 .. 2 + 2 * n /\ 2 * q + 4 \in 1 .. 2 + 2 * n
    OBVIOUS
  <2>2. /\ 2 + (2 * q + 1) = 2 * q + 3 /\ 2 + (2 * q + 2) = 2 * q + 4
        /\ (2 + 2 * n) + (q + 1) = 2 * n + q + 3
    OBVIOUS
  <2>3. ab[2 * q + 3] = b[2 * q + 1] /\ ab[2 * q + 4] = b[2 * q + 2]
    BY <1>6, <2>1, <2>2
  <2>4. init[2 * n + q + 3] = c[q + 1]
    BY <1>7, <2>1, <2>2
  <2>5. QED
    BY <1>7, <2>1, <2>3, <2>4
<1>10. QED
  BY <1>1, <1>2, <1>4, <1>5, <1>8, <1>9

\* Which call of mcdevdrvs' init is the k-th one.
LEMMA McdevdrvsPlace ==
  ASSUME NEW n \in Nat, NEW k \in 1 .. 3 * n + 2
  PROVE  k = 1 \/ k = 2 \/ \E q \in 0 .. n - 1 : k = 2 * q + 3 \/ k = 2 * q + 4 \/ k = 2 * n + q + 3
<1>1. CASE k \in 3 .. 2 * n + 2
  <2>1. k - 2 \in 1 .. 2 * n
    BY <1>1
  <2>2. PICK q \in 0 .. n - 1 : k - 2 = 2 * q + 1 \/ k - 2 = 2 * q + 2
    BY <2>1, Halves
  <2>3. k = 2 * q + 3 \/ k = 2 * q + 4
    BY <2>2
  <2>4. QED
    BY <2>3
<1>2. CASE k \in 2 * n + 3 .. 3 * n + 2
  <2>1. k - 2 * n - 3 \in 0 .. n - 1 /\ k = 2 * n + (k - 2 * n - 3) + 3
    BY <1>2
  <2>2. QED
    BY <2>1
<1>3. QED
  BY <1>1, <1>2

\* 03.mcdevdrvs, for every number of minors.  The undo loops start at the cdev
\* that has not been added; that is the excuse of each.
LEMMA McdevdrvsFit == Fit("mcdevdrvs", McdevdrvsInit, McdevdrvsExit)
<1> DEFINE n == NR_MINOR_DEVCS
           m == "mcdevdrvs"
           init == McdevdrvsInit
           exit == McdevdrvsExit
           T == {<<"class">>, <<"region">>}
           U(d) == (Numbered("cdev", d + 1) \cup Numbered("device", d + 1)) \cup T
           X == ((Numbered("cdev", n) \cup Numbered("device", n)) \cup T) \cup Numbered("fifo", n)
<1>1. n \in Nat
  BY SetupAssumption
<1>2. /\ IsSeq(init) /\ Len(init) = 3 * n + 2
      /\ init[1] = Call("region", "err", << >>)
      /\ init[2] = Call("class", "err", Each(<<"region">>))
  BY <1>1, McdevdrvsCalls
<1>3. \A q \in 0 .. n - 1 :
        /\ init[2 * q + 3] = [take |-> Thing("device", q), outcome |-> "err", undo |-> McdevdrvsUndoDevs(q)]
        /\ init[2 * q + 4] = [take |-> Thing("cdev", q), outcome |-> "zero", undo |-> McdevdrvsUndoDevs(q)]
        /\ init[2 * n + q + 3] = [take |-> Thing("fifo", q), outcome |-> "err", undo |-> McdevdrvsUndoFifos(q)]
  BY <1>1, McdevdrvsCalls
<1>4. IsSeq(exit) /\ Once(exit) /\ Rel(exit) = X
  BY <1>1, McdevdrvsExitRel
<1>5. \A k \in 1 .. 3 * n + 2 :
        k = 1 \/ k = 2 \/ \E q \in 0 .. n - 1 : k = 2 * q + 3 \/ k = 2 * q + 4 \/ k = 2 * n + q + 3
  BY <1>1, McdevdrvsPlace
<1>6. \A d \in Nat : /\ IsSeq(McdevdrvsUndoDevs(d)) /\ Once(McdevdrvsUndoDevs(d))
                     /\ Rel(McdevdrvsUndoDevs(d)) = U(d)
  BY UndoDevs
<1>7. \A c \in Nat : /\ IsSeq(McdevdrvsUndoFifos(c)) /\ Once(McdevdrvsUndoFifos(c))
                     /\ Rel(McdevdrvsUndoFifos(c)) = Numbered("fifo", c + 1) \cup U(n)
  BY <1>1, UndoFifos
<1>8. /\ \A x, i : Thing(x, i) \notin ProcFiles
      /\ <<"class">> \notin ProcFiles /\ <<"region">> \notin ProcFiles
  BY ProcNames, Things
<1>9. \A i : Harmless(Thing("device", i)) /\ Harmless(Thing("fifo", i))
  BY DEF Harmless, Thing
<1>10. UndoKeeps(m) = {} /\ \A d \in 0 .. n : {Thing("cdev", d)} \in Excuses(m)
  BY DEF UndoKeeps, Excuses, Thing
<1>11. /\ init[1].take = <<"region">> /\ init[1].outcome = "err" /\ init[1].undo = << >>
       /\ init[2].take = <<"class">> /\ init[2].outcome = "err" /\ init[2].undo = Each(<<"region">>)
  BY <1>2 DEF Call
<1>12. \A q \in 0 .. n - 1 :
         /\ init[2 * q + 3].take = Thing("device", q) /\ init[2 * q + 3].outcome = "err"
         /\ init[2 * q + 3].undo = McdevdrvsUndoDevs(q)
         /\ init[2 * q + 4].take = Thing("cdev", q) /\ init[2 * q + 4].outcome = "zero"
         /\ init[2 * q + 4].undo = McdevdrvsUndoDevs(q)
         /\ init[2 * n + q + 3].take = Thing("fifo", q) /\ init[2 * n + q + 3].outcome = "err"
         /\ init[2 * n + q + 3].undo = McdevdrvsUndoFifos(q)
  <2> TAKE q \in 0 .. n - 1
  <2> DEFINE c1 == init[2 * q + 3]
             c2 == init[2 * q + 4]
             c3 == init[2 * n + q + 3]
  <2>1. /\ c1 = [take |-> Thing("device", q), outcome |-> "err", undo |-> McdevdrvsUndoDevs(q)]
        /\ c2 = [take |-> Thing("cdev", q), outcome |-> "zero", undo |-> McdevdrvsUndoDevs(q)]
        /\ c3 = [take |-> Thing("fifo", q), outcome |-> "err", undo |-> McdevdrvsUndoFifos(q)]
    BY <1>3
  <2> HIDE DEF c1, c2, c3
  <2>2. /\ c1.take = Thing("device", q) /\ c1.outcome = "err" /\ c1.undo = McdevdrvsUndoDevs(q)
        /\ c2.take = Thing("cdev", q) /\ c2.outcome = "zero" /\ c2.undo = McdevdrvsUndoDevs(q)
        /\ c3.take = Thing("fifo", q) /\ c3.outcome = "err" /\ c3.undo = McdevdrvsUndoFifos(q)
    BY <2>1
  <2>3. QED
    BY <2>2 DEF c1, c2, c3
<1> HIDE DEF n, init, exit
\* Which things the first calls take.
<1>13. ASSUME NEW h \in Nat, NEW r \in Takes(init, h), h <= 3 * n + 2
       PROVE  \/ r = <<"region">> /\ h >= 1
              \/ r = <<"class">> /\ h >= 2
              \/ \E q \in 0 .. n - 1 : \/ r = Thing("device", q) /\ h >= 2 * q + 3
                                       \/ r = Thing("cdev", q) /\ h >= 2 * q + 4
                                       \/ r = Thing("fifo", q) /\ h >= 2 * n + q + 3
  <2>1. PICK i \in 1 .. h : r = init[i].take
    BY DEF Takes
  <2>2. i \in 1 .. 3 * n + 2 /\ h >= i
    BY <1>1, <1>13
  <2>3. CASE i = 1 \/ i = 2
    BY <1>11, <2>1, <2>2, <2>3
  <2>4. CASE \E q \in 0 .. n - 1 : i = 2 * q + 3 \/ i = 2 * q + 4 \/ i = 2 * n + q + 3
    <3>1. PICK q \in 0 .. n - 1 : i = 2 * q + 3 \/ i = 2 * q + 4 \/ i = 2 * n + q + 3
      BY <2>4
    <3>2. QED
      BY <1>12, <2>1, <2>2, <3>1
  <2>5. QED
    BY <1>5, <2>2, <2>3, <2>4
<1>14. ASSUME NEW h \in Nat
       PROVE  /\ h >= 1 => <<"region">> \in Takes(init, h)
              /\ h >= 2 => <<"class">> \in Takes(init, h)
              /\ \A q \in 0 .. n - 1 : /\ h >= 2 * q + 3 => Thing("device", q) \in Takes(init, h)
                                       /\ h >= 2 * q + 4 => Thing("cdev", q) \in Takes(init, h)
                                       /\ h >= 2 * n + q + 3 => Thing("fifo", q) \in Takes(init, h)
  <2>1. \A i \in 1 .. h : init[i].take \in Takes(init, h)
    BY DEF Takes
  <2>2. (h >= 1 => <<"region">> \in Takes(init, h)) /\ (h >= 2 => <<"class">> \in Takes(init, h))
    BY <1>11, <2>1
  <2>3. ASSUME NEW q \in 0 .. n - 1
        PROVE  /\ h >= 2 * q + 3 => 2 * q + 3 \in 1 .. h
               /\ h >= 2 * q + 4 => 2 * q + 4 \in 1 .. h
               /\ h >= 2 * n + q + 3 => 2 * n + q + 3 \in 1 .. h
    BY <1>1
  <2>4. ASSUME NEW q \in 0 .. n - 1
        PROVE  /\ h >= 2 * q + 3 => Thing("device", q) \in Takes(init, h)
               /\ h >= 2 * q + 4 => Thing("cdev", q) \in Takes(init, h)
               /\ h >= 2 * n + q + 3 => Thing("fifo", q) \in Takes(init, h)
    BY <1>12, <2>1, <2>3
  <2>5. QED
    BY <2>2, <2>4
<1>15. ASSUME NEW k \in 1 .. 3 * n + 2 PROVE init[k].take \in X
  <2>1. CASE k = 1 \/ k = 2
    BY <1>11, <2>1
  <2>2. CASE \E q \in 0 .. n - 1 : k = 2 * q + 3 \/ k = 2 * q + 4 \/ k = 2 * n + q + 3
    BY <1>12, <2>2 DEF Numbered
  <2>3. QED
    BY <1>5, <2>1, <2>2
<1>16. X \subseteq Gives(exit) /\ X \cap ProcFiles = {}
  BY <1>4, <1>8, RelGives DEF Numbered
\* The undo of a failure while the device or the cdev of q is made, or after.
<1>17. ASSUME NEW k \in 1 .. 3 * n + 2, NEW q \in 0 .. n - 1, k = 2 * q + 3 \/ k = 2 * q + 4
       PROVE  UndoFits(m, init, k)
  <2> DEFINE h == k - 1
             D == Takes(init, h)
             E == {Thing("cdev", q)}
  <2>1. h \in Nat /\ h <= 3 * n + 2 /\ h >= 2 * q + 2 /\ h <= 2 * q + 3 /\ h <= 2 * n + 1
    BY <1>1, <1>17
  <2>2. Once(init[k].undo) /\ Rel(init[k].undo) = U(q)
    BY <1>6, <1>12, <1>17
  <2> HIDE DEF h
  <2>3. ASSUME NEW r \in D PROVE r \in U(q)
    <3>1. CASE r = <<"region">> \/ r = <<"class">>
      BY <3>1
    <3>2. CASE \E i \in 0 .. n - 1 : \/ r = Thing("device", i) /\ h >= 2 * i + 3
                                     \/ r = Thing("cdev", i) /\ h >= 2 * i + 4
                                     \/ r = Thing("fifo", i) /\ h >= 2 * n + i + 3
      <4>1. PICK i \in 0 .. n - 1 : \/ r = Thing("device", i) /\ h >= 2 * i + 3
                                    \/ r = Thing("cdev", i) /\ h >= 2 * i + 4
                                    \/ r = Thing("fifo", i) /\ h >= 2 * n + i + 3
        BY <3>2
      <4>2. i \in 0 .. (q + 1) - 1 /\ (r = Thing("device", i) \/ r = Thing("cdev", i))
        BY <1>1, <2>1, <4>1
      <4>3. QED
        BY <4>2 DEF Numbered
    <3>3. QED
      BY <1>13, <2>1, <3>1, <3>2
  <2>4. ASSUME NEW r \in U(q) PROVE r \notin ProcFiles /\ (r \in D \cup E \/ Harmless(r))
    <3>1. CASE r \in T
      BY <1>8, <1>14, <2>1, <3>1
    <3>2. CASE \E i \in 0 .. (q + 1) - 1 : r = Thing("device", i)
      BY <1>8, <1>9, <3>2
    <3>3. CASE \E i \in 0 .. (q + 1) - 1 : r = Thing("cdev", i)
      <4>1. PICK i \in 0 .. (q + 1) - 1 : r = Thing("cdev", i)
        BY <3>3
      <4>2. i = q \/ (i \in 0 .. n - 1 /\ h >= 2 * i + 4)
        BY <1>1, <2>1
      <4>3. QED
        BY <1>8, <1>14, <2>1, <4>1, <4>2
    <3>4. QED
      BY <3>1, <3>2, <3>3 DEF Numbered
  <2>5. E \in Excuses(m)
    <3>1. q \in 0 .. n
      BY <1>1
    <3>2. QED
      BY <1>10, <3>1
  <2>6. QED
    <3> HIDE DEF U, m, E
    <3>1. QED
      BY <2>2, <2>3, <2>4, <2>5, UndoBySet DEF h
\* ... and of one while the fifos are made.
<1>18. ASSUME NEW k \in 1 .. 3 * n + 2, NEW q \in 0 .. n - 1, k = 2 * n + q + 3
       PROVE  UndoFits(m, init, k)
  <2> DEFINE h == k - 1
             D == Takes(init, h)
             E == {Thing("cdev", n)}
             V == Numbered("fifo", q + 1) \cup U(n)
  <2>1. h \in Nat /\ h <= 3 * n + 2 /\ h = 2 * n + q + 2 /\ h >= 2
    BY <1>1, <1>18
  <2>2. Once(init[k].undo) /\ Rel(init[k].undo) = V
    BY <1>7, <1>12, <1>18
  <2> HIDE DEF h
  <2>3. ASSUME NEW r \in D PROVE r \in V
    <3>1. CASE r = <<"region">> \/ r = <<"class">>
      BY <3>1
    <3>2. CASE \E i \in 0 .. n - 1 : \/ r = Thing("device", i) /\ h >= 2 * i + 3
                                     \/ r = Thing("cdev", i) /\ h >= 2 * i + 4
                                     \/ r = Thing("fifo", i) /\ h >= 2 * n + i + 3
      <4>1. PICK i \in 0 .. n - 1 : \/ r = Thing("device", i) /\ h >= 2 * i + 3
                                    \/ r = Thing("cdev", i) /\ h >= 2 * i + 4
                                    \/ r = Thing("fifo", i) /\ h >= 2 * n + i + 3
        BY <3>2
      <4>2. \/ i \in 0 .. (n + 1) - 1 /\ (r = Thing("device", i) \/ r = Thing("cdev", i))
            \/ i \in 0 .. (q + 1) - 1 /\ r = Thing("fifo", i)
        BY <1>1, <2>1, <4>1
      <4>3. QED
        BY <4>2 DEF Numbered
    <3>3. QED
      BY <1>13, <2>1, <3>1, <3>2
  <2>4. ASSUME NEW r \in V PROVE r \notin ProcFiles /\ (r \in D \cup E \/ Harmless(r))
    <3>1. CASE r \in T
      BY <1>8, <1>14, <2>1, <3>1
    <3>2. CASE \E i : r = Thing("device", i) \/ r = Thing("fifo", i)
      BY <1>8, <1>9, <3>2
    <3>3. CASE \E i \in 0 .. (n + 1) - 1 : r = Thing("cdev", i)
      <4>1. PICK i \in 0 .. (n + 1) - 1 : r = Thing("cdev", i)
        BY <3>3
      <4>2. i = n \/ (i \in 0 .. n - 1 /\ h >= 2 * i + 4)
        BY <1>1, <2>1
      <4>3. QED
        BY <1>8, <1>14, <2>1, <4>1, <4>2
    <3>4. QED
      BY <3>1, <3>2, <3>3 DEF Numbered
  <2>5. E \in Excuses(m)
    <3>1. n \in 0 .. n
      BY <1>1
    <3>2. QED
      BY <1>10, <3>1
  <2>6. QED
    <3> HIDE DEF V, m, E
    <3>1. QED
      BY <2>2, <2>3, <2>4, <2>5, UndoBySet DEF h
<1>19. IsSeq(init[1].undo) /\ IsSeq(init[2].undo) /\ UndoFits(m, init, 1) /\ UndoFits(m, init, 2)
  <2>1. {Thing("cdev", 0)} \in Excuses(m)
    BY <1>1, <1>10
  <2>2. IsSeq(init[1].undo) /\ Once(init[1].undo) /\ Rel(init[1].undo) = {}
    BY <1>11 DEF IsSeq, Once, Rel
  <2>3. IsSeq(init[2].undo) /\ Once(init[2].undo) /\ Rel(init[2].undo) = {<<"region">>}
    <3> DEFINE names == <<"region">>
    <3>1. /\ IsSeq(names) /\ Len(names) = 1 /\ \A i, j \in 1 .. Len(names) : names[i] = names[j] => i = j
          /\ \A i \in 1 .. Len(names) : names[i] # "dbg_file"
      BY DEF IsSeq
    <3>2. {<<names[i]>> : i \in 1 .. Len(names)} = {<<"region">>}
      OBVIOUS
    <3>3. init[2].undo = Each(names)
      BY <1>11
    <3> HIDE DEF names
    <3>4. QED
      BY <3>1, <3>2, <3>3, EachNames
  <2>4. Takes(init, 1 - 1) = {} /\ Takes(init, 2 - 1) = {<<"region">>}
    BY <1>11, TakesNext
  <2> HIDE DEF m
  <2>5. UndoFits(m, init, 1)
    BY <2>1, <2>2, <2>4, UndoBySet
  <2>6. UndoFits(m, init, 2)
    BY <1>8, <2>1, <2>3, <2>4, UndoBySet
  <2>7. QED
    BY <2>2, <2>3, <2>5, <2>6
<1>20. ASSUME NEW k \in 1 .. 3 * n + 2
       PROVE  IsSeq(init[k].undo) /\ init[k].outcome \in {"err", "zero"} /\ UndoFits(m, init, k)
  <2>1. CASE k = 1 \/ k = 2
    BY <1>11, <1>19, <2>1
  <2>2. CASE \E q \in 0 .. n - 1 : k = 2 * q + 3 \/ k = 2 * q + 4
    <3>1. PICK q \in 0 .. n - 1 : k = 2 * q + 3 \/ k = 2 * q + 4
      BY <2>2
    <3>2. QED
      BY <1>6, <1>12, <1>17, <3>1
  <2>3. CASE \E q \in 0 .. n - 1 : k = 2 * n + q + 3
    <3>1. PICK q \in 0 .. n - 1 : k = 2 * n + q + 3
      BY <2>3
    <3>2. QED
      BY <1>7, <1>12, <1>18, <3>1
  <2>4. QED
    BY <1>5, <2>1, <2>2, <2>3
<1>21. ASSUME NEW k \in 1 .. 3 * n + 2 PROVE CallFits(m, init, exit, k)
  BY <1>15, <1>16, <1>20 DEF CallFits, Outcomes, Silent
<1>22. \A j \in 1 .. Len(exit) : exit[j] \in All(init)
  <2>1. ASSUME NEW r \in X PROVE r \in Takes(init, 3 * n + 2)
    <3>1. 3 * n + 2 \in Nat /\ 3 * n + 2 >= 2
      BY <1>1
    <3>2. CASE r \in T
      BY <1>14, <3>1, <3>2
    <3>3. CASE \E i \in 0 .. n - 1 : r = Thing("device", i) \/ r = Thing("cdev", i) \/ r = Thing("fifo", i)
      <4>1. PICK i \in 0 .. n - 1 : r = Thing("device", i) \/ r = Thing("cdev", i) \/ r = Thing("fifo", i)
        BY <3>3
      <4>2. 3 * n + 2 >= 2 * i + 3 /\ 3 * n + 2 >= 2 * i + 4 /\ 3 * n + 2 >= 2 * n + i + 3
        BY <1>1
      <4>3. QED
        BY <1>14, <3>1, <4>1, <4>2
    <3>4. QED
      BY <3>2, <3>3 DEF Numbered
  <2>2. \A j \in 1 .. Len(exit) : exit[j] \in X
    BY <1>4 DEF Rel
  <2> HIDE DEF X
  <2>3. QED
    BY <1>2, <2>1, <2>2 DEF All
<1>23. Fit(m, init, exit)
  BY <1>2, <1>4, <1>21, <1>22 DEF Fit
<1>24. QED
  BY <1>23 DEF init, exit

-----------------------------------------------------------------------------
(* The other tables *)

\* 07.pltdrv and 08.pltdrv_attr, the drivers.
LEMMA PltdrvFit ==
  ASSUME NEW m \in {"pltdrv", "pltdrv_attr"}
  PROVE  Fit(m, PltdrvInit, PltdrvExit)
<1> DEFINE init == PltdrvInit
           exit == PltdrvExit
<1>1. IsSeq(init) /\ IsSeq(exit) /\ Once(exit)
  BY DEF IsSeq, Once, PltdrvInit, Call, Each, PltdrvExit
<1>2. Len(init) = 3
  BY DEF PltdrvInit, Call, Each
<1>3. /\ init[1].take = <<"region">> /\ init[2].take = <<"pltdrv-fifoclass">> /\ init[3].take = <<"plt-fifo-dev">>
  BY DEF PltdrvInit, Call, Each
<1>4. /\ init[1].outcome = "err" /\ init[2].outcome = "err" /\ init[3].outcome = "ignored"
  BY DEF PltdrvInit, Call, Each
<1>5. Rel(exit) = {<<"plt-fifo-dev">>, <<"pltdrv-fifoclass">>, <<"region">>}
  BY DEF Rel, PltdrvExit, Each
<1>6. IsSeq(init[1].undo) /\ Once(init[1].undo) /\ Rel(init[1].undo) = {}
  BY DEF IsSeq, Once, Rel, PltdrvInit, Call, Each
<1>7. IsSeq(init[2].undo) /\ Once(init[2].undo) /\ Rel(init[2].undo) = {<<"region">>}
  BY DEF IsSeq, Once, Rel, PltdrvInit, Call, Each
<1>8. IsSeq(init[3].undo) /\ Once(init[3].undo) /\ Rel(init[3].undo) = {}
  BY DEF IsSeq, Once, Rel, PltdrvInit, Call, Each
<1> HIDE DEF init, exit
<1>9. /\ Takes(init, 0) = {}
      /\ Takes(init, 1) = {<<"region">>}
      /\ Takes(init, 2) = {<<"region">>, <<"pltdrv-fifoclass">>}
      /\ Takes(init, 3) = {<<"region">>, <<"pltdrv-fifoclass">>, <<"plt-fifo-dev">>}
  <2>1. Takes(init, 1) = {<<"region">>}
    BY <1>3, TakesNext
  <2>2. Takes(init, 2) = {<<"region">>, <<"pltdrv-fifoclass">>}
    BY <1>3, <2>1, TakesNext
  <2>3. Takes(init, 3) = {<<"region">>, <<"pltdrv-fifoclass">>, <<"plt-fifo-dev">>}
    BY <1>3, <2>2, TakesNext
  <2>4. QED
    BY TakesNext, <2>1, <2>2, <2>3
<1>10. UndoKeeps(m) = {} /\ ExitKeeps(m) = {} /\ Unchecked[m] = {<<"plt-fifo-dev">>} /\ Unchecked[m] \in Excuses(m)
  BY UncheckedNone, UncheckedSome DEF UndoKeeps, ExitKeeps, Excuses
<1>11. \A r \in {<<"region">>, <<"pltdrv-fifoclass">>, <<"plt-fifo-dev">>} : r \notin ProcFiles
  BY ProcNames
<1>12. /\ UndoFits(m, init, 1) /\ UndoFits(m, init, 2)
  <2>1. UndoFits(m, init, 1)
    BY <1>6, <1>9, <1>10, <1>11, UndoBySet DEF Harmless
  <2>2. UndoFits(m, init, 2)
    BY <1>7, <1>9, <1>10, <1>11, UndoBySet DEF Harmless
  <2>3. QED
    BY <2>1, <2>2
<1>13. \A k \in 1 .. Len(init) : CallFits(m, init, exit, k)
  <2> USE DEF CallFits, Outcomes, Silent
  <2>1. Rel(exit) \subseteq Gives(exit)
    BY RelGives
  <2>2. CallFits(m, init, exit, 1)
    BY <1>3, <1>4, <1>5, <1>6, <1>10, <1>11, <1>12, <2>1
  <2>3. CallFits(m, init, exit, 2)
    BY <1>3, <1>4, <1>5, <1>7, <1>10, <1>11, <1>12, <2>1
  <2>4. CallFits(m, init, exit, 3)
    BY <1>3, <1>4, <1>5, <1>8, <1>10, <1>11, <1>12, <2>1
  <2>5. QED
    BY <1>2, <2>2, <2>3, <2>4
<1>14. \A j \in 1 .. Len(exit) : exit[j] \in All(init)
  <2>1. Rel(exit) \subseteq Takes(init, 3) /\ All(init) = Takes(init, 3)
    BY <1>2, <1>5, <1>9 DEF All
  <2>2. QED
    BY <2>1 DEF Rel
<1>15. Fit(m, init, exit)
  BY <1>1, <1>13, <1>14 DEF Fit
<1>16. QED
  BY <1>15 DEF init, exit

\* 07.pltdrv, a device.
LEMMA PltdrvProbeFit == Fit("pltdrv_probe", PltdrvProbe, PltdrvRemove)
<1> DEFINE m == "pltdrv_probe"
           init == PltdrvProbe
           exit == PltdrvRemove
<1>1. IsSeq(init) /\ IsSeq(exit) /\ Once(exit)
  BY DEF IsSeq, Once, PltdrvProbe, Call, Each, PltdrvRemove
<1>2. Len(init) = 3
  BY DEF PltdrvProbe, Call, Each
<1>3. /\ init[1].take = <<"device">> /\ init[2].take = <<"cdev">> /\ init[3].take = <<"fifo">>
  BY DEF PltdrvProbe, Call, Each
<1>4. /\ init[1].outcome = "err" /\ init[2].outcome = "err" /\ init[3].outcome = "err"
  BY DEF PltdrvProbe, Call, Each
<1>5. Rel(exit) = {<<"fifo">>, <<"cdev">>, <<"device">>}
  BY DEF Rel, PltdrvRemove, Each
<1>6. IsSeq(init[1].undo) /\ Once(init[1].undo) /\ Rel(init[1].undo) = {}
  BY DEF IsSeq, Once, Rel, PltdrvProbe, Call, Each
<1>7. IsSeq(init[2].undo) /\ Once(init[2].undo) /\ Rel(init[2].undo) = {<<"device">>}
  BY DEF IsSeq, Once, Rel, PltdrvProbe, Call, Each
<1>8. IsSeq(init[3].undo) /\ Once(init[3].undo) /\ Rel(init[3].undo) = {<<"cdev">>, <<"device">>}
  <2> DEFINE names == <<"cdev", "device">>
  <2>1. init[3].undo = Each(names)
    BY DEF PltdrvProbe, Call
  <2>2. /\ IsSeq(names) /\ \A i, j \in 1 .. Len(names) : names[i] = names[j] => i = j
        /\ \A i \in 1 .. Len(names) : names[i] # "dbg_file"
    BY DEF IsSeq
  <2>3. {<<names[i]>> : i \in 1 .. Len(names)} = {<<"cdev">>, <<"device">>}
    OBVIOUS
  <2> HIDE DEF names, init
  <2>4. QED
    BY <2>1, <2>2, <2>3, EachNames
<1> HIDE DEF init, exit
<1>9. /\ Takes(init, 0) = {}
      /\ Takes(init, 1) = {<<"device">>}
      /\ Takes(init, 2) = {<<"device">>, <<"cdev">>}
      /\ Takes(init, 3) = {<<"device">>, <<"cdev">>, <<"fifo">>}
  <2>1. Takes(init, 1) = {<<"device">>}
    BY <1>3, TakesNext
  <2>2. Takes(init, 2) = {<<"device">>, <<"cdev">>}
    BY <1>3, <2>1, TakesNext
  <2>3. Takes(init, 3) = {<<"device">>, <<"cdev">>, <<"fifo">>}
    BY <1>3, <2>2, TakesNext
  <2>4. QED
    BY TakesNext, <2>1, <2>2, <2>3
<1>10. UndoKeeps(m) = {} /\ ExitKeeps(m) = {} /\ Unchecked[m] = {} /\ Unchecked[m] \in Excuses(m)
  BY UncheckedNone, UncheckedSome DEF UndoKeeps, ExitKeeps, Excuses
<1>11. \A r \in {<<"device">>, <<"cdev">>, <<"fifo">>} : r \notin ProcFiles
  BY ProcNames
<1>12. /\ UndoFits(m, init, 1) /\ UndoFits(m, init, 2) /\ UndoFits(m, init, 3)
  <2> HIDE DEF m
  <2>1. UndoFits(m, init, 1)
    BY <1>6, <1>9, <1>10, <1>11, UndoBySet DEF Harmless
  <2>2. UndoFits(m, init, 2)
    BY <1>7, <1>9, <1>10, <1>11, UndoBySet DEF Harmless
  <2>3. UndoFits(m, init, 3)
    BY <1>8, <1>9, <1>10, <1>11, UndoBySet DEF Harmless
  <2>4. QED
    BY <2>1, <2>2, <2>3
<1>13. \A k \in 1 .. Len(init) : CallFits(m, init, exit, k)
  <2> USE DEF CallFits, Outcomes, Silent
  <2>1. Rel(exit) \subseteq Gives(exit)
    BY RelGives
  <2>2. CallFits(m, init, exit, 1)
    BY <1>3, <1>4, <1>5, <1>6, <1>10, <1>11, <1>12, <2>1
  <2>3. CallFits(m, init, exit, 2)
    BY <1>3, <1>4, <1>5, <1>7, <1>10, <1>11, <1>12, <2>1
  <2>4. CallFits(m, init, exit, 3)
    BY <1>3, <1>4, <1>5, <1>8, <1>10, <1>11, <1>12, <2>1
  <2>5. QED
    BY <1>2, <2>2, <2>3, <2>4
<1>14. \A j \in 1 .. Len(exit) : exit[j] \in All(init)
  <2>1. Rel(exit) \subseteq Takes(init, 3) /\ All(init) = Takes(init, 3)
    BY <1>2, <1>5, <1>9 DEF All
  <2>2. QED
    BY <2>1 DEF Rel
<1>15. Fit(m, init, exit)
  BY <1>1, <1>13, <1>14 DEF Fit
<1>16. QED
  BY <1>15 DEF init, exit

\* 08.pltdrv_attr, a device.
LEMMA PltdrvAttrProbeFit == Fit("pltdrv_attr_probe", PltdrvAttrProbe, PltdrvAttrRemove)
<1> DEFINE m == "pltdrv_attr_probe"
           init == PltdrvAttrProbe
           exit == PltdrvAttrRemove
           t == PltdrvAttrTail
<1>1. IsSeq(init) /\ IsSeq(exit) /\ Once(exit) /\ IsTail(t)
  BY DEF IsSeq, Once, PltdrvAttrProbe, Call, PltdrvAttrRemove, Each, IsTail, PltdrvAttrTail
<1>2. Len(init) = 4 /\ Len(t) = 3
  BY DEF PltdrvAttrProbe, Call, PltdrvAttrTail
<1>3. /\ init[1].take = <<"device">> /\ init[2].take = <<"cdev">> /\ init[3].take = <<"fifo">>
      /\ init[4].take = <<"fifo_attr_grp">>
  BY DEF PltdrvAttrProbe, Call
<1>4. /\ init[1].outcome = "err" /\ init[2].outcome = "err" /\ init[3].outcome = "err"
      /\ init[4].outcome = "err"
  BY DEF PltdrvAttrProbe, Call
<1>5. Rel(exit) = {<<"fifo">>, <<"cdev">>, <<"device">>, <<"fifo_attr_grp">>}
  BY DEF Rel, PltdrvAttrRemove, Each
<1>6. IsSeq(init[1].undo) /\ Once(init[1].undo) /\ Rel(init[1].undo) = {}
  BY DEF IsSeq, Once, Rel, PltdrvAttrProbe, Call
<1>7. IsSeq(init[2].undo) /\ Once(init[2].undo)
      /\ Rel(init[2].undo) = {<<"device">>}
  <2>1. init[2].undo = From(t, "err_destruct_device")
    BY DEF PltdrvAttrProbe, Call
  <2>2. t[3][1] = "err_destruct_device" /\ {<<t[j][2]>> : j \in 3 .. 3} = {<<"device">>}
    BY DEF PltdrvAttrTail
  <2> HIDE DEF init, t
  <2>3. 3 \in 1 .. Len(t) /\ {<<t[j][2]>> : j \in 3 .. Len(t)} = {<<"device">>}
    BY <1>2, <2>2
  <2>4. QED
    BY <1>1, <2>1, <2>2, <2>3, FromLabel
<1>8. IsSeq(init[3].undo) /\ Once(init[3].undo)
      /\ Rel(init[3].undo) = {<<"cdev">>, <<"device">>}
  <2>1. init[3].undo = From(t, "err_unregister_cdev")
    BY DEF PltdrvAttrProbe, Call
  <2>2. t[2][1] = "err_unregister_cdev" /\ {<<t[j][2]>> : j \in 2 .. 3} = {<<"cdev">>, <<"device">>}
    BY DEF PltdrvAttrTail
  <2> HIDE DEF init, t
  <2>3. 2 \in 1 .. Len(t) /\ {<<t[j][2]>> : j \in 2 .. Len(t)} = {<<"cdev">>, <<"device">>}
    BY <1>2, <2>2
  <2>4. QED
    BY <1>1, <2>1, <2>2, <2>3, FromLabel
<1>9. IsSeq(init[4].undo) /\ Once(init[4].undo)
      /\ Rel(init[4].undo) = {<<"fifo">>, <<"cdev">>, <<"device">>}
  <2>1. init[4].undo = From(t, "err_setup_pltdrv")
    BY DEF PltdrvAttrProbe, Call
  <2>2. t[1][1] = "err_setup_pltdrv" /\ {<<t[j][2]>> : j \in 1 .. 3} = {<<"fifo">>, <<"cdev">>, <<"device">>}
    BY DEF PltdrvAttrTail
  <2> HIDE DEF init, t
  <2>3. 1 \in 1 .. Len(t) /\ {<<t[j][2]>> : j \in 1 .. Len(t)} = {<<"fifo">>, <<"cdev">>, <<"device">>}
    BY <1>2, <2>2
  <2>4. QED
    BY <1>1, <2>1, <2>2, <2>3, FromLabel
<1> HIDE DEF init, exit, t
<1>10. /\ Takes(init, 0) = {}
      /\ Takes(init, 1) = {<<"device">>}
      /\ Takes(init, 2) = {<<"device">>, <<"cdev">>}
      /\ Takes(init, 3) = {<<"device">>, <<"cdev">>, <<"fifo">>}
      /\ Takes(init, 4) = {<<"device">>, <<"cdev">>, <<"fifo">>, <<"fifo_attr_grp">>}
  <2>1. Takes(init, 1) = {<<"device">>}
    BY <1>3, TakesNext
  <2>2. Takes(init, 2) = {<<"device">>, <<"cdev">>}
    BY <1>3, <2>1, TakesNext
  <2>3. Takes(init, 3) = {<<"device">>, <<"cdev">>, <<"fifo">>}
    BY <1>3, <2>2, TakesNext
  <2>4. Takes(init, 4) = {<<"device">>, <<"cdev">>, <<"fifo">>, <<"fifo_attr_grp">>}
    BY <1>3, <2>3, TakesNext
  <2>5. QED
    BY TakesNext, <2>1, <2>2, <2>3, <2>4
<1>11. UndoKeeps(m) = {} /\ ExitKeeps(m) = {} /\ Unchecked[m] = {} /\ Unchecked[m] \in Excuses(m)
  BY UncheckedNone, UncheckedSome DEF UndoKeeps, ExitKeeps, Excuses
<1>12. \A r \in {<<"device">>, <<"cdev">>, <<"fifo">>, <<"fifo_attr_grp">>} : r \notin ProcFiles
  BY ProcNames
<1>13. /\ UndoFits(m, init, 1) /\ UndoFits(m, init, 2) /\ UndoFits(m, init, 3)
      /\ UndoFits(m, init, 4)
  <2> HIDE DEF m
  <2>1. UndoFits(m, init, 1)
    BY <1>6, <1>10, <1>11, <1>12, UndoBySet DEF Harmless
  <2>2. UndoFits(m, init, 2)
    BY <1>7, <1>10, <1>11, <1>12, UndoBySet DEF Harmless
  <2>3. UndoFits(m, init, 3)
    BY <1>8, <1>10, <1>11, <1>12, UndoBySet DEF Harmless
  <2>4. UndoFits(m, init, 4)
    BY <1>9, <1>10, <1>11, <1>12, UndoBySet DEF Harmless
  <2>5. QED
    BY <2>1, <2>2, <2>3, <2>4
<1>14. \A k \in 1 .. Len(init) : CallFits(m, init, exit, k)
  <2> USE DEF CallFits, Outcomes, Silent
  <2>1. Rel(exit) \subseteq Gives(exit)
    BY RelGives
  <2>2. CallFits(m, init, exit, 1)
    BY <1>3, <1>4, <1>5, <1>6, <1>11, <1>12, <1>13, <2>1
  <2>3. CallFits(m, init, exit, 2)
    BY <1>3, <1>4, <1>5, <1>7, <1>11, <1>12, <1>13, <2>1
  <2>4. CallFits(m, init, exit, 3)
    BY <1>3, <1>4, <1>5, <1>8, <1>11, <1>12, <1>13, <2>1
  <2>5. CallFits(m, init, exit, 4)
    BY <1>3, <1>4, <1>5, <1>9, <1>11, <1>12, <1>13, <2>1
  <2>6. QED
    BY <1>2, <2>2, <2>3, <2>4, <2>5
<1>15. \A j \in 1 .. Len(exit) : exit[j] \in All(init)
  <2>1. Rel(exit) \subseteq Takes(init, 4) /\ All(init) = Takes(init, 4)
    BY <1>2, <1>5, <1>10 DEF All
  <2>2. QED
    BY <2>1 DEF Rel
<1>16. Fit(m, init, exit)
  BY <1>1, <1>14, <1>15 DEF Fit
<1>17. QED
  BY <1>16 DEF init, exit

\* 09.virtbus.
LEMMA VirtbusFit == Fit("virtbus", VirtbusInit, VirtbusExit)
<1> DEFINE m == "virtbus"
           init == VirtbusInit
           exit == VirtbusExit
<1>1. IsSeq(init) /\ IsSeq(exit) /\ Once(exit)
  BY DEF IsSeq, Once, VirtbusInit, Call, Each, VirtbusExit
<1>2. Len(init) = 3
  BY DEF VirtbusInit, Call, Each
<1>3. /\ init[1].take = <<"bus">> /\ init[2].take = <<"bus_name">> /\ init[3].take = <<"bus_device">>
  BY DEF VirtbusInit, Call, Each
<1>4. /\ init[1].outcome = "err" /\ init[2].outcome = "sure" /\ init[3].outcome = "err"
  BY DEF VirtbusInit, Call, Each
<1>5. Rel(exit) = {<<"bus_device">>, <<"bus_name">>, <<"bus">>}
  BY DEF Rel, VirtbusExit, Each
<1>6. IsSeq(init[1].undo) /\ Once(init[1].undo) /\ Rel(init[1].undo) = {}
  BY DEF IsSeq, Once, Rel, VirtbusInit, Call, Each
<1>7. IsSeq(init[2].undo) /\ Once(init[2].undo) /\ Rel(init[2].undo) = {}
  BY DEF IsSeq, Once, Rel, VirtbusInit, Call, Each
<1>8. IsSeq(init[3].undo) /\ Once(init[3].undo) /\ Rel(init[3].undo) = {<<"bus">>}
  BY DEF IsSeq, Once, Rel, VirtbusInit, Call, Each
<1> HIDE DEF init, exit
<1>9. /\ Takes(init, 0) = {}
      /\ Takes(init, 1) = {<<"bus">>}
      /\ Takes(init, 2) = {<<"bus">>, <<"bus_name">>}
      /\ Takes(init, 3) = {<<"bus">>, <<"bus_name">>, <<"bus_device">>}
  <2>1. Takes(init, 1) = {<<"bus">>}
    BY <1>3, TakesNext
  <2>2. Takes(init, 2) = {<<"bus">>, <<"bus_name">>}
    BY <1>3, <2>1, TakesNext
  <2>3. Takes(init, 3) = {<<"bus">>, <<"bus_name">>, <<"bus_device">>}
    BY <1>3, <2>2, TakesNext
  <2>4. QED
    BY TakesNext, <2>1, <2>2, <2>3
<1>10. UndoKeeps(m) = {<<"bus_name">>} /\ ExitKeeps(m) = {} /\ Unchecked[m] = {} /\ Unchecked[m] \in Excuses(m)
  BY UncheckedNone, UncheckedSome DEF UndoKeeps, ExitKeeps, Excuses
<1>11. \A r \in {<<"bus">>, <<"bus_name">>, <<"bus_device">>} : r \notin ProcFiles
  BY ProcNames
<1>12. /\ UndoFits(m, init, 1) /\ UndoFits(m, init, 3)
  <2> HIDE DEF m
  <2>1. UndoFits(m, init, 1)
    BY <1>6, <1>9, <1>10, <1>11, UndoBySet DEF Harmless
  <2>2. UndoFits(m, init, 3)
    BY <1>8, <1>9, <1>10, <1>11, UndoBySet DEF Harmless
  <2>3. QED
    BY <2>1, <2>2
<1>13. \A k \in 1 .. Len(init) : CallFits(m, init, exit, k)
  <2> USE DEF CallFits, Outcomes, Silent
  <2>1. Rel(exit) \subseteq Gives(exit)
    BY RelGives
  <2>2. CallFits(m, init, exit, 1)
    BY <1>3, <1>4, <1>5, <1>6, <1>10, <1>11, <1>12, <2>1
  <2>3. CallFits(m, init, exit, 2)
    BY <1>3, <1>4, <1>5, <1>7, <1>10, <1>11, <1>12, <2>1
  <2>4. CallFits(m, init, exit, 3)
    BY <1>3, <1>4, <1>5, <1>8, <1>10, <1>11, <1>12, <2>1
  <2>5. QED
    BY <1>2, <2>2, <2>3, <2>4
<1>14. \A j \in 1 .. Len(exit) : exit[j] \in All(init)
  <2>1. Rel(exit) \subseteq Takes(init, 3) /\ All(init) = Takes(init, 3)
    BY <1>2, <1>5, <1>9 DEF All
  <2>2. QED
    BY <2>1 DEF Rel
<1>15. Fit(m, init, exit)
  BY <1>1, <1>13, <1>14 DEF Fit
<1>16. QED
  BY <1>15 DEF init, exit

\* 10.virtbusdevs_load.
LEMMA VirtbusdevsLoadFit == Fit("virtbusdevs_load", VirtbusdevsLoadInit, VirtbusdevsLoadExit)
<1> DEFINE m == "virtbusdevs_load"
           init == VirtbusdevsLoadInit
           exit == VirtbusdevsLoadExit
<1>1. init = << Call("name0", "sure", << >>), Call("virtbus_dev0", "ignored", << >>),
                Call("name1", "sure", << >>), Call("virtbus_dev1", "ignored", << >>) >>
  BY Pairs DEF VirtbusdevsLoadInit, RegisterVirtbusDevice
<1>2. exit = << <<"virtbus_dev0">>, <<"name0">>, <<"virtbus_dev1">>, <<"name1">> >>
  <2>1. ASSUME NEW x, NEW y PROVE Each(<<x, y>>) = << <<x>>, <<y>> >>
    BY DEF Each
  <2>2. /\ UnregisterVirtbusDevice("name0", "virtbus_dev0") = << <<"virtbus_dev0">>, <<"name0">> >>
        /\ UnregisterVirtbusDevice("name1", "virtbus_dev1") = << <<"virtbus_dev1">>, <<"name1">> >>
    BY <2>1 DEF UnregisterVirtbusDevice
  <2>3. QED
    BY <2>2, Pairs DEF VirtbusdevsLoadExit
<1>3. Unchecked[m] = {exit[i] : i \in DOMAIN exit}
  BY UncheckedExit
<1> HIDE DEF init, exit
<1>4. /\ IsSeq(init) /\ Len(init) = 4 /\ IsSeq(exit) /\ Len(exit) = 4 /\ Once(exit)
  BY <1>1, <1>2 DEF IsSeq, Once
<1>5. /\ init[1].take = exit[2] /\ init[2].take = exit[1] /\ init[3].take = exit[4] /\ init[4].take = exit[3]
  BY <1>1, <1>2 DEF Call
<1>6. \A k \in 1 .. 4 : init[k].undo = << >> /\ init[k].outcome \in {"sure", "ignored"}
  BY <1>1 DEF Call
<1>7. \A k \in 1 .. 4 : exit[k] \notin ProcFiles
  BY <1>2, ProcNames
<1>8. \A k \in 1 .. 4 : exit[k] \in Gives(exit) /\ exit[k] \in Unchecked[m]
  BY <1>3, <1>4, RelGives DEF Rel, IsSeq
<1>9. IsSeq(<< >>)
  BY DEF IsSeq
<1>10. \A k \in 1 .. 4 : CallFits(m, init, exit, k)
  <2>1. \A k \in 1 .. 4 : \E j \in 1 .. 4 : init[k].take = exit[j]
    BY <1>5
  <2>2. QED
    BY <1>6, <1>7, <1>8, <1>9, <2>1 DEF CallFits, Outcomes
<1>11. \A j \in 1 .. 4 : exit[j] \in All(init)
  BY <1>4, <1>5 DEF All, Takes
<1>12. Fit(m, init, exit)
  BY <1>4, <1>10, <1>11 DEF Fit
<1>13. QED
  BY <1>12 DEF init, exit

\* 15.ds1307_smbus_drv.
LEMMA Ds1307ProbeFit == Fit("ds1307_probe", Ds1307Probe, Ds1307Unbind)
<1> DEFINE m == "ds1307_probe"
           init == Ds1307Probe
           exit == Ds1307Unbind
<1>1. IsSeq(init) /\ IsSeq(exit) /\ Once(exit)
  BY DEF IsSeq, Once, Ds1307Probe, Call, Each, Ds1307Unbind
<1>2. Len(init) = 3
  BY DEF Ds1307Probe, Call, Each
<1>3. /\ init[1].take = <<"priv_dev">> /\ init[2].take = <<"rtc">> /\ init[3].take = <<"rtc_registered">>
  BY DEF Ds1307Probe, Call, Each
<1>4. /\ init[1].outcome = "err" /\ init[2].outcome = "err" /\ init[3].outcome = "err"
  BY DEF Ds1307Probe, Call, Each
<1>5. Rel(exit) = {<<"rtc_registered">>, <<"rtc">>, <<"priv_dev">>}
  BY DEF Rel, Ds1307Unbind, Each
<1>6. IsSeq(init[1].undo) /\ Once(init[1].undo) /\ Rel(init[1].undo) = {}
  BY DEF IsSeq, Once, Rel, Ds1307Probe, Call, Each
<1>7. IsSeq(init[2].undo) /\ Once(init[2].undo) /\ Rel(init[2].undo) = {<<"priv_dev">>}
  BY DEF IsSeq, Once, Rel, Ds1307Probe, Call, Each
<1>8. IsSeq(init[3].undo) /\ Once(init[3].undo) /\ Rel(init[3].undo) = {<<"rtc">>, <<"priv_dev">>}
  <2> DEFINE names == <<"rtc", "priv_dev">>
  <2>1. init[3].undo = Each(names)
    BY DEF Ds1307Probe, Call
  <2>2. /\ IsSeq(names) /\ \A i, j \in 1 .. Len(names) : names[i] = names[j] => i = j
        /\ \A i \in 1 .. Len(names) : names[i] # "dbg_file"
    BY DEF IsSeq
  <2>3. {<<names[i]>> : i \in 1 .. Len(names)} = {<<"rtc">>, <<"priv_dev">>}
    OBVIOUS
  <2> HIDE DEF names, init
  <2>4. QED
    BY <2>1, <2>2, <2>3, EachNames
<1> HIDE DEF init, exit
<1>9. /\ Takes(init, 0) = {}
      /\ Takes(init, 1) = {<<"priv_dev">>}
      /\ Takes(init, 2) = {<<"priv_dev">>, <<"rtc">>}
      /\ Takes(init, 3) = {<<"priv_dev">>, <<"rtc">>, <<"rtc_registered">>}
  <2>1. Takes(init, 1) = {<<"priv_dev">>}
    BY <1>3, TakesNext
  <2>2. Takes(init, 2) = {<<"priv_dev">>, <<"rtc">>}
    BY <1>3, <2>1, TakesNext
  <2>3. Takes(init, 3) = {<<"priv_dev">>, <<"rtc">>, <<"rtc_registered">>}
    BY <1>3, <2>2, TakesNext
  <2>4. QED
    BY TakesNext, <2>1, <2>2, <2>3
<1>10. UndoKeeps(m) = {} /\ ExitKeeps(m) = {} /\ Unchecked[m] = {} /\ Unchecked[m] \in Excuses(m)
  BY UncheckedNone, UncheckedSome DEF UndoKeeps, ExitKeeps, Excuses
<1>11. \A r \in {<<"priv_dev">>, <<"rtc">>, <<"rtc_registered">>} : r \notin ProcFiles
  BY ProcNames
<1>12. /\ UndoFits(m, init, 1) /\ UndoFits(m, init, 2) /\ UndoFits(m, init, 3)
  <2> HIDE DEF m
  <2>1. UndoFits(m, init, 1)
    BY <1>6, <1>9, <1>10, <1>11, UndoBySet DEF Harmless
  <2>2. UndoFits(m, init, 2)
    BY <1>7, <1>9, <1>10, <1>11, UndoBySet DEF Harmless
  <2>3. UndoFits(m, init, 3)
    BY <1>8, <1>9, <1>10, <1>11, UndoBySet DEF Harmless
  <2>4. QED
    BY <2>1, <2>2, <2>3
<1>13. \A k \in 1 .. Len(init) : CallFits(m, init, exit, k)
  <2> USE DEF CallFits, Outcomes, Silent
  <2>1. Rel(exit) \subseteq Gives(exit)
    BY RelGives
  <2>2. CallFits(m, init, exit, 1)
    BY <1>3, <1>4, <1>5, <1>6, <1>10, <1>11, <1>12, <2>1
  <2>3. CallFits(m, init, exit, 2)
    BY <1>3, <1>4, <1>5, <1>7, <1>10, <1>11, <1>12, <2>1
  <2>4. CallFits(m, init, exit, 3)
    BY <1>3, <1>4, <1>5, <1>8, <1>10, <1>11, <1>12, <2>1
  <2>5. QED
    BY <1>2, <2>2, <2>3, <2>4
<1>14. \A j \in 1 .. Len(exit) : exit[j] \in All(init)
  <2>1. Rel(exit) \subseteq Takes(init, 3) /\ All(init) = Takes(init, 3)
    BY <1>2, <1>5, <1>9 DEF All
  <2>2. QED
    BY <2>1 DEF Rel
<1>15. Fit(m, init, exit)
  BY <1>1, <1>13, <1>14 DEF Fit
<1>16. QED
  BY <1>15 DEF init, exit

\* 21.ramdisk_blkdev.
LEMMA RamdiskFit == Fit("ramdisk", RamdiskInit, RamdiskExit)
<1> DEFINE m == "ramdisk"
           init == RamdiskInit
           exit == RamdiskExit
           t == RamdiskTail
<1>1. IsSeq(init) /\ IsSeq(exit) /\ Once(exit) /\ IsTail(t)
  BY DEF IsSeq, Once, RamdiskInit, Call, RamdiskExit, Each, IsTail, RamdiskTail
<1>2. Len(init) = 6 /\ Len(t) = 5
  BY DEF RamdiskInit, Call, RamdiskTail
<1>3. /\ init[1].take = <<"blk_prv">> /\ init[2].take = <<"major">> /\ init[3].take = <<"data">>
      /\ init[4].take = <<"tag_set">> /\ init[5].take = <<"gdisk">> /\ init[6].take = <<"added">>
  BY DEF RamdiskInit, Call
<1>4. /\ init[1].outcome = "oops" /\ init[2].outcome = "ignored" /\ init[3].outcome = "err"
      /\ init[4].outcome = "err" /\ init[5].outcome = "err" /\ init[6].outcome = "err"
  BY DEF RamdiskInit, Call
<1>5. Rel(exit) = {<<"added">>, <<"tag_set">>, <<"data">>, <<"major">>, <<"blk_prv">>}
  BY DEF Rel, RamdiskExit, Each
<1>6. IsSeq(init[1].undo) /\ Once(init[1].undo) /\ Rel(init[1].undo) = {}
  BY DEF IsSeq, Once, Rel, RamdiskInit, Call
<1>7. IsSeq(init[2].undo) /\ Once(init[2].undo) /\ Rel(init[2].undo) = {}
  BY DEF IsSeq, Once, Rel, RamdiskInit, Call
<1>8. IsSeq(init[3].undo) /\ Once(init[3].undo)
      /\ Rel(init[3].undo) = {<<"major">>, <<"blk_prv">>}
  <2>1. init[3].undo = From(t, "err_alloc")
    BY DEF RamdiskInit, Call
  <2>2. t[4][1] = "err_alloc" /\ {<<t[j][2]>> : j \in 4 .. 5} = {<<"major">>, <<"blk_prv">>}
    BY DEF RamdiskTail
  <2> HIDE DEF init, t
  <2>3. 4 \in 1 .. Len(t) /\ {<<t[j][2]>> : j \in 4 .. Len(t)} = {<<"major">>, <<"blk_prv">>}
    BY <1>2, <2>2
  <2>4. QED
    BY <1>1, <2>1, <2>2, <2>3, FromLabel
<1>9. IsSeq(init[4].undo) /\ Once(init[4].undo)
      /\ Rel(init[4].undo) = {<<"data">>, <<"major">>, <<"blk_prv">>}
  <2>1. init[4].undo = From(t, "err_alloc_tag")
    BY DEF RamdiskInit, Call
  <2>2. t[3][1] = "err_alloc_tag" /\ {<<t[j][2]>> : j \in 3 .. 5} = {<<"data">>, <<"major">>, <<"blk_prv">>}
    BY DEF RamdiskTail
  <2> HIDE DEF init, t
  <2>3. 3 \in 1 .. Len(t) /\ {<<t[j][2]>> : j \in 3 .. Len(t)} = {<<"data">>, <<"major">>, <<"blk_prv">>}
    BY <1>2, <2>2
  <2>4. QED
    BY <1>1, <2>1, <2>2, <2>3, FromLabel
<1>10. IsSeq(init[5].undo) /\ Once(init[5].undo)
      /\ Rel(init[5].undo) = {<<"tag_set">>, <<"data">>, <<"major">>, <<"blk_prv">>}
  <2>1. init[5].undo = From(t, "err_mq_alloc")
    BY DEF RamdiskInit, Call
  <2>2. t[2][1] = "err_mq_alloc" /\ {<<t[j][2]>> : j \in 2 .. 5} = {<<"tag_set">>, <<"data">>, <<"major">>, <<"blk_prv">>}
    BY DEF RamdiskTail
  <2> HIDE DEF init, t
  <2>3. 2 \in 1 .. Len(t) /\ {<<t[j][2]>> : j \in 2 .. Len(t)} = {<<"tag_set">>, <<"data">>, <<"major">>, <<"blk_prv">>}
    BY <1>2, <2>2
  <2>4. QED
    BY <1>1, <2>1, <2>2, <2>3, FromLabel
<1>11. IsSeq(init[6].undo) /\ Once(init[6].undo)
      /\ Rel(init[6].undo) = {<<"added">>, <<"tag_set">>, <<"data">>, <<"major">>, <<"blk_prv">>}
  <2>1. init[6].undo = From(t, "err_add_disk")
    BY DEF RamdiskInit, Call
  <2>2. t[1][1] = "err_add_disk" /\ {<<t[j][2]>> : j \in 1 .. 5} = {<<"added">>, <<"tag_set">>, <<"data">>, <<"major">>, <<"blk_prv">>}
    BY DEF RamdiskTail
  <2> HIDE DEF init, t
  <2>3. 1 \in 1 .. Len(t) /\ {<<t[j][2]>> : j \in 1 .. Len(t)} = {<<"added">>, <<"tag_set">>, <<"data">>, <<"major">>, <<"blk_prv">>}
    BY <1>2, <2>2
  <2>4. QED
    BY <1>1, <2>1, <2>2, <2>3, FromLabel
<1> HIDE DEF init, exit, t
<1>12. /\ Takes(init, 0) = {}
      /\ Takes(init, 1) = {<<"blk_prv">>}
      /\ Takes(init, 2) = {<<"blk_prv">>, <<"major">>}
      /\ Takes(init, 3) = {<<"blk_prv">>, <<"major">>, <<"data">>}
      /\ Takes(init, 4) = {<<"blk_prv">>, <<"major">>, <<"data">>, <<"tag_set">>}
      /\ Takes(init, 5) = {<<"blk_prv">>, <<"major">>, <<"data">>, <<"tag_set">>, <<"gdisk">>}
      /\ Takes(init, 6) = {<<"blk_prv">>, <<"major">>, <<"data">>, <<"tag_set">>, <<"gdisk">>, <<"added">>}
  <2>1. Takes(init, 1) = {<<"blk_prv">>}
    BY <1>3, TakesNext
  <2>2. Takes(init, 2) = {<<"blk_prv">>, <<"major">>}
    BY <1>3, <2>1, TakesNext
  <2>3. Takes(init, 3) = {<<"blk_prv">>, <<"major">>, <<"data">>}
    BY <1>3, <2>2, TakesNext
  <2>4. Takes(init, 4) = {<<"blk_prv">>, <<"major">>, <<"data">>, <<"tag_set">>}
    BY <1>3, <2>3, TakesNext
  <2>5. Takes(init, 5) = {<<"blk_prv">>, <<"major">>, <<"data">>, <<"tag_set">>, <<"gdisk">>}
    BY <1>3, <2>4, TakesNext
  <2>6. Takes(init, 6) = {<<"blk_prv">>, <<"major">>, <<"data">>, <<"tag_set">>, <<"gdisk">>, <<"added">>}
    BY <1>3, <2>5, TakesNext
  <2>7. QED
    BY TakesNext, <2>1, <2>2, <2>3, <2>4, <2>5, <2>6
<1>13. UndoKeeps(m) = {<<"gdisk">>} /\ ExitKeeps(m) = {<<"gdisk">>} /\ Unchecked[m] = {<<"major">>}
      /\ {<<"added">>, <<"major">>} \in Excuses(m)
  BY UncheckedNone, UncheckedSome DEF UndoKeeps, ExitKeeps, Excuses
<1>14. \A r \in {<<"major">>, <<"blk_prv">>, <<"data">>, <<"tag_set">>, <<"added">>, <<"gdisk">>} : r \notin ProcFiles
  BY ProcNames
<1>15. /\ UndoFits(m, init, 3) /\ UndoFits(m, init, 4) /\ UndoFits(m, init, 5)
      /\ UndoFits(m, init, 6)
  <2> HIDE DEF m
  <2>1. UndoFits(m, init, 3)
    BY <1>8, <1>12, <1>13, <1>14, UndoBySet DEF Harmless
  <2>2. UndoFits(m, init, 4)
    BY <1>9, <1>12, <1>13, <1>14, UndoBySet DEF Harmless
  <2>3. UndoFits(m, init, 5)
    BY <1>10, <1>12, <1>13, <1>14, UndoBySet DEF Harmless
  <2>4. UndoFits(m, init, 6)
    BY <1>11, <1>12, <1>13, <1>14, UndoBySet DEF Harmless
  <2>5. QED
    BY <2>1, <2>2, <2>3, <2>4
<1>16. \A k \in 1 .. Len(init) : CallFits(m, init, exit, k)
  <2> USE DEF CallFits, Outcomes, Silent
  <2>1. Rel(exit) \subseteq Gives(exit)
    BY RelGives
  <2>2. CallFits(m, init, exit, 1)
    BY <1>3, <1>4, <1>5, <1>6, <1>13, <1>14, <1>15, <2>1
  <2>3. CallFits(m, init, exit, 2)
    BY <1>3, <1>4, <1>5, <1>7, <1>13, <1>14, <1>15, <2>1
  <2>4. CallFits(m, init, exit, 3)
    BY <1>3, <1>4, <1>5, <1>8, <1>13, <1>14, <1>15, <2>1
  <2>5. CallFits(m, init, exit, 4)
    BY <1>3, <1>4, <1>5, <1>9, <1>13, <1>14, <1>15, <2>1
  <2>6. CallFits(m, init, exit, 5)
    BY <1>3, <1>4, <1>5, <1>10, <1>13, <1>14, <1>15, <2>1
  <2>7. CallFits(m, init, exit, 6)
    BY <1>3, <1>4, <1>5, <1>11, <1>13, <1>14, <1>15, <2>1
  <2>8. QED
    BY <1>2, <2>2, <2>3, <2>4, <2>5, <2>6, <2>7
<1>17. \A j \in 1 .. Len(exit) : exit[j] \in All(init)
  <2>1. Rel(exit) \subseteq Takes(init, 6) /\ All(init) = Takes(init, 6)
    BY <1>2, <1>5, <1>12 DEF All
  <2>2. QED
    BY <2>1 DEF Rel
<1>18. Fit(m, init, exit)
  BY <1>1, <1>16, <1>17 DEF Fit
<1>19. QED
  BY <1>18 DEF init, exit

\* Every init and exit function of Setup has the form the invariant needs.
LEMMA Tables == \A m \in Modules : Fit(m, Init_of[m], Exit_of[m])
<1>1. /\ Init_of["kernelnewbies"] = KernelnewbiesInit /\ Exit_of["kernelnewbies"] = KernelnewbiesExit
      /\ Init_of["chardrvs"] = ChardrvsInit /\ Exit_of["chardrvs"] = ChardrvsExit
      /\ Init_of["mcdevdrvs"] = McdevdrvsInit /\ Exit_of["mcdevdrvs"] = McdevdrvsExit
      /\ Init_of["jit"] = JitInit /\ Exit_of["jit"] = JitCleanup
      /\ Init_of["jiq"] = JiqInit /\ Exit_of["jiq"] = JiqCleanup
  BY DEF Init_of, Exit_of
<1>2. /\ Init_of["pltdevs_load"] = PltdevsLoadInit /\ Exit_of["pltdevs_load"] = PltdevsLoadExit
      /\ Init_of["pltdrv"] = PltdrvInit /\ Exit_of["pltdrv"] = PltdrvExit
      /\ Init_of["pltdrv_probe"] = PltdrvProbe /\ Exit_of["pltdrv_probe"] = PltdrvRemove
      /\ Init_of["pltdrv_attr_probe"] = PltdrvAttrProbe /\ Exit_of["pltdrv_attr_probe"] = PltdrvAttrRemove
  BY DEF Init_of, Exit_of
<1>3. Init_of["pltdrv_attr"] = PltdrvInit /\ Exit_of["pltdrv_attr"] = PltdrvExit
  <2>1. PltdrvAttrInit = PltdrvInit /\ PltdrvAttrExit = PltdrvExit
    BY DEF PltdrvAttrInit, PltdrvInit, PltdrvAttrExit, PltdrvExit
  <2>2. Init_of["pltdrv_attr"] = PltdrvAttrInit /\ Exit_of["pltdrv_attr"] = PltdrvAttrExit
    BY DEF Init_of, Exit_of
  <2>3. QED
    BY <2>1, <2>2
<1>4. /\ Init_of["virtbus"] = VirtbusInit /\ Exit_of["virtbus"] = VirtbusExit
      /\ Init_of["virtbusdevs_load"] = VirtbusdevsLoadInit /\ Exit_of["virtbusdevs_load"] = VirtbusdevsLoadExit
      /\ Init_of["ds1307_probe"] = Ds1307Probe /\ Exit_of["ds1307_probe"] = Ds1307Unbind
      /\ Init_of["ramdisk"] = RamdiskInit /\ Exit_of["ramdisk"] = RamdiskExit
  BY DEF Init_of, Exit_of
<1>5. \A m \in {"kernelnewbies", "chardrvs", "mcdevdrvs", "jit", "jiq"} : Fit(m, Init_of[m], Exit_of[m])
  BY <1>1, KernelnewbiesFit, ChardrvsFit, McdevdrvsFit, IgnoringFit
<1>6. \A m \in {"pltdevs_load", "pltdrv", "pltdrv_probe", "pltdrv_attr", "pltdrv_attr_probe"} :
        Fit(m, Init_of[m], Exit_of[m])
  BY <1>2, <1>3, IgnoringFit, PltdrvFit, PltdrvProbeFit, PltdrvAttrProbeFit
<1>7. \A m \in {"virtbus", "virtbusdevs_load", "ds1307_probe", "ramdisk"} : Fit(m, Init_of[m], Exit_of[m])
  BY <1>4, VirtbusFit, VirtbusdevsLoadFit, Ds1307ProbeFit, RamdiskFit
<1>8. QED
  BY <1>5, <1>6, <1>7, ModuleNames

\* What a module does not check is excused in each of its undos.
LEMMA ExcusesCover == \A m \in Modules : \A E \in Excuses(m) : Unchecked[m] \subseteq E
<1> TAKE m \in Modules
<1>1. CASE m = "mcdevdrvs"
  <2>1. Unchecked[m] = {}
    BY <1>1, UncheckedNone
  <2>2. QED
    BY <2>1
<1>2. CASE m = "ramdisk"
  BY <1>2, UncheckedSome DEF Excuses
<1>3. CASE m # "mcdevdrvs" /\ m # "ramdisk"
  BY <1>3 DEF Excuses
<1>4. QED
  BY <1>1, <1>2, <1>3

\* jit and jiq check nothing, and only /proc/jitimer is in both.
LEMMA ProcShared ==
  /\ \A m \in InProc : All(Init_of[m]) \subseteq Unchecked[m]
  /\ \A m, n \in InProc : m # n => All(Init_of[m]) \cap All(Init_of[n]) \subseteq {<<"jitimer">>}
<1> DEFINE A == Init_of["jit"]
           B == Init_of["jiq"]
<1>1. A = JitInit /\ B = JiqInit
  BY DEF Init_of
<1>2. /\ Len(A) = 8 /\ (\A i \in 1 .. 8 : A[i].outcome = "ignored")
      /\ {A[i].take : i \in 1 .. 8} =
           {<<"currentime">>, <<"jitbusy">>, <<"jitsched">>, <<"jitqueue">>, <<"jitschedto">>,
            <<"jitimer">>, <<"jitasklet">>, <<"jitasklethi">>}
  BY <1>1 DEF JitInit, AllIgnored, Call
<1>3. /\ Len(B) = 4 /\ (\A i \in 1 .. 4 : B[i].outcome = "ignored")
      /\ {B[i].take : i \in 1 .. 4} = {<<"jiqwq">>, <<"jiqwqdelay">>, <<"jitimer">>, <<"jiqtasklet">>}
  BY <1>1 DEF JiqInit, AllIgnored, Call
<1> HIDE DEF A, B
<1>4. All(A) \subseteq Unchecked["jit"] /\ All(B) \subseteq Unchecked["jiq"]
  <2>1. Fit("jit", A, Exit_of["jit"]) /\ Fit("jiq", B, Exit_of["jiq"])
    BY Tables, ModuleNames DEF A, B
  <2>2. QED
    BY <1>2, <1>3, <2>1 DEF Fit, CallFits, All, Takes
<1>5. All(A) \cap All(B) \subseteq {<<"jitimer">>}
  <2>1. /\ All(A) = {<<"currentime">>, <<"jitbusy">>, <<"jitsched">>, <<"jitqueue">>, <<"jitschedto">>,
                     <<"jitimer">>, <<"jitasklet">>, <<"jitasklethi">>}
        /\ All(B) = {<<"jiqwq">>, <<"jiqwqdelay">>, <<"jitimer">>, <<"jiqtasklet">>}
    BY <1>2, <1>3 DEF All, Takes
  <2>2. QED
    BY <2>1
<1>6. QED
  BY <1>4, <1>5 DEF A, B, InProc

\* The directory in debugfs is not in /proc.
LEMMA NoDbgDir == <<"dbg_dir">> \notin ProcFiles
BY ProcNames

-----------------------------------------------------------------------------
(* The invariant *)

\* What m may be without because it does not look, or because it was undone.
Complete(m) ==
  \/ All(Init_of[m]) \ held[m] \subseteq Unchecked[m]
  \/ m \in Silent /\ held[m] = {}

\* m is in the middle of its init, after k calls.
After(m, k) ==
  LET init == Init_of[m]
  IN  /\ IsSeq(todo[m]) /\ Len(todo[m]) = Len(init) - k
      /\ \A i \in 1 .. Len(todo[m]) : todo[m][i] = init[k + i]
      /\ held[m] \subseteq Takes(init, k)
      /\ Takes(init, k) \ held[m] \subseteq Unchecked[m]

\* What m has yet to release is there, or its absence is excused by E.
There(m, E) ==
  \A j \in 1 .. Len(todo[m]) : todo[m][j] \in held[m] \cup E \/ Harmless(todo[m][j])

Releasing(m) ==
  IsSeq(todo[m]) /\ Once(todo[m])

InitInv(m) ==
  stage[m] = "init" => \E k \in 0 .. Len(Init_of[m]) : After(m, k)

UndoInv(m) ==
  stage[m] = "undo" =>
    /\ Releasing(m)
    /\ held[m] \subseteq Gives(todo[m]) \cup UndoKeeps(m)
    /\ \A j \in 1 .. Len(todo[m]) : todo[m][j] \notin ProcFiles
    /\ result[m] = "err" \/ m \in Silent

\* What remains of the exit of m is the end of its table.
Leaving(m) ==
  /\ Len(todo[m]) <= Len(Exit_of[m])
  /\ \A j \in 1 .. Len(todo[m]) : todo[m][j] = Exit_of[m][Len(Exit_of[m]) - Len(todo[m]) + j]

\* m was loaded with nothing, and its exit has found nothing.
Spared(m) ==
  /\ m \in Silent /\ stage[m] \in {"exit", "gone"} /\ held[m] = {}
  /\ \A r \in Released(m) : Harmless(r) \/ <<"exit", r>> \in strays[m]

ExitInv(m) ==
  /\ stage[m] = "loaded" => Complete(m)
  /\ stage[m] = "exit" =>
       /\ Releasing(m)
       /\ held[m] \subseteq Gives(todo[m]) \cup ExitKeeps(m)
       /\ There(m, Unchecked[m]) \/ Spared(m)
       /\ \A j \in 1 .. Len(todo[m]) : todo[m][j] \in All(Init_of[m])
       /\ Leaving(m)

EndInv(m) ==
  /\ stage[m] = "failed" => held[m] \subseteq UndoKeeps(m)
  /\ stage[m] = "gone" => held[m] \subseteq ExitKeeps(m)

\* The undo and the exit of m met only excused gaps so far.
StrayInv(m) ==
  /\ \E E \in Excuses(m) :
       /\ \A s \in strays[m] : s[1] = "undo" => s[2] \in E
       /\ stage[m] = "undo" => There(m, E)
  /\ stage[m] = "init" => strays[m] = {}
  /\ \/ \A s \in strays[m] : s[1] = "exit" => s[2] \in Unchecked[m]
     \/ Spared(m)

ModInv(m) == InitInv(m) /\ UndoInv(m) /\ ExitInv(m) /\ EndInv(m) /\ StrayInv(m)

ModType(m) ==
  /\ held[m] \subseteq All(Init_of[m])
  /\ stage[m] \in {"init", "undo", "loaded", "exit", "failed", "gone", "oops"}
  /\ result[m] \in {"err", "zero"}
  /\ stage[m] \in {"init", "loaded", "exit"} => result[m] = "zero"

SetupType ==
  /\ mods \subseteq Modules
  /\ DOMAIN stage = mods /\ DOMAIN result = mods /\ DOMAIN todo = mods
  /\ DOMAIN held = mods /\ DOMAIN strays = mods
  /\ \A m \in mods : ModType(m)

SetupInd ==
  /\ SetupType
  /\ \A m \in mods : ModInv(m)
  /\ robbed \subseteq {<<"jitimer">>}

-----------------------------------------------------------------------------
(* The steps *)

\* Taking the head off a list.
LEMMA HeadTail ==
  ASSUME NEW s, IsSeq(s), s # << >>
  PROVE  /\ Len(s) \in Nat \ {0} /\ Head(s) = s[1]
         /\ IsSeq(Tail(s)) /\ Len(Tail(s)) = Len(s) - 1
         /\ \A i \in 1 .. Len(s) - 1 : Tail(s)[i] = s[i + 1]
<1> DEFINE n == Len(s)
           S == {s[i] : i \in 1 .. n}
<1>1. n \in Nat /\ s \in [1 .. n -> S] /\ s = [i \in 1 .. n |-> s[i]]
  BY DEF IsSeq
<1>2. n # 0
  <2> HIDE DEF n, S
  <2>1. ASSUME n = 0 PROVE s = << >>
    BY <1>1, <2>1
  <2>2. QED
    BY <2>1
<1>3. s \in Seq(S) /\ Len(s) = n
  <2> HIDE DEF n, S
  <2>1. QED
    BY <1>1 DEF n
<1>4. /\ Head(s) = s[1] /\ Tail(s) \in Seq(S) /\ Len(Tail(s)) = n - 1
      /\ \A i \in 1 .. n - 1 : Tail(s)[i] = s[i + 1]
  <2> HIDE DEF n, S
  <2>1. QED
    BY <1>1, <1>2, <1>3
<1> DEFINE t == Tail(s)
<1>5. DOMAIN t = 1 .. Len(t) /\ t = [i \in 1 .. Len(t) |-> t[i]] /\ Len(t) \in Nat
  <2>1. t \in Seq(S)
    BY <1>4
  <2> HIDE DEF t, S
  <2>2. QED
    BY <2>1
<1>6. QED
  BY <1>1, <1>2, <1>4, <1>5 DEF IsSeq

\* A module that does nothing keeps its part of the invariant, even when
\* another one takes a file of /proc away from it.
LEMMA FrameInd ==
  ASSUME NEW n, ModType(n), ModInv(n), \A E \in Excuses(n) : Unchecked[n] \subseteq E,
         stage'[n] = stage[n], todo'[n] = todo[n], result'[n] = result[n], strays'[n] = strays[n],
         held'[n] \subseteq held[n], held[n] \ held'[n] \subseteq Unchecked[n]
  PROVE  ModType(n)' /\ ModInv(n)'
<1>1. ModType(n)'
  BY DEF ModType
<1>2. InitInv(n)'
  BY DEF ModInv, InitInv, After
<1>3. UndoInv(n)'
  BY DEF ModInv, UndoInv, Releasing
<1>4. ExitInv(n)' /\ EndInv(n)'
  BY DEF ModInv, ExitInv, EndInv, Releasing, Complete, There, Spared, Released, Leaving
<1>5. StrayInv(n)'
  BY DEF ModInv, StrayInv, There, Spared, Released
<1>6. QED
  BY <1>1, <1>2, <1>3, <1>4, <1>5 DEF ModInv

\* A step of one module keeps the invariant if it keeps that module's part and
\* takes nothing but unchecked things away from others.
LEMMA StepInd ==
  ASSUME SetupInd, NEW m \in mods, mods' = mods,
         DOMAIN stage' = mods, DOMAIN todo' = mods, DOMAIN result' = mods,
         DOMAIN held' = mods, DOMAIN strays' = mods,
         \A n \in mods \ {m} :
           /\ stage'[n] = stage[n] /\ todo'[n] = todo[n]
           /\ result'[n] = result[n] /\ strays'[n] = strays[n]
           /\ held'[n] \subseteq held[n] /\ held[n] \ held'[n] \subseteq Unchecked[n],
         ModType(m)', ModInv(m)', robbed' \subseteq {<<"jitimer">>}
  PROVE  SetupInd'
<1>1. ASSUME NEW n \in mods PROVE ModType(n)' /\ ModInv(n)'
  <2>1. CASE n = m
    BY <2>1
  <2>2. CASE n # m
    <3>1. n \in Modules /\ ModType(n) /\ ModInv(n)
      BY DEF SetupInd, SetupType
    <3>2. QED
      BY <2>2, <3>1, FrameInd, ExcusesCover
  <2>3. QED
    BY <2>1, <2>2
<1>2. QED
  BY <1>1 DEF SetupInd, SetupType

\* A call that succeeds.
LEMMA SucceedsInd ==
  ASSUME SetupInd, NEW m \in mods, CallSucceeds(m)
  PROVE  SetupInd'
<1> DEFINE init == Init_of[m]
           c == Head(todo[m])
<1>1. /\ stage[m] = "init" /\ todo[m] # << >> /\ UNCHANGED <<mods, stage, result, strays, robbed>>
      /\ held' = [held EXCEPT ![m] = held[m] \cup {c.take}]
      /\ todo' = [todo EXCEPT ![m] = Tail(todo[m])]
  BY DEF CallSucceeds
<1>2. m \in Modules /\ ModType(m) /\ ModInv(m) /\ m \in DOMAIN held /\ m \in DOMAIN todo
  BY DEF SetupInd, SetupType
<1>3. PICK k \in 0 .. Len(init) : After(m, k)
  BY <1>1, <1>2 DEF ModInv, InitInv
<1>4. IsSeq(init)
  BY <1>2, Tables DEF Fit
<1>5. /\ Len(todo[m]) \in Nat \ {0} /\ c = todo[m][1] /\ IsSeq(todo'[m])
      /\ Len(todo'[m]) = Len(todo[m]) - 1
      /\ \A i \in 1 .. Len(todo[m]) - 1 : todo'[m][i] = todo[m][i + 1]
  BY <1>1, <1>2, <1>3, HeadTail DEF After
<1>6. k + 1 \in 0 .. Len(init) /\ c = init[k + 1] /\ Len(init) \in Nat
  BY <1>3, <1>4, <1>5 DEF After, IsSeq
<1>7. held'[m] = held[m] \cup {init[k + 1].take}
  BY <1>1, <1>2, <1>6
<1>8. Takes(init, k + 1) = Takes(init, k) \cup {init[k + 1].take}
  <2> HIDE DEF init
  <2>1. 1 .. k + 1 = (1 .. k) \cup {k + 1}
    BY <1>6
  <2>2. QED
    BY <2>1 DEF Takes
<1>9. After(m, k + 1)'
  <2>1. Len(todo'[m]) = Len(init) - (k + 1)
    BY <1>3, <1>5, <1>6 DEF After
  <2>2. ASSUME NEW i \in 1 .. Len(todo'[m]) PROVE todo'[m][i] = init[k + 1 + i]
    <3>1. i \in 1 .. Len(todo[m]) - 1 /\ i + 1 \in 1 .. Len(todo[m]) /\ k + (i + 1) = k + 1 + i
      BY <1>5, <1>6
    <3>2. QED
      BY <1>3, <1>5, <3>1 DEF After
  <2>3. QED
    BY <1>3, <1>5, <1>7, <1>8, <2>1, <2>2 DEF After
<1>10. ModType(m)'
  <2>1. init[k + 1].take \in All(init)
    BY <1>6 DEF All, Takes
  <2>2. QED
    BY <1>1, <1>2, <1>7, <2>1 DEF ModType
<1>11. ModInv(m)'
  BY <1>1, <1>2, <1>6, <1>9 DEF ModInv, InitInv, UndoInv, ExitInv, EndInv, StrayInv
<1>12. QED
  BY <1>1, <1>10, <1>11, StepInd DEF SetupInd, SetupType

\* A call that fails: the next one, an undo, or an oops.
LEMMA FailsInd ==
  ASSUME SetupInd, NEW m \in mods, CallFails(m)
  PROVE  SetupInd'
<1> DEFINE init == Init_of[m]
           c == Head(todo[m])
<1>1. /\ stage[m] = "init" /\ todo[m] # << >> /\ UNCHANGED <<mods, held, strays, robbed>>
      /\ c.outcome # "sure"
      /\ stage' = [stage EXCEPT ![m] = IF c.outcome = "ignored" THEN "init"
                                       ELSE IF c.outcome = "oops" THEN "oops" ELSE "undo"]
      /\ todo' = [todo EXCEPT ![m] = IF c.outcome = "ignored" THEN Tail(todo[m]) ELSE c.undo]
      /\ result' = [result EXCEPT ![m] = IF c.outcome = "err" THEN "err" ELSE result[m]]
  BY DEF CallFails
<1>2. /\ m \in Modules /\ ModType(m) /\ ModInv(m)
      /\ m \in DOMAIN stage /\ m \in DOMAIN todo /\ m \in DOMAIN result
  BY DEF SetupInd, SetupType
<1>3. PICK k \in 0 .. Len(init) : After(m, k)
  BY <1>1, <1>2 DEF ModInv, InitInv
<1>4. IsSeq(init)
  BY <1>2, Tables DEF Fit
<1>5. /\ Len(todo[m]) \in Nat \ {0} /\ c = todo[m][1] /\ IsSeq(Tail(todo[m]))
      /\ Len(Tail(todo[m])) = Len(todo[m]) - 1
      /\ \A i \in 1 .. Len(todo[m]) - 1 : Tail(todo[m])[i] = todo[m][i + 1]
  BY <1>1, <1>3, HeadTail DEF After
<1>6. k + 1 \in 1 .. Len(init) /\ c = init[k + 1] /\ Len(init) \in Nat /\ k \in Nat
  BY <1>3, <1>4, <1>5 DEF After, IsSeq
<1>7. CallFits(m, init, Exit_of[m], k + 1)
  BY <1>2, <1>6, Tables DEF Fit
<1>8. strays[m] = {}
  BY <1>1, <1>2 DEF ModInv, StrayInv
<1>9. CASE c.outcome = "ignored"
  <2>1. stage'[m] = "init" /\ todo'[m] = Tail(todo[m]) /\ result'[m] = result[m]
    BY <1>1, <1>2, <1>9
  <2>2. Takes(init, k + 1) = Takes(init, k) \cup {init[k + 1].take}
    <3> HIDE DEF init
    <3>1. 1 .. k + 1 = (1 .. k) \cup {k + 1}
      BY <1>6
    <3>2. QED
      BY <3>1 DEF Takes
  <2>3. init[k + 1].take \in Unchecked[m]
    BY <1>6, <1>7, <1>9 DEF CallFits
  <2>4. After(m, k + 1)'
    <3>1. Len(todo'[m]) = Len(init) - (k + 1)
      BY <1>3, <1>5, <1>6, <2>1 DEF After
    <3>2. ASSUME NEW i \in 1 .. Len(todo'[m]) PROVE todo'[m][i] = init[k + 1 + i]
      <4>1. i \in 1 .. Len(todo[m]) - 1 /\ i + 1 \in 1 .. Len(todo[m]) /\ k + (i + 1) = k + 1 + i
        BY <1>5, <1>6, <2>1
      <4>2. QED
        BY <1>3, <1>5, <2>1, <4>1 DEF After
    <3>3. QED
      BY <1>1, <1>3, <1>5, <2>1, <2>2, <2>3, <3>1, <3>2 DEF After
  <2>5. ModType(m)'
    BY <1>1, <1>2, <2>1 DEF ModType
  <2>6. ModInv(m)'
    BY <1>1, <1>2, <1>6, <2>1, <2>4 DEF ModInv, InitInv, UndoInv, ExitInv, EndInv, StrayInv
  <2>7. QED
    BY <1>1, <2>5, <2>6, StepInd DEF SetupInd, SetupType
<1>10. CASE c.outcome = "oops"
  <2>1. stage'[m] = "oops" /\ result'[m] = result[m]
    BY <1>1, <1>2, <1>10
  <2>2. ModType(m)'
    BY <1>1, <1>2, <2>1 DEF ModType
  <2>3. ModInv(m)'
    BY <1>1, <1>2, <1>8, <2>1 DEF ModInv, InitInv, UndoInv, ExitInv, EndInv, StrayInv
  <2>4. QED
    BY <1>1, <2>2, <2>3, StepInd DEF SetupInd, SetupType
<1>11. CASE c.outcome \in {"err", "zero"}
  <2>1. /\ stage'[m] = "undo" /\ todo'[m] = init[k + 1].undo
        /\ result'[m] = IF c.outcome = "err" THEN "err" ELSE result[m]
    BY <1>1, <1>2, <1>6, <1>11
  <2>2. k + 1 - 1 = k
    BY <1>6
  <2>3. /\ Once(todo'[m]) /\ IsSeq(todo'[m])
        /\ \A j \in 1 .. Len(todo'[m]) : todo'[m][j] \notin ProcFiles
        /\ Takes(init, k) \subseteq Gives(todo'[m]) \cup UndoKeeps(m)
        /\ \E E \in Excuses(m) : \A j \in 1 .. Len(todo'[m]) :
             todo'[m][j] \in Takes(init, k) \cup E \/ Harmless(todo'[m][j])
    <3>1. UndoFits(m, init, k + 1) /\ IsSeq(init[k + 1].undo)
      BY <1>6, <1>7, <1>11 DEF CallFits
    <3> HIDE DEF init
    <3>2. Takes(init, k + 1 - 1) = Takes(init, k)
      BY <2>2
    <3>3. todo'[m] = init[k + 1].undo
      BY <2>1
    <3> DEFINE undo == init[k + 1].undo
    <3>4. /\ Once(undo) /\ IsSeq(undo)
          /\ \A j \in 1 .. Len(undo) : undo[j] \notin ProcFiles
          /\ Takes(init, k) \subseteq Gives(undo) \cup UndoKeeps(m)
          /\ \E E \in Excuses(m) : \A j \in 1 .. Len(undo) :
               undo[j] \in Takes(init, k) \cup E \/ Harmless(undo[j])
      BY <3>1, <3>2 DEF UndoFits
    <3> HIDE DEF undo
    <3>5. todo'[m] = undo
      BY <3>3 DEF undo
    <3>6. QED
      BY <3>4, <3>5
  <2>4. PICK E \in Excuses(m) : \A j \in 1 .. Len(todo'[m]) :
          todo'[m][j] \in Takes(init, k) \cup E \/ Harmless(todo'[m][j])
    BY <2>3
  <2>5. held'[m] = held[m] /\ held[m] \subseteq Takes(init, k) /\ Takes(init, k) \subseteq held[m] \cup E
    BY <1>1, <1>2, <1>3, ExcusesCover DEF After
  <2>6. There(m, E)'
    BY <2>4, <2>5 DEF There
  <2>7. result'[m] = "err" \/ m \in Silent
    BY <1>6, <1>7, <1>11, <2>1 DEF CallFits
  <2>8. ModType(m)'
    BY <1>1, <1>2, <2>1 DEF ModType
  <2>9. UndoInv(m)'
    <3>1. held'[m] \subseteq Gives(todo'[m]) \cup UndoKeeps(m)
      BY <2>3, <2>5
    <3>2. Releasing(m)'
      BY <2>3 DEF Releasing
    <3>3. QED
      BY <2>3, <2>7, <3>1, <3>2 DEF UndoInv
  <2>10. StrayInv(m)'
    BY <1>1, <1>8, <2>1, <2>6 DEF StrayInv
  <2>11. ModInv(m)'
    BY <2>1, <2>9, <2>10 DEF ModInv, InitInv, ExitInv, EndInv
  <2>12. QED
    BY <1>1, <2>8, <2>11, StepInd DEF SetupInd, SetupType
<1>12. QED
  BY <1>1, <1>6, <1>7, <1>9, <1>10, <1>11 DEF CallFits, Outcomes

\* A releasing call of an undo or an exit.
LEMMA ReleaseInd ==
  ASSUME SetupInd, NEW m \in mods, Release(m)
  PROVE  SetupInd'
<1> DEFINE r == Head(todo[m])
           others == {n \in mods \ {m} : r \in held[n] /\ r \in ProcFiles}
<1>1. /\ stage[m] \in {"undo", "exit"} /\ todo[m] # << >> /\ UNCHANGED <<mods, stage, result>>
      /\ todo' = [todo EXCEPT ![m] = Tail(todo[m])]
      /\ held' = [n \in mods |-> IF n = m \/ n \in others THEN held[n] \ WithContents(r) ELSE held[n]]
      /\ robbed' = IF others # {} THEN robbed \cup {r} ELSE robbed
      /\ strays' = IF r \in held[m] \/ others # {} \/ Harmless(r) THEN strays
                   ELSE [strays EXCEPT ![m] = strays[m] \cup {<<stage[m], r>>}]
  BY DEF Release
<1>2. /\ m \in Modules /\ mods \subseteq Modules /\ ModType(m) /\ ModInv(m)
      /\ m \in DOMAIN todo /\ m \in DOMAIN strays /\ m \in DOMAIN held
      /\ DOMAIN todo = mods /\ DOMAIN strays = mods
      /\ \A n \in mods : held[n] \subseteq All(Init_of[n])
  BY DEF SetupInd, SetupType, ModType
<1>3. IsSeq(todo[m]) /\ Once(todo[m])
  BY <1>1, <1>2 DEF ModInv, UndoInv, ExitInv, Releasing
<1>4. /\ Len(todo[m]) \in Nat \ {0} /\ r = todo[m][1] /\ todo'[m] = Tail(todo[m]) /\ IsSeq(todo'[m])
      /\ Len(todo'[m]) = Len(todo[m]) - 1
      /\ \A i \in 1 .. Len(todo[m]) - 1 : todo'[m][i] = todo[m][i + 1]
  BY <1>1, <1>2, <1>3, HeadTail
<1> HIDE DEF r
\* Only a file of /proc is taken away from others.
<1>5. \A n \in mods : r \in held[n] /\ r \in ProcFiles => n \in InProc /\ r \in Unchecked[n]
  <2> SUFFICES ASSUME NEW n \in mods, r \in held[n], r \in ProcFiles
               PROVE  n \in InProc /\ r \in Unchecked[n]
    OBVIOUS
  <2>1. PICK i \in 1 .. Len(Init_of[n]) : r = Init_of[n][i].take
    BY <1>2 DEF All, Takes
  <2>2. n \in InProc
    BY <1>2, <2>1, Tables DEF Fit, CallFits
  <2>3. QED
    BY <1>2, <2>2, ProcShared
<1>6. ASSUME NEW n \in mods \ {m}
      PROVE  held'[n] \subseteq held[n] /\ held[n] \ held'[n] \subseteq Unchecked[n]
  <2>1. CASE n \in others
    <3>1. r \in ProcFiles /\ r \in held[n]
      BY <2>1
    <3>2. WithContents(r) = {r}
      BY <3>1, NoDbgDir DEF WithContents
    <3>3. held'[n] = held[n] \ {r}
      BY <1>1, <2>1, <3>2
    <3>4. QED
      BY <1>5, <3>1, <3>3
  <2>2. CASE n \notin others
    BY <1>1, <2>2
  <2>3. QED
    BY <2>1, <2>2
<1>7. robbed' \subseteq {<<"jitimer">>}
  <2>1. ASSUME NEW n \in others PROVE r = <<"jitimer">>
    <3>1. n \in mods /\ n # m /\ r \in ProcFiles /\ r \in held[n] /\ n \in InProc /\ r \in All(Init_of[n])
      BY <1>2, <1>5
    <3>2. 1 \in 1 .. Len(todo[m])
      BY <1>4
    <3>3. stage[m] = "exit" /\ r \in All(Init_of[m])
      BY <1>1, <1>2, <1>4, <3>1, <3>2 DEF ModInv, UndoInv, ExitInv
    <3>4. PICK i \in 1 .. Len(Init_of[m]) : r = Init_of[m][i].take
      BY <3>3 DEF All, Takes
    <3>5. m \in InProc
      BY <1>2, <3>1, <3>4, Tables DEF Fit, CallFits
    <3>6. QED
      BY <3>1, <3>3, <3>5, ProcShared
  <2>2. QED
    BY <1>1, <2>1 DEF SetupInd
<1>8. held'[m] = held[m] \ WithContents(r)
  BY <1>1
<1> HIDE DEF others
\* What is still to be released is not touched.
<1>9. /\ Once(todo'[m])
      /\ \A j \in 1 .. Len(todo'[m]) : j + 1 \in 1 .. Len(todo[m]) /\ todo'[m][j] = todo[m][j + 1]
      /\ \A j \in 1 .. Len(todo'[m]) : todo'[m][j] \notin WithContents(r)
  <2>1. \A j \in 1 .. Len(todo'[m]) : j + 1 \in 1 .. Len(todo[m]) /\ todo'[m][j] = todo[m][j + 1]
    BY <1>4
  <2>2. Once(todo'[m])
    BY <1>3, <1>4, <2>1 DEF Once
  <2>3. ASSUME NEW j \in 1 .. Len(todo'[m]) PROVE todo'[m][j] \notin WithContents(r)
    <3>1. j + 1 \in 1 .. Len(todo[m]) /\ 1 \in 1 .. Len(todo[m]) /\ j + 1 # 1
      BY <1>4, <2>1
    <3>2. todo[m][j + 1] # r /\ todo[m][j + 1] # <<"dbg_file">>
      BY <1>3, <1>4, <3>1 DEF Once
    <3>3. QED
      BY <2>1, <3>2 DEF WithContents
  <2>4. QED
    BY <2>1, <2>2, <2>3
<1>10. Gives(todo[m]) \subseteq Gives(todo'[m]) \cup WithContents(r)
  <2> SUFFICES ASSUME NEW x \in Gives(todo[m]), x \notin WithContents(r) PROVE x \in Gives(todo'[m])
    OBVIOUS
  <2>1. PICK i \in 1 .. Len(todo[m]) : x \in WithContents(todo[m][i])
    BY DEF Gives
  <2>2. i # 1
    BY <1>4, <2>1
  <2>3. i - 1 \in 1 .. Len(todo'[m]) /\ (i - 1) + 1 = i
    BY <1>4, <2>2
  <2>4. todo'[m][i - 1] = todo[m][i]
    BY <1>9, <2>3
  <2>5. QED
    BY <2>1, <2>3, <2>4 DEF Gives
<1>11. ModType(m)'
  BY <1>1, <1>2, <1>8 DEF ModType
<1>12. UndoInv(m)'
  <2>1. CASE stage[m] = "undo"
    <3>1. held'[m] \subseteq Gives(todo'[m]) \cup UndoKeeps(m)
      BY <1>2, <1>8, <1>10, <2>1 DEF ModInv, UndoInv
    <3>2. \A j \in 1 .. Len(todo'[m]) : todo'[m][j] \notin ProcFiles
      BY <1>2, <1>9, <2>1 DEF ModInv, UndoInv
    <3>3. QED
      BY <1>1, <1>2, <1>4, <1>9, <2>1, <3>1, <3>2 DEF ModInv, UndoInv, Releasing
  <2>2. CASE stage[m] = "exit"
    BY <1>1, <2>2 DEF UndoInv
  <2>3. QED
    BY <1>1, <2>1, <2>2
\* A gap of the rest of the list was one before.
<1>13. ASSUME NEW E, There(m, E) PROVE There(m, E)'
  BY <1>8, <1>9, <1>13 DEF There
\* The exit goes on along its table.
<1>131. ASSUME stage[m] = "exit"
        PROVE  Leaving(m)' /\ Released(m)' = Released(m) \cup {r}
  <2> DEFINE e == Exit_of[m]
             n == Len(todo[m])
  <2>1. Leaving(m) /\ Len(e) \in Nat
    BY <1>2, <1>131, Tables DEF ModInv, ExitInv, Fit, IsSeq
  <2> HIDE DEF e
  <2>2. /\ n \in Nat \ {0} /\ Len(todo'[m]) = n - 1 /\ n <= Len(e)
        /\ \A j \in 1 .. n : todo[m][j] = e[Len(e) - n + j]
    BY <1>4, <2>1 DEF Leaving, e
  <2> HIDE DEF n
  <2>3. r = e[Len(e) - n + 1] /\ Len(e) - (n - 1) = Len(e) - n + 1 /\ Len(e) - n \in Nat
    BY <1>4, <2>1, <2>2
  <2>4. ASSUME NEW j \in 1 .. n - 1 PROVE todo'[m][j] = e[Len(e) - (n - 1) + j]
    <3>1. j \in 1 .. Len(todo[m]) - 1 /\ j + 1 \in 1 .. n
      BY <2>2 DEF n
    <3>2. Len(e) - n + (j + 1) = Len(e) - (n - 1) + j
      BY <2>1, <2>2, <3>1
    <3>3. QED
      BY <1>4, <2>2, <3>1, <3>2
  <2>5. Leaving(m)'
    BY <2>1, <2>2, <2>4 DEF Leaving, e
  <2>6. /\ Released(m) = {e[i] : i \in 1 .. Len(e) - n}
        /\ Released(m)' = {e[i] : i \in 1 .. Len(e) - (n - 1)}
    BY <2>2 DEF Released, e, n
  <2>7. 1 .. Len(e) - (n - 1) = (1 .. Len(e) - n) \cup {Len(e) - n + 1}
    BY <2>1, <2>2
  <2>8. QED
    BY <2>3, <2>5, <2>6, <2>7
\* If nothing was there so far, this is not either.
<1>132. ASSUME Spared(m) PROVE Spared(m)'
  <2>1. /\ m \in Silent /\ stage[m] = "exit" /\ held[m] = {}
        /\ \A x \in Released(m) : Harmless(x) \/ <<"exit", x>> \in strays[m]
    BY <1>1, <1>132 DEF Spared
  <2>2. r \notin ProcFiles
    <3>1. 1 \in 1 .. Len(todo[m])
      BY <1>4
    <3>2. r \in All(Init_of[m])
      BY <1>2, <1>4, <2>1, <3>1 DEF ModInv, ExitInv
    <3>3. PICK i \in 1 .. Len(Init_of[m]) : r = Init_of[m][i].take
      BY <3>2 DEF All, Takes
    <3>4. m \notin InProc
      BY <2>1 DEF Silent, InProc
    <3>5. QED
      BY <1>2, <3>3, <3>4, Tables DEF Fit, CallFits
  <2>3. others = {}
    BY <2>2 DEF others
  <2>4. Harmless(r) \/ <<"exit", r>> \in strays'[m]
    BY <1>1, <1>2, <2>1, <2>3
  <2>5. strays[m] \subseteq strays'[m]
    BY <1>1, <1>2
  <2>6. held'[m] = {} /\ stage'[m] = "exit"
    BY <1>1, <1>8, <2>1
  <2>7. \A x \in Released(m)' : Harmless(x) \/ <<"exit", x>> \in strays'[m]
    BY <1>131, <2>1, <2>4, <2>5
  <2>8. QED
    BY <2>1, <2>6, <2>7 DEF Spared
<1>14. ExitInv(m)'
  <2>1. CASE stage[m] = "undo"
    BY <1>1, <2>1 DEF ExitInv
  <2>2. CASE stage[m] = "exit"
    <3>1. held'[m] \subseteq Gives(todo'[m]) \cup ExitKeeps(m)
      BY <1>2, <1>8, <1>10, <2>2 DEF ModInv, ExitInv
    <3>2. \A j \in 1 .. Len(todo'[m]) : todo'[m][j] \in All(Init_of[m])
      BY <1>2, <1>9, <2>2 DEF ModInv, ExitInv
    <3>3. There(m, Unchecked[m])' \/ Spared(m)'
      BY <1>2, <1>13, <1>132, <2>2 DEF ModInv, ExitInv
    <3>4. Unchecked[m]' = Unchecked[m]
      BY DEF Unchecked
    <3>5. QED
      BY <1>1, <1>4, <1>9, <1>131, <2>2, <3>1, <3>2, <3>3, <3>4 DEF ExitInv, Releasing
  <2>3. QED
    BY <1>1, <2>1, <2>2
<1>15. StrayInv(m)'
  <2>1. PICK E \in Excuses(m) : /\ \A s \in strays[m] : s[1] = "undo" => s[2] \in E
                                /\ stage[m] = "undo" => There(m, E)
    BY <1>2 DEF ModInv, StrayInv
  <2>2. (\A s \in strays[m] : s[1] = "exit" => s[2] \in Unchecked[m]) \/ Spared(m)
    BY <1>2 DEF ModInv, StrayInv
  <2>3. 1 \in 1 .. Len(todo[m])
    BY <1>4
  <2>4. CASE strays' = strays
    BY <1>1, <1>13, <1>132, <2>1, <2>2, <2>4 DEF StrayInv
  <2>5. CASE strays' # strays
    <3>1. /\ r \notin held[m] /\ ~Harmless(r)
          /\ strays'[m] = strays[m] \cup {<<stage[m], r>>}
      BY <1>1, <1>2, <2>5
    <3>2. <<stage[m], r>>[1] = stage[m] /\ <<stage[m], r>>[2] = r
      OBVIOUS
    <3>3. CASE stage[m] = "undo"
      <4>1. r \in E
        BY <1>4, <2>1, <2>3, <3>1, <3>3 DEF There
      <4>2. QED
        BY <1>1, <1>13, <1>132, <2>1, <2>2, <3>1, <3>2, <3>3, <4>1 DEF StrayInv
    <3>4. CASE stage[m] = "exit"
      <4>1. r \in Unchecked[m] \/ Spared(m)
        BY <1>2, <1>4, <2>3, <3>1, <3>4 DEF ModInv, ExitInv, There
      <4>2. QED
        BY <1>1, <1>132, <2>1, <2>2, <3>1, <3>2, <3>4, <4>1 DEF StrayInv
    <3>5. QED
      BY <1>1, <3>3, <3>4
  <2>6. QED
    BY <2>4, <2>5
<1>16. ModInv(m)'
  BY <1>1, <1>12, <1>14, <1>15 DEF ModInv, InitInv, EndInv
<1>17. ASSUME NEW n \in mods \ {m}
       PROVE  stage'[n] = stage[n] /\ todo'[n] = todo[n] /\ result'[n] = result[n] /\ strays'[n] = strays[n]
  BY <1>1, <1>2
<1>18. /\ DOMAIN stage' = mods /\ DOMAIN todo' = mods /\ DOMAIN result' = mods
       /\ DOMAIN held' = mods /\ DOMAIN strays' = mods
  BY <1>1 DEF SetupInd, SetupType
<1>19. QED
  BY <1>1, <1>6, <1>7, <1>11, <1>16, <1>17, <1>18, StepInd

\* The end of a function.
LEMMA ReturnInd ==
  ASSUME SetupInd, NEW m \in mods, Return(m)
  PROVE  SetupInd'
<1> DEFINE next == CASE stage[m] = "exit" -> "gone"
                     [] result[m] = "err" -> "failed"
                     [] OTHER -> "loaded"
<1>1. /\ stage[m] \in {"init", "undo", "exit"} /\ todo[m] = << >>
      /\ stage' = [stage EXCEPT ![m] = next]
      /\ UNCHANGED <<mods, todo, result, held, strays, robbed>>
  BY DEF Return
<1>2. /\ m \in Modules /\ ModType(m) /\ ModInv(m) /\ m \in DOMAIN stage
      /\ stage'[m] = IF stage[m] = "exit" THEN "gone" ELSE IF result[m] = "err" THEN "failed" ELSE "loaded"
  <2>1. /\ m \in Modules /\ ModType(m) /\ ModInv(m) /\ m \in DOMAIN stage
    BY DEF SetupInd, SetupType
  <2>2. stage[m] = "exit" => result[m] # "err"
    BY <2>1 DEF ModType
  <2>3. next = IF stage[m] = "exit" THEN "gone" ELSE IF result[m] = "err" THEN "failed" ELSE "loaded"
    <3>1. CASE stage[m] = "exit"
      <4>1. result[m] # "err"
        BY <2>2, <3>1
      <4>2. QED
        BY <3>1, <4>1, Zenon
    <3>2. CASE stage[m] # "exit" /\ result[m] = "err"
      BY <3>2, Zenon
    <3>3. CASE stage[m] # "exit" /\ result[m] # "err"
      BY <3>3, Zenon
    <3>4. QED
      BY <3>1, <3>2, <3>3
  <2> HIDE DEF next
  <2>4. QED
    BY <1>1, <2>1, <2>3
<1> HIDE DEF next
<1>3. Len(todo[m]) = 0 /\ Gives(todo[m]) = {}
  BY <1>1 DEF Gives
<1>4. ModType(m)'
  BY <1>1, <1>2 DEF ModType
<1>5. StrayInv(m)'
  BY <1>1, <1>2 DEF ModInv, StrayInv, Spared, Released
<1>6. CASE stage[m] = "init"
  <2>1. stage'[m] = "loaded"
    BY <1>2, <1>6 DEF ModType
  <2>2. PICK k \in 0 .. Len(Init_of[m]) : After(m, k)
    BY <1>2, <1>6 DEF ModInv, InitInv
  <2>3. k = Len(Init_of[m])
    BY <1>2, <1>3, <2>2, Tables DEF After, Fit, IsSeq
  <2>4. Complete(m)'
    BY <1>1, <2>2, <2>3 DEF Complete, After, All
  <2>5. QED
    BY <1>1, <1>4, <1>5, <2>1, <2>4, StepInd
      DEF SetupInd, SetupType, ModInv, InitInv, UndoInv, ExitInv, EndInv
<1>7. CASE stage[m] = "undo"
  <2>1. held[m] \subseteq UndoKeeps(m)
    BY <1>2, <1>3, <1>7 DEF ModInv, UndoInv
  <2>2. stage'[m] = "failed" \/ (stage'[m] = "loaded" /\ m \in Silent)
    BY <1>2, <1>7 DEF ModInv, UndoInv
  <2>3. m \in Silent => Complete(m)'
    BY <1>1, <2>1 DEF Complete, UndoKeeps, Silent
  <2>4. QED
    BY <1>1, <1>4, <1>5, <2>1, <2>2, <2>3, StepInd
      DEF SetupInd, SetupType, ModInv, InitInv, UndoInv, ExitInv, EndInv
<1>8. CASE stage[m] = "exit"
  <2>1. held[m] \subseteq ExitKeeps(m) /\ stage'[m] = "gone"
    BY <1>2, <1>3, <1>8 DEF ModInv, ExitInv
  <2>2. QED
    BY <1>1, <1>4, <1>5, <2>1, StepInd
      DEF SetupInd, SetupType, ModInv, InitInv, UndoInv, ExitInv, EndInv
<1>9. QED
  BY <1>1, <1>6, <1>7, <1>8

\* The beginning of an exit.
LEMMA UnloadInd ==
  ASSUME SetupInd, NEW m \in mods, Unload(m)
  PROVE  SetupInd'
<1>1. /\ stage[m] = "loaded" /\ UNCHANGED <<mods, result, held, strays, robbed>>
      /\ stage' = [stage EXCEPT ![m] = "exit"] /\ todo' = [todo EXCEPT ![m] = Exit_of[m]]
  BY DEF Unload
<1>2. /\ m \in Modules /\ ModType(m) /\ ModInv(m) /\ stage'[m] = "exit" /\ todo'[m] = Exit_of[m]
  BY <1>1 DEF SetupInd, SetupType
<1>3. Fit(m, Init_of[m], Exit_of[m])
  BY <1>2, Tables
<1>4. All(Init_of[m]) \subseteq Gives(Exit_of[m]) \cup ExitKeeps(m)
  BY <1>3 DEF Fit, CallFits, All, Takes
<1>5. There(m, Unchecked[m])' \/ Spared(m)'
  <2>1. CASE m \in Silent /\ held[m] = {}
    <3>1. Released(m)' = {}
      BY <1>2, <1>3 DEF Released, Fit, IsSeq
    <3>2. QED
      BY <1>1, <1>2, <2>1, <3>1 DEF Spared
  <2>2. CASE ~(m \in Silent /\ held[m] = {})
    <3>1. All(Init_of[m]) \ held[m] \subseteq Unchecked[m]
      BY <1>1, <1>2, <2>2 DEF ModInv, ExitInv, Complete
    <3>2. QED
      BY <1>1, <1>2, <1>3, <3>1 DEF There, Fit
  <2>3. QED
    BY <2>1, <2>2
<1>6. ModType(m)'
  BY <1>1, <1>2 DEF ModType
<1>7. ExitInv(m)'
  <2>1. held'[m] \subseteq Gives(todo'[m]) \cup ExitKeeps(m)
    BY <1>1, <1>2, <1>4 DEF ModType
  <2>2. Releasing(m)' /\ \A j \in 1 .. Len(todo'[m]) : todo'[m][j] \in All(Init_of[m])
    BY <1>2, <1>3 DEF Releasing, Fit
  <2>3. Leaving(m)'
    BY <1>2, <1>3 DEF Leaving, Fit, IsSeq
  <2>4. QED
    BY <1>2, <1>5, <2>1, <2>2, <2>3 DEF ExitInv
<1>8. StrayInv(m)'
  <2>1. \A s \in strays[m] : s[1] = "exit" => s[2] \in Unchecked[m]
    BY <1>1, <1>2 DEF ModInv, StrayInv, Spared
  <2>2. QED
    BY <1>1, <1>2, <2>1 DEF ModInv, StrayInv
<1>9. ModInv(m)'
  BY <1>2, <1>7, <1>8 DEF ModInv, InitInv, UndoInv, EndInv
<1>10. QED
  BY <1>1, <1>6, <1>9, StepInd DEF SetupInd, SetupType

\* All modules keep to the invariant.
LEMMA SetupInvariance == SetupSpec => []SetupInd
<1>1. SetupInit => SetupInd
  <2> SUFFICES ASSUME SetupInit PROVE SetupInd
    OBVIOUS
  <2>1. mods \subseteq Modules
    BY SetupAssumption DEF SetupInit
  <2>2. ASSUME NEW m \in mods PROVE ModType(m) /\ ModInv(m)
    <3>1. /\ stage[m] = "init" /\ todo[m] = Init_of[m] /\ result[m] = "zero"
          /\ held[m] = {} /\ strays[m] = {}
      BY DEF SetupInit
    <3>2. IsSeq(Init_of[m])
      BY <2>1, Tables DEF Fit
    <3>3. After(m, 0)
      <4>1. Takes(Init_of[m], 0) = {}
        BY DEF Takes
      <4>2. QED
        BY <3>1, <3>2, <4>1 DEF After, IsSeq
    <3>4. InitInv(m)
      BY <3>2, <3>3 DEF InitInv, IsSeq
    <3>5. \E E \in Excuses(m) : TRUE
      <4>1. 0 \in 0 .. NR_MINOR_DEVCS
        BY SetupAssumption
      <4>2. QED
        BY <4>1 DEF Excuses
    <3>6. QED
      BY <3>1, <3>4, <3>5 DEF ModType, ModInv, UndoInv, ExitInv, EndInv, StrayInv
  <2>3. QED
    BY <2>1, <2>2 DEF SetupInd, SetupType, SetupInit
<1>2. SetupInd /\ [SetupNext]_setup_vars => SetupInd'
  <2> SUFFICES ASSUME SetupInd, [SetupNext]_setup_vars PROVE SetupInd'
    OBVIOUS
  <2>1. CASE UNCHANGED setup_vars
    BY <2>1 DEF setup_vars, SetupInd, SetupType, ModType, ModInv, InitInv, After, UndoInv, ExitInv,
                EndInv, StrayInv, There, Releasing, Complete, Spared, Released, Leaving
  <2>2. CASE SetupNext
    BY <2>2, SucceedsInd, FailsInd, ReleaseInd, ReturnInd, UnloadInd DEF SetupNext
  <2>3. QED
    BY <2>1, <2>2
<1>3. QED
  BY <1>1, <1>2, PTL DEF SetupSpec

-----------------------------------------------------------------------------
(* The theorems *)

\* Whichever call fails, and whatever else is loaded, a failed init and an exit
\* give everything back, but for virtbus' device name and ramdisk_blk's gendisk
\* (the init, exit, probe and remove functions under linux-device-drivers/).
THEOREM NothingIsLeft == SetupSpec => []LeavesNothing
<1>1. SetupInd => LeavesNothing
  <2> SUFFICES ASSUME SetupInd, NEW m \in mods, stage[m] \in {"failed", "gone"}
               PROVE  held[m] \subseteq (CASE m = "virtbus" /\ stage[m] = "failed" -> {<<"bus_name">>}
                                           [] m = "ramdisk" -> {<<"gdisk">>}
                                           [] OTHER -> {})
    BY DEF LeavesNothing
  <2>1. EndInv(m)
    BY DEF SetupInd, ModInv
  <2>2. CASE m = "virtbus" /\ stage[m] = "failed"
    <3>1. held[m] \subseteq {<<"bus_name">>}
      BY <2>1, <2>2 DEF EndInv, UndoKeeps
    <3>2. m # "ramdisk"
      BY <2>2
    <3>3. QED
      BY <2>2, <3>1, <3>2, Zenon
  <2>3. CASE m = "ramdisk"
    <3>1. held[m] \subseteq {<<"gdisk">>}
      BY <2>1, <2>3 DEF EndInv, UndoKeeps, ExitKeeps
    <3>2. m # "virtbus"
      BY <2>3
    <3>3. QED
      BY <2>3, <3>1, <3>2, Zenon
  <2>4. CASE m # "ramdisk" /\ ~(m = "virtbus" /\ stage[m] = "failed")
    <3>1. held[m] \subseteq {}
      BY <2>1, <2>4 DEF EndInv, UndoKeeps, ExitKeeps
    <3>2. QED
      BY <2>4, <3>1, Zenon
  <2>5. QED
    BY <2>2, <2>3, <2>4
<1>2. QED
  BY <1>1, SetupInvariance, PTL

\* A loaded module has all that its init takes, but for what it does not check,
\* or nothing where a failing cdev_add is reported as success; and no module
\* loses anything to another but /proc/jitimer, whichever are loaded together.
THEOREM LoadedHasAll == SetupSpec => []LoadedIsComplete
<1>1. SetupInd => LoadedIsComplete
  <2> SUFFICES ASSUME SetupInd PROVE LoadedIsComplete
    OBVIOUS
  <2>1. ASSUME NEW m \in mods, stage[m] = "loaded"
        PROVE  \/ {Init_of[m][i].take : i \in DOMAIN Init_of[m]} \ held[m] \subseteq Unchecked[m]
               \/ m \in {"kernelnewbies", "mcdevdrvs"} /\ held[m] = {}
    <3>1. m \in Modules /\ Complete(m)
      BY <2>1 DEF SetupInd, SetupType, ModInv, ExitInv
    <3>2. DOMAIN Init_of[m] = 1 .. Len(Init_of[m])
      BY <3>1, Tables DEF Fit, IsSeq
    <3>3. QED
      BY <3>1, <3>2 DEF Complete, All, Takes, Silent
  <2>2. QED
    BY <2>1 DEF SetupInd, LoadedIsComplete
<1>2. QED
  BY <1>1, SetupInvariance, PTL

\* An undo releases only what its init has taken and an exit only what the
\* module has, but for the listed exceptions, for every number of minors of
\* mcdevdrvs: whichever its failing call, it is one cdev at most.
THEOREM UndoIsExact == SetupSpec => []UndoesWhatIsThere
<1>1. SetupInd => UndoesWhatIsThere
  <2> SUFFICES ASSUME SetupInd, NEW m \in mods
               PROVE  LET undone == {r \in {s[2] : s \in strays[m]} : <<"undo", r>> \in strays[m]}
                          exited == {r \in {s[2] : s \in strays[m]} : <<"exit", r>> \in strays[m]}
                      IN  /\ \/ undone \subseteq Unchecked[m]
                             \/ m = "mcdevdrvs" /\ \E d \in 0 .. NR_MINOR_DEVCS : undone = {<<"cdev", d>>}
                             \/ m = "ramdisk" /\ undone \subseteq {<<"added">>, <<"major">>}
                          /\ \/ exited \subseteq Unchecked[m]
                             \/ /\ m \in {"kernelnewbies", "mcdevdrvs"}
                                /\ \A r \in Released(m) : Harmless(r) \/ r \in exited
    BY DEF UndoesWhatIsThere
  <2> DEFINE undone == {r \in {s[2] : s \in strays[m]} : <<"undo", r>> \in strays[m]}
             exited == {r \in {s[2] : s \in strays[m]} : <<"exit", r>> \in strays[m]}
  <2>1. StrayInv(m)
    BY DEF SetupInd, ModInv
  <2>2. PICK E \in Excuses(m) : \A s \in strays[m] : s[1] = "undo" => s[2] \in E
    BY <2>1 DEF StrayInv
  <2>3. undone \subseteq E
    <3>1. ASSUME NEW r \in undone PROVE r \in E
      <4>1. <<"undo", r>> \in strays[m] /\ <<"undo", r>>[1] = "undo" /\ <<"undo", r>>[2] = r
        OBVIOUS
      <4>2. QED
        BY <2>2, <4>1
    <3>2. QED
      BY <3>1
  <2>4. exited \subseteq Unchecked[m] \/ Spared(m)
    <3>1. ASSUME NEW r \in exited PROVE r \in Unchecked[m] \/ Spared(m)
      <4>1. <<"exit", r>> \in strays[m] /\ <<"exit", r>>[1] = "exit" /\ <<"exit", r>>[2] = r
        OBVIOUS
      <4>2. QED
        BY <2>1, <4>1 DEF StrayInv
    <3>2. QED
      BY <3>1
  <2>41. \A r : <<"exit", r>> \in strays[m] => r \in exited
    <3>1. ASSUME NEW r, <<"exit", r>> \in strays[m] PROVE r \in exited
      <4>1. r = <<"exit", r>>[2]
        OBVIOUS
      <4>2. QED
        BY <3>1, <4>1
    <3>2. QED
      BY <3>1
  <2> HIDE DEF undone, exited
  <2>5. \/ undone \subseteq Unchecked[m]
        \/ m = "mcdevdrvs" /\ \E d \in 0 .. NR_MINOR_DEVCS : undone = {<<"cdev", d>>}
        \/ m = "ramdisk" /\ undone \subseteq {<<"added">>, <<"major">>}
    <3>1. CASE m = "mcdevdrvs"
      <4>1. PICK d \in 0 .. NR_MINOR_DEVCS : E = {<<"cdev", d>>}
        BY <3>1 DEF Excuses
      <4>2. undone = {} \/ undone = {<<"cdev", d>>}
        BY <2>3, <4>1
      <4>3. QED
        BY <3>1, <4>2
    <3>2. CASE m = "ramdisk"
      BY <2>3, <3>2 DEF Excuses
    <3>3. CASE m # "mcdevdrvs" /\ m # "ramdisk"
      BY <2>3, <3>3 DEF Excuses
    <3>4. QED
      BY <3>1, <3>2, <3>3
  <2>6. QED
    BY <2>4, <2>41, <2>5 DEF Spared, Silent, undone, exited
<1>2. QED
  BY <1>1, SetupInvariance, PTL
=============================================================================
