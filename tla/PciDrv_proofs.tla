----------------------------- MODULE PciDrv_proofs -----------------------------
(***************************************************************************)
(* Proofs of the safety properties of PciDrv, composed with PciEmuDev, for *)
(* any number of processes, any width of a word and any number of mappings *)
(* that half-made probes leave behind.                                     *)
(***************************************************************************)
EXTENDS PciDrv, TLAPS

\* Where the probe or the remove is.
Pcs == {"unbound", "bound", "rm_group"} \cup ProbeSteps \cup Labels

\* Where the driver holds its irq, its vectors, its regions, the enabled
\* device and the mapping of each BAR.
WithIrq == {"group", "group2", "ungroup", "drvdata", "bound", "rm_group", "rm_irq", "err_sysfs_grp"}
WithVectors == WithIrq \cup {"irq", "rm_vectors", "err_req_irq"}
WithMmio == WithVectors \cup {"vectors", "rm_mmio", "err_irq_vec"}
WithPrtio == WithMmio \cup {"rm_prtio", "err_irq_vec2"}
WithRegions == WithPrtio \cup {"iomap", "alloc", "rm_regions", "err_alloc"}
WithEnabled == WithRegions \cup {"dma", "regions", "rm_disable", "err_dma_set"}

\* Where priv_dev is allocated for sure, and where it may be: the labels that
\* a failed devm_kzalloc jumps to are reached with and without it.
WithPrv == WithPrtio \cup {"iomap"}
MayHavePrv == WithPrv \cup {"rm_regions", "rm_disable", "removed", "err_alloc", "err_dma_set", "failed"}

Calls == [kind : Kinds, bar : Bars, val : Int, prv : {"unread", "null", "prv", "read"},
          oops : BOOLEAN]

TypeInv ==
  /\ pc \in Pcs
  /\ held \in SUBSET Resources
  /\ maps \in [Bars -> Int] /\ partial \in [Bars -> Int]
  /\ op \in [Procs -> Calls \cup {Idle}]
  /\ last \in [Bars -> Int] /\ recent \in [Procs -> SUBSET Int] /\ regs \in [Bars -> Int]

\* The driver holds exactly what its probe has taken and not given back, and a
\* mapping too many for each probe that got one of two.
HeldInv ==
  /\ "irq" \in held <=> pc \in WithIrq
  /\ "vectors" \in held <=> pc \in WithVectors
  /\ "regions" \in held <=> pc \in WithRegions
  /\ "enabled" \in held <=> pc \in WithEnabled
  /\ pc \in WithPrv => "prv" \in held
  /\ "prv" \in held => pc \in MayHavePrv
  /\ maps["mmio"] = partial["mmio"] + (IF pc \in WithMmio THEN 1 ELSE 0)
  /\ maps["prtio"] = partial["prtio"] + (IF pc \in WithPrtio THEN 1 ELSE 0)

\* Files and driver data come and go at the end of the probe and at the
\* beginning of the remove.
FilesInv ==
  /\ files \subseteq Bars
  /\ files # {} => pc \in {"group2", "drvdata", "bound"}
  /\ drvdata \in {"null", "prv"}
  /\ drvdata = "prv" <=> pc \in {"bound", "rm_group", "rm_irq", "rm_vectors", "rm_mmio",
                                 "rm_prtio", "rm_regions", "rm_disable", "removed"}

\* sysfs lets the probe and the remove past it only when nobody is inside an
\* operation, and a process that has the pointer has it from a bound device.
InsideInv ==
  \A p \in Procs : op[p] # Idle =>
    /\ pc \in {"group2", "ungroup", "drvdata", "bound", "rm_group"}
    /\ op[p].prv \in {"prv", "read"} => pc \in {"bound", "rm_group"}

\* A message is on its way only while somebody handles it.
MsiInv == msi \in BOOLEAN /\ (msi => "irq" \in held)

\* A register holds the low word of what was last stored.
RegsInv == \A b \in Bars : regs[b] = last[b] % 2^WordBits

\* The number last stored is among those an operation has lived through, and
\* what a show has read is the low word of one of them.
ShowInv ==
  \A p \in Procs : op[p] # Idle =>
    /\ last[op[p].bar] \in recent[p]
    /\ op[p].prv = "read" => \E n \in recent[p] : op[p].val = n % 2^WordBits

IndInv == TypeInv /\ HeldInv /\ FilesInv /\ InsideInv /\ MsiInv /\ RegsInv /\ ShowInv
-----------------------------------------------------------------------------
\* The invariant holds before the first probe.
LEMMA InitInd == Init => IndInv
<1> SUFFICES ASSUME Init PROVE IndInv
  OBVIOUS
<1>1. 0 % 2^WordBits = 0
  BY PciAssumption
<1> USE DEF Init, Dev!DevInit, Bars, Dev!Bars
<1>2. TypeInv /\ RegsInv
  BY <1>1 DEF TypeInv, RegsInv, Pcs
<1>3. HeldInv
  BY DEF HeldInv, WithIrq, WithVectors, WithMmio, WithPrtio, WithRegions, WithEnabled, WithPrv
<1>4. FilesInv /\ InsideInv
  BY DEF FilesInv, InsideInv
<1>41. ShowInv
  BY DEF ShowInv
<1>5. MsiInv
  BY DEF MsiInv
<1>6. QED
  BY <1>2, <1>3, <1>4, <1>41, <1>5 DEF IndInv

\* Every step of probe, remove and undo moves pc together with what is held.
LEMMA DriverStep ==
  ASSUME IndInv, Probe \/ RemoveGroup \/ Undo
  PROVE  IndInv'
<1> USE PciAssumption DEF IndInv, TypeInv, HeldInv, FilesInv, InsideInv, MsiInv, RegsInv, ShowInv, Pcs,
       WithIrq, WithVectors, WithMmio, WithPrtio, WithRegions, WithEnabled, WithPrv, MayHavePrv,
       Resources, ProbeSteps, Labels, device, Bars, Dev!Bars
<1>1. CASE ProbeEnable
  BY <1>1 DEF ProbeEnable, Take
<1>2. CASE ProbeDma
  BY <1>2 DEF ProbeDma, Take
<1>3. CASE ProbeRegions
  BY <1>3 DEF ProbeRegions, Take
<1>4. CASE ProbeAlloc
  BY <1>4 DEF ProbeAlloc, Take
<1>5. CASE ProbeIomap
  BY <1>5 DEF ProbeIomap
<1>6. CASE ProbeVectors
  BY <1>6 DEF ProbeVectors, Take
<1>7. CASE ProbeIrq
  BY <1>7 DEF ProbeIrq, Take
<1>8. CASE ProbeGroup
  BY <1>8 DEF ProbeGroup
<1>9. CASE ProbeDrvdata
  BY <1>9 DEF ProbeDrvdata
<1>10. CASE RemoveGroup
  BY <1>10 DEF RemoveGroup
<1>11. CASE FreeIrq
  BY <1>11 DEF FreeIrq, Give, After
<1>12. CASE FreeVectors
  BY <1>12 DEF FreeVectors, Give, After
<1>13. CASE Iounmap
  <2>1. CASE pc \in {"err_irq_vec", "rm_mmio"}
    <3>1. maps' = [maps EXCEPT !["mmio"] = @ - 1]
      BY <1>13, <2>1 DEF Iounmap
    <3>2. pc' = IF pc = "err_irq_vec" THEN "err_irq_vec2" ELSE "rm_prtio"
      BY <1>13, <2>1 DEF Iounmap, After
    <3>3. QED
      BY <1>13, <2>1, <3>1, <3>2 DEF Iounmap
  <2>2. CASE pc \in {"err_irq_vec2", "rm_prtio"}
    <3>1. maps' = [maps EXCEPT !["prtio"] = @ - 1]
      BY <1>13, <2>2 DEF Iounmap
    <3>2. pc' = IF pc = "err_irq_vec2" THEN "err_alloc" ELSE "rm_regions"
      BY <1>13, <2>2 DEF Iounmap, After
    <3>3. QED
      BY <1>13, <2>2, <3>1, <3>2 DEF Iounmap
  <2>3. QED
    BY <1>13, <2>1, <2>2 DEF Iounmap
<1>14. CASE ReleaseRegions
  BY <1>14 DEF ReleaseRegions, Give, After
<1>15. CASE DisableDevice
  BY <1>15 DEF DisableDevice, Give, After
<1>16. CASE CoreCleanup
  BY <1>16 DEF CoreCleanup
<1>17. QED
  BY <1>1, <1>2, <1>3, <1>4, <1>5, <1>6, <1>7, <1>8, <1>9, <1>10, <1>11, <1>12, <1>13,
     <1>14, <1>15, <1>16 DEF Probe, Undo

\* The low word of a low word is itself.
LEMMA LowWord ==
  ASSUME NEW v \in Int
  PROVE  v % 2^WordBits \in Int /\ (v % 2^WordBits) % 2^WordBits = v % 2^WordBits
<1> DEFINE m == 2^WordBits
           w == v % m
<1>1. m \in Nat \ {0}
  BY PciAssumption
<1> HIDE DEF m
<1>2. w \in 0..m-1
  BY <1>1
<1> HIDE DEF w
<1>3. w % m = w
  BY <1>1, <1>2
<1>4. QED
  BY <1>2, <1>3 DEF w, m

\* An operation in progress is a call: its fields are those of Calls.
LEMMA BusyIsCall ==
  ASSUME TypeInv, NEW p \in Procs, op[p] # Idle
  PROVE  op[p] \in Calls /\ op[p].bar \in Bars /\ op[p].val \in Int
BY DEF TypeInv, Calls

\* Every step of an attribute operation keeps it.
LEMMA AttrStep ==
  ASSUME IndInv, NEW p \in Procs, Attr(p)
  PROVE  IndInv'
<1> USE PciAssumption DEF IndInv
<1>0. driver' = driver /\ HeldInv' /\ FilesInv' /\ pc' = pc /\ held' = held
  BY DEF Attr, Enter, GetDrvdata, StoreInval, Oops, Show, ShowReturn, Store, driver, HeldInv, FilesInv
<1>1. CASE Enter(p)
  <2>1. PICK b \in files, k \in Kinds, v \in Longs :
           /\ op' = [op EXCEPT ![p] = [kind |-> k, bar |-> b, val |-> v,
                                       prv |-> "unread", oops |-> FALSE]]
           /\ recent' = [recent EXCEPT ![p] = {last[b]}]
    BY <1>1 DEF Enter
  <2>2. b \in Bars /\ v \in Int /\ pc \in {"group2", "drvdata", "bound"}
    BY DEF FilesInv
  <2>3. last' = last /\ regs' = regs /\ msi' = msi /\ maps' = maps /\ partial' = partial
    BY <1>1 DEF Enter, driver
  <2>4. TypeInv'
    BY <1>0, <2>1, <2>2, <2>3 DEF TypeInv, Calls
  <2>5. op'[p].prv = "unread" /\ op'[p].bar = b /\ recent'[p] = {last[b]}
    BY <2>1 DEF TypeInv
  <2>6. \A q \in Procs \ {p} : op'[q] = op[q] /\ recent'[q] = recent[q]
    BY <2>1 DEF TypeInv
  <2>7. InsideInv'
    BY <1>0, <2>2, <2>5, <2>6 DEF InsideInv
  <2>8. ShowInv'
    BY <2>3, <2>5, <2>6 DEF ShowInv
  <2>9. QED
    BY <1>0, <2>3, <2>4, <2>7, <2>8 DEF MsiInv, RegsInv
<1>2. CASE GetDrvdata(p) \/ Oops(p) \/ Show(p)
  <2>1. op[p] # Idle /\ op[p] \in Calls /\ op[p].bar \in Bars
    <3>1. op[p] # Idle
      BY <1>2 DEF GetDrvdata, Oops, Show, AtAccess, Idle
    <3>2. QED
      BY <3>1, BusyIsCall
  <2>2. /\ last' = last /\ regs' = regs /\ msi' = msi /\ recent' = recent
        /\ maps' = maps /\ partial' = partial
    BY <1>2 DEF GetDrvdata, Oops, Show, driver, device
  <2>3. /\ op'[p] \in Calls /\ op'[p].bar = op[p].bar /\ op'[p] # Idle
        /\ op'[p].prv \in {"prv", "read"} => pc \in {"bound", "rm_group"}
        /\ op'[p].prv = "read" => op'[p].val = regs[op[p].bar]
    <3>1. CASE GetDrvdata(p)
      BY <2>1, <3>1 DEF GetDrvdata, TypeInv, FilesInv, InsideInv, Calls, Idle
    <3>2. CASE Oops(p)
      <4>1. op[p].kind \in {"show", "store"} /\ op[p].prv = "null"
        BY <3>2 DEF Oops, AtAccess
      <4>2. op'[p] \in Calls /\ op'[p].bar = op[p].bar /\ op'[p].prv = op[p].prv
        BY <2>1, <3>2 DEF Oops, TypeInv, Calls
      <4>3. op'[p].kind = op[p].kind
        BY <2>1, <3>2 DEF Oops, TypeInv, Calls
      <4>4. QED
        BY <4>1, <4>2, <4>3 DEF Idle
    <3>3. CASE Show(p)
      <4>1. op[p].prv = "prv" /\ op[p].kind = "show"
        BY <3>3 DEF Show
      <4>2. op'[p] = [kind |-> "show", bar |-> op[p].bar, val |-> Dev!DevRead(op[p].bar),
                      prv |-> "read", oops |-> FALSE]
        BY <3>3 DEF Show, TypeInv
      <4>3. Dev!DevRead(op[p].bar) = regs[op[p].bar] /\ regs[op[p].bar] \in Int
        <5>1. last[op[p].bar] \in Int /\ regs[op[p].bar] = last[op[p].bar] % 2^WordBits
          BY <2>1 DEF TypeInv, RegsInv
        <5>2. QED
          BY <5>1, LowWord DEF Dev!DevRead
      <4>4. op'[p] \in Calls
        BY <2>1, <4>2, <4>3 DEF Calls, Kinds
      <4>5. op'[p] # Idle
        BY <4>2 DEF Idle
      <4>6. pc \in {"bound", "rm_group"}
        BY <2>1, <4>1 DEF InsideInv
      <4>7. QED
        BY <4>2, <4>3, <4>4, <4>5, <4>6
    <3>4. QED
      BY <1>2, <3>1, <3>2, <3>3
  <2>4. op' = [op EXCEPT ![p] = op'[p]]
    BY <1>2 DEF GetDrvdata, Oops, Show, TypeInv
  <2>5. \A q \in Procs \ {p} : op'[q] = op[q]
    BY <2>4 DEF TypeInv
  <2>6. TypeInv'
    BY <1>0, <2>2, <2>3, <2>4 DEF TypeInv
  <2>7. InsideInv'
    BY <1>0, <2>1, <2>3, <2>5 DEF InsideInv
  <2>8. ShowInv'
    <3>1. regs[op[p].bar] = last[op[p].bar] % 2^WordBits /\ last[op[p].bar] \in recent[p]
      BY <2>1 DEF RegsInv, ShowInv
    <3>2. QED
      BY <2>2, <2>3, <2>5, <3>1 DEF ShowInv
  <2>9. QED
    BY <1>0, <2>2, <2>6, <2>7, <2>8 DEF MsiInv, RegsInv
<1>3. CASE StoreInval(p) \/ ShowReturn(p)
  <2>1. /\ last' = last /\ regs' = regs /\ msi' = msi /\ maps' = maps /\ partial' = partial
        /\ op' = [op EXCEPT ![p] = Idle] /\ recent' = [recent EXCEPT ![p] = {}]
    BY <1>3 DEF StoreInval, ShowReturn, Leave, driver
  <2>2. TypeInv'
    BY <1>0, <2>1 DEF TypeInv
  <2>3. op'[p] = Idle /\ \A q \in Procs \ {p} : op'[q] = op[q] /\ recent'[q] = recent[q]
    BY <2>1 DEF TypeInv
  <2>4. InsideInv' /\ ShowInv'
    BY <1>0, <2>1, <2>3 DEF InsideInv, ShowInv
  <2>5. QED
    BY <1>0, <2>1, <2>2, <2>4 DEF MsiInv, RegsInv
<1>4. CASE Store(p)
  <2> DEFINE b == op[p].bar
             v == op[p].val
  <2>1. b \in Bars /\ v \in Int /\ v % 2^WordBits \in Int
    <3>1. op[p] # Idle
      BY <1>4 DEF Store, AtAccess, Idle
    <3>2. QED
      BY <3>1, BusyIsCall
  <2>2. /\ last' = [last EXCEPT ![b] = v] /\ op' = [op EXCEPT ![p] = Idle]
        /\ recent' = [q \in Procs |-> IF q = p THEN {}
                     ELSE IF op[q] # Idle /\ op[q].bar = b THEN recent[q] \cup {v}
                     ELSE recent[q]]
        /\ regs' = [regs EXCEPT ![b] = v % 2^WordBits]
        /\ maps' = maps /\ partial' = partial
    BY <1>4 DEF Store, Stored, Dev!DevWrite, driver
  <2> HIDE DEF b, v
  <2>3. TypeInv'
    BY <1>0, <2>1, <2>2 DEF TypeInv
  <2>4. RegsInv'
    BY <2>1, <2>2 DEF RegsInv, TypeInv
  <2>5. op'[p] = Idle /\ \A q \in Procs \ {p} : op'[q] = op[q]
    BY <2>2 DEF TypeInv
  <2>6. InsideInv'
    BY <1>0, <2>5 DEF InsideInv
  <2>7. ShowInv'
    <3> SUFFICES ASSUME NEW q \in Procs, op'[q] # Idle
                 PROVE  /\ last'[op'[q].bar] \in recent'[q]
                        /\ op'[q].prv = "read" =>
                              \E n \in recent'[q] : op'[q].val = n % 2^WordBits
      BY DEF ShowInv
    <3>1. q # p /\ op'[q] = op[q] /\ op[q].bar \in Bars
      BY <2>5, BusyIsCall
    <3>2. recent'[q] = IF op[q].bar = b THEN recent[q] \cup {v} ELSE recent[q]
      BY <2>2, <3>1
    <3>3. last'[op[q].bar] = IF op[q].bar = b THEN v ELSE last[op[q].bar]
      BY <2>1, <2>2, <3>1 DEF TypeInv
    <3>4. QED
      BY <3>1, <3>2, <3>3 DEF ShowInv
  <2>8. msi' = (msi \/ "irq" \in held)
    BY <1>4 DEF Store, Dev!DevWrite
  <2>9. MsiInv'
    BY <1>0, <2>8, Zenon DEF MsiInv
  <2>10. QED
    BY <1>0, <2>3, <2>4, <2>6, <2>7, <2>9
<1>5. QED
  BY <1>1, <1>2, <1>3, <1>4 DEF Attr

\* The invariant holds throughout.
LEMMA Invariance == Spec => []IndInv
<1>1. IndInv /\ [Next]_vars => IndInv'
  <2> SUFFICES ASSUME IndInv, [Next]_vars PROVE IndInv'
    OBVIOUS
  <2>1. CASE UNCHANGED vars
    BY <2>1 DEF vars, IndInv, TypeInv, HeldInv, FilesInv, InsideInv, MsiInv, RegsInv, ShowInv
  <2>2. CASE IrqHandler
    BY <2>2 DEF IrqHandler, driver, IndInv, TypeInv, HeldInv, FilesInv, InsideInv, MsiInv, RegsInv, ShowInv
  <2>3. QED
    BY <2>1, <2>2, DriverStep, AttrStep DEF Next
<1>2. QED
  BY InitInd, <1>1, PTL DEF Spec
-----------------------------------------------------------------------------
\* A show or a store that follows prv_dev finds the device enabled, its
\* regions, both mappings, its vectors and its handler (pci_drv_remove removes
\* the attribute files before anything else).
THEOREM AccessesBacked == Spec => []AccessIsBacked
<1>1. IndInv => AccessIsBacked
  <2> SUFFICES ASSUME IndInv, NEW p \in Procs, AtAccess(p), op[p].prv = "prv"
               PROVE  held = Resources /\ \A b \in Bars : maps[b] = partial[b] + 1
    BY DEF AccessIsBacked
  <2>1. pc \in {"bound", "rm_group"}
    BY DEF IndInv, InsideInv, AtAccess, Idle
  <2>2. QED
    BY <2>1 DEF IndInv, TypeInv, HeldInv, WithIrq, WithVectors, WithMmio, WithPrtio, WithRegions,
       WithEnabled, WithPrv, Resources, Bars, Dev!Bars
<1>2. QED
  BY Invariance, <1>1, PTL

\* An unbound device holds nothing but the mappings of half-made probes: the
\* error labels of pci_drv_probe and pci_drv_remove give everything back.
THEOREM UnboundHoldsNothing == Spec => []NothingLeft
<1>1. IndInv => NothingLeft
  BY DEF IndInv, TypeInv, HeldInv, FilesInv, MsiInv, NothingLeft, WithIrq, WithVectors, WithMmio,
     WithPrtio, WithRegions, WithEnabled, WithPrv, MayHavePrv, Resources, Bars, Dev!Bars
<1>2. QED
  BY Invariance, <1>1, PTL

\* What a show is about to print was the last number stored through its file
\* at some moment of the show, whoever else stores in the meantime (iowrite32
\* and ioread32 against the callbacks of the emulated device).
THEOREM ShowsStored == Spec => []ShowsLastStored
<1>1. IndInv => ShowsLastStored
  BY DEF IndInv, ShowInv, ShowsLastStored, Idle
<1>2. QED
  BY Invariance, <1>1, PTL
=============================================================================
