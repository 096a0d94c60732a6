------------------------------- MODULE PciDrv -------------------------------
(***************************************************************************)
(* The driver of the emulated PCI device (20.pci-driver/pci_drv.c).        *)
(* pci_drv_probe takes its resources one at a time, each of which may be   *)
(* refused; its error labels and pci_drv_remove give them back.  Processes *)
(* read and write the attributes mmioval and prtioval in the meantime: the *)
(* files exist before the driver data is set.                              *)
(***************************************************************************)
EXTENDS Integers

CONSTANTS Procs,        \* processes that use the attribute files
          Longs,        \* numbers kstrtol may find in a buffer
          WordBits,     \* bits of an iowrite32
          MaxPartial    \* bound: half-failed mappings of each BAR

\* (The last fact about WordBits is plain, but the prover knows nothing of ^.)
ASSUME PciAssumption == /\ Longs \subseteq Int
                        /\ 0 \in Longs
                        /\ WordBits \in Nat \ {0} /\ 2^WordBits \in Nat \ {0}
                        /\ MaxPartial \in Nat

VARIABLES pc,           \* next statement of the probe or remove in progress
          held,         \* resources the driver holds
          maps,         \* live pci_iomap mappings of each BAR
          files,        \* attribute files that exist
          drvdata,      \* dev_get_drvdata: "null" or "prv"
          op,           \* the show or store each process is in
          partial,      \* history: mappings left by a probe that got one of two
          last,         \* history: number last stored through each file
          recent,       \* history: the numbers that were last[b] during each
                        \* process's operation on b
          regs, msi     \* the device

Dev == INSTANCE PciEmuDev

vars == <<pc, held, maps, files, drvdata, op, partial, last, recent, regs, msi>>

driver == <<pc, held, maps, files, drvdata, partial>>
device == <<last, recent, regs, msi>>

Bars == Dev!Bars

\* Resources in the order in which pci_drv_probe takes them, mappings apart.
Resources == {"enabled", "regions", "prv", "vectors", "irq"}

Labels == {"err_sysfs_grp", "err_req_irq", "err_irq_vec", "err_irq_vec2",
           "err_alloc", "err_dma_set", "failed",
           "rm_irq", "rm_vectors", "rm_mmio", "rm_prtio", "rm_regions",
           "rm_disable", "removed"}

ProbeSteps == {"dma", "regions", "alloc", "iomap", "vectors", "irq", "group",
               "group2", "ungroup", "drvdata"}

Idle == [kind |-> "none"]

\* A "garbage" is a store whose buffer holds no number.
Kinds == {"show", "store", "garbage"}

Init ==
    /\ pc = "unbound"
    /\ held = {}
    /\ maps = [b \in Bars |-> 0]
    /\ files = {}
    /\ drvdata = "null"
    /\ op = [p \in Procs |-> Idle]
    /\ partial = [b \in Bars |-> 0]
    /\ last = [b \in Bars |-> 0]
    /\ recent = [p \in Procs |-> {}]
    /\ Dev!DevInit

-----------------------------------------------------------------------------
(* pci_drv_probe, one action per resource.                                 *)

\* A step of the probe that takes res and goes on to next, or is refused
\* and goes to the error label fail.
Take(step, res, next, fail) ==
    /\ pc = step
    /\ \/ held' = held \cup res /\ pc' = next
       \/ held' = held /\ pc' = fail
    /\ UNCHANGED <<maps, files, drvdata, op, partial, device>>

ProbeEnable == Take("unbound", {"enabled"}, "dma", "unbound")

ProbeDma == Take("dma", {}, "regions", "err_dma_set")

ProbeRegions == Take("regions", {"regions"}, "alloc", "err_dma_set")

\* Mutant: the regions are not given back when devm_kzalloc fails.
ProbeAllocSkips == Take("alloc", {"prv"}, "iomap", "err_dma_set")

ProbeAlloc == Take("alloc", {"prv"}, "iomap", "err_alloc")

\* Both BARs are mapped before either result is looked at; if one mapping
\* failed the label err_iomap does not undo the other.
ProbeIomap ==
    /\ pc = "iomap"
    /\ \E got \in SUBSET Bars :
        /\ got # Bars => \A b \in got : partial[b] < MaxPartial
        /\ maps' = [b \in Bars |-> maps[b] + (IF b \in got THEN 1 ELSE 0)]
        /\ partial' = [b \in Bars |-> partial[b] +
                          (IF b \in got /\ got # Bars THEN 1 ELSE 0)]
        /\ pc' = IF got = Bars THEN "vectors" ELSE "err_alloc"
    /\ UNCHANGED <<held, files, drvdata, op, device>>

ProbeVectors == Take("vectors", {"vectors"}, "irq", "err_irq_vec")

ProbeIrq == Take("irq", {"irq"}, "group", "err_req_irq")

\* sysfs_create_group makes the two files in turn, each visible at once;
\* when the second fails it takes the first away again, which waits until
\* no process is inside one of its operations.
ProbeGroup ==
    /\ \/ /\ pc = "group"
          /\ \/ files' = {"mmio"} /\ pc' = "group2"
             \/ files' = files /\ pc' = "err_sysfs_grp"
       \/ /\ pc = "group2"
          /\ \/ files' = Bars /\ pc' = "drvdata"
             \/ files' = {} /\ pc' = "ungroup"
       \/ /\ pc = "ungroup"
          /\ \A p \in Procs : op[p] = Idle
          /\ files' = files
          /\ pc' = "err_sysfs_grp"
    /\ UNCHANGED <<held, maps, drvdata, op, partial, device>>

ProbeDrvdata ==
    /\ pc = "drvdata"
    /\ drvdata' = "prv"
    /\ pc' = "bound"
    /\ UNCHANGED <<held, maps, files, op, partial, device>>

-----------------------------------------------------------------------------
(* The error labels of the probe and pci_drv_remove.                       *)

\* Mutant: the remove does not take the attribute files away.
RemoveKeepsFiles ==
    /\ pc = "bound"
    /\ pc' = "rm_irq"
    /\ UNCHANGED <<held, maps, files, drvdata, op, partial, device>>

\* sysfs_remove_group: the files disappear, and the call waits for the
\* operations in progress.
RemoveGroup ==
    /\ \/ /\ pc = "bound"
          /\ files' = {}
          /\ pc' = "rm_group"
       \/ /\ pc = "rm_group"
          /\ \A p \in Procs : op[p] = Idle
          /\ files' = files
          /\ pc' = "rm_irq"
    /\ UNCHANGED <<held, maps, drvdata, op, partial, device>>

\* The label after each one, by falling through.
After == [l \in Labels \ {"failed", "removed"} |->
    CASE l = "err_sysfs_grp" -> "err_req_irq"
      [] l = "err_req_irq"   -> "err_irq_vec"
      [] l = "err_irq_vec"   -> "err_irq_vec2"
      [] l = "err_irq_vec2"  -> "err_alloc"
      [] l = "err_alloc"     -> "err_dma_set"
      [] l = "err_dma_set"   -> "failed"
      [] l = "rm_irq"        -> "rm_vectors"
      [] l = "rm_vectors"    -> "rm_mmio"
      [] l = "rm_mmio"       -> "rm_prtio"
      [] l = "rm_prtio"      -> "rm_regions"
      [] l = "rm_regions"    -> "rm_disable"
      [] l = "rm_disable"    -> "removed"]

Give(labels, res) ==
    /\ pc \in labels
    /\ held' = held \ res
    /\ pc' = After[pc]
    /\ UNCHANGED <<maps, files, drvdata, op, partial, last, recent, regs>>

\* free_irq: a message the handler has not seen yet finds no handler.
FreeIrq == Give({"err_sysfs_grp", "rm_irq"}, {"irq"}) /\ msi' = FALSE

FreeVectors == Give({"err_req_irq", "rm_vectors"}, {"vectors"}) /\ UNCHANGED msi

Iounmap ==
    /\ pc \in {"err_irq_vec", "rm_mmio", "err_irq_vec2", "rm_prtio"}
    /\ LET b == IF pc \in {"err_irq_vec", "rm_mmio"} THEN "mmio" ELSE "prtio"
       IN  maps' = [maps EXCEPT ![b] = @ - 1]
    /\ pc' = After[pc]
    /\ UNCHANGED <<held, files, drvdata, op, partial, device>>

ReleaseRegions == Give({"err_alloc", "rm_regions"}, {"regions"}) /\ UNCHANGED msi

DisableDevice == Give({"err_dma_set", "rm_disable"}, {"enabled"}) /\ UNCHANGED msi

\* What the driver core does when the probe has failed or the remove has
\* returned: it frees what devm_kzalloc gave and clears the driver data.
CoreCleanup ==
    /\ pc \in {"failed", "removed"}
    /\ held' = held \ {"prv"}
    /\ drvdata' = "null"
    /\ pc' = "unbound"
    /\ UNCHANGED <<maps, files, op, partial, device>>

-----------------------------------------------------------------------------
(* The attributes and the interrupt.                                       *)

\* A process calls a show or a store of a file that exists.
Enter(p) ==
    /\ op[p] = Idle
    /\ \E b \in files, k \in Kinds, v \in Longs :
        /\ k # "store" => v = 0
        /\ op' = [op EXCEPT ![p] = [kind |-> k, bar |-> b, val |-> v,
                                    prv |-> "unread", oops |-> FALSE]]
        /\ recent' = [recent EXCEPT ![p] = {last[b]}]
    /\ UNCHANGED <<driver, last, regs, msi>>

\* dev_get_drvdata, at the head of all four functions.
GetDrvdata(p) ==
    /\ op[p] # Idle
    /\ op[p].prv = "unread"
    /\ op' = [op EXCEPT ![p].prv = drvdata]
    /\ UNCHANGED <<driver, device>>

\* The operation returns.
Leave(p) ==
    /\ op' = [op EXCEPT ![p] = Idle]
    /\ recent' = [recent EXCEPT ![p] = {}]

\* The early return of a store whose buffer holds no number.
StoreInval(p) ==
    /\ op[p].kind = "garbage"
    /\ op[p].prv # "unread"
    /\ Leave(p)
    /\ UNCHANGED <<driver, last, regs, msi>>

\* Past the parse, ready to follow prv_dev.
AtAccess(p) ==
    /\ op[p].kind \in {"show", "store"}
    /\ op[p].prv \in {"null", "prv"}
    /\ ~ op[p].oops

\* prv_dev is NULL: the process dies inside the operation and the file
\* system keeps counting it as in progress.
Oops(p) ==
    /\ AtAccess(p)
    /\ op[p].prv = "null"
    /\ op' = [op EXCEPT ![p].oops = TRUE]
    /\ UNCHANGED <<driver, device>>

\* ioread32: what it returns is what the show will print.
Show(p) ==
    /\ AtAccess(p)
    /\ op[p].kind = "show"
    /\ op[p].prv = "prv"
    /\ op' = [op EXCEPT ![p] = [kind |-> "show", bar |-> op[p].bar,
                                val |-> Dev!DevRead(op[p].bar),
                                prv |-> "read", oops |-> FALSE]]
    /\ UNCHANGED <<driver, device>>

\* Mutant: a show does not leave the operation.
ShowNeverReturns(p) ==
    /\ op[p].kind = "show"
    /\ op[p].prv = "read"
    /\ UNCHANGED vars

\* sprintf with %u, and the return.
ShowReturn(p) ==
    /\ op[p].kind = "show"
    /\ op[p].prv = "read"
    /\ Leave(p)
    /\ UNCHANGED <<driver, last, regs, msi>>

\* A number is stored through b while others are inside operations on it.
Stored(p, b, v) ==
    /\ last' = [last EXCEPT ![b] = v]
    /\ recent' = [q \in Procs |-> IF q = p THEN {}
                     ELSE IF op[q] # Idle /\ op[q].bar = b THEN recent[q] \cup {v}
                     ELSE recent[q]]
    /\ op' = [op EXCEPT ![p] = Idle]

\* Mutant: mmioval_store writes through hwprtmem.
StoreWrongBar(p) ==
    /\ AtAccess(p)
    /\ op[p].kind = "store"
    /\ op[p].prv = "prv"
    /\ Dev!DevWrite("prtio", op[p].val % 2^WordBits, "irq" \in held)
    /\ Stored(p, op[p].bar, op[p].val)
    /\ UNCHANGED driver

\* iowrite32 sends the low word of the long.
Store(p) ==
    /\ AtAccess(p)
    /\ op[p].kind = "store"
    /\ op[p].prv = "prv"
    /\ Dev!DevWrite(op[p].bar, op[p].val % 2^WordBits, "irq" \in held)
    /\ Stored(p, op[p].bar, op[p].val)
    /\ UNCHANGED driver

\* irq_drv_hndl.
IrqHandler ==
    /\ msi
    /\ "irq" \in held
    /\ msi' = FALSE
    /\ UNCHANGED <<driver, op, last, recent, regs>>

-----------------------------------------------------------------------------

Probe == \/ ProbeEnable \/ ProbeDma \/ ProbeRegions \/ ProbeAlloc
         \/ ProbeIomap \/ ProbeVectors \/ ProbeIrq \/ ProbeGroup
         \/ ProbeDrvdata

Undo == \/ FreeIrq \/ FreeVectors \/ Iounmap \/ ReleaseRegions
        \/ DisableDevice \/ CoreCleanup

Attr(p) == \/ Enter(p) \/ GetDrvdata(p) \/ StoreInval(p) \/ Oops(p)
           \/ Show(p) \/ ShowReturn(p) \/ Store(p)

Next == \/ Probe \/ RemoveGroup \/ Undo \/ IrqHandler
        \/ \E p \in Procs : Attr(p)

\* A call in progress is scheduled; nobody has to start a probe, a remove,
\* a show or a store.
Progress(p) == \/ GetDrvdata(p) \/ StoreInval(p) \/ Oops(p)
               \/ Show(p) \/ ShowReturn(p) \/ Store(p)

Fairness ==
    /\ WF_vars(pc # "unbound" /\ Probe)
    /\ WF_vars(pc = "rm_group" /\ RemoveGroup)
    /\ WF_vars(Undo)
    /\ \A p \in Procs : WF_vars(Progress(p))

Spec == Init /\ [][Next]_vars /\ Fairness

-----------------------------------------------------------------------------
(* Properties.                                                             *)

\* A show or store that follows a driver data pointer finds everything that
\* pointer stands for still there: the device enabled, its regions, both
\* mappings, and the handler of the interrupt the write raises.  It rests
\* on sysfs_remove_group coming first in pci_drv_remove and on its waiting.
AccessIsBacked ==
    \A p \in Procs : (AtAccess(p) /\ op[p].prv = "prv") =>
        /\ held = Resources
        /\ \A b \in Bars : maps[b] = partial[b] + 1

\* After a failed probe or a remove the device is as it was: every resource
\* is given back whichever step was refused, except the mappings of probes
\* that got only one of the two (the label err_iomap is below the unmaps).
NothingLeft ==
    pc = "unbound" => held = {} /\ maps = partial /\ files = {} /\ ~ msi

\* What a show is about to print is the low word of the number last stored
\* through the same file at some moment since the show began: never an older
\* number and never one of the other file, whoever stores in the meantime and
\* however often the driver was unbound and bound again before (lines 65, 76).
ShowsLastStored ==
    \A p \in Procs : (op[p].kind = "show" /\ op[p].prv = "read") =>
        \E n \in recent[p] : op[p].val = n % 2^WordBits

\* A remove that has begun ends with the device unbound, unless a process
\* died inside an attribute operation: its reference is never dropped and
\* sysfs_remove_group waits for it.
RemoveReturns ==
    (pc = "rm_group") ~> (pc = "unbound" \/ \E p \in Procs :
                              op[p] # Idle /\ op[p].oops)

=============================================================================
