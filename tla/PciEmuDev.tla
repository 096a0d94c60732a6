------------------------------ MODULE PciEmuDev ------------------------------
(***************************************************************************)
(* The PCI device that QEMU emulates (19.Qemu-pci-dev-creation): one       *)
(* register behind a memory BAR, one behind a port BAR, and an MSI that    *)
(* every write raises.  PciDrv composes it with the driver.                *)
(***************************************************************************)
EXTENDS Integers

CONSTANT WordBits       \* bits of a 32-bit access (fewer in the instances)

VARIABLES regs,         \* mmio_val and prtio_val
          msi           \* an MSI has been sent and not yet handled

Bars == {"mmio", "prtio"}
Word == 0 .. 2^WordBits - 1

DevInit == regs = [b \in Bars |-> 0] /\ msi = FALSE

\* The read callbacks, and the 32-bit access that makes the core keep the
\* low word of the value they return.
DevRead(b) == regs[b] % 2^WordBits

\* The write callbacks: the register takes the value of the access, and
\* msi_notify sends the message if the guest has enabled it (on).
DevWrite(b, v, on) ==
    /\ regs' = [regs EXCEPT ![b] = v]
    /\ msi' = (msi \/ on)
=============================================================================
