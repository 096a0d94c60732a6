------------------------------- MODULE KvmHost -------------------------------
(***************************************************************************)
(* kvm/host-kvm-example/host_kvm_simple.c: a program that makes a virtual  *)
(* machine out of KVM ioctls, copies the guest's image into its memory and *)
(* runs it, printing what it writes to a port.                             *)
(*                                                                         *)
(* Every system call may fail.  An mmap that fails returns MAP_FAILED,     *)
(* which is not the NULL that the program tests for.  What makes the guest *)
(* leave KVM_RUN is up to KVM and the guest: an output to the port, a      *)
(* shutdown, or a reason the program has no case for.                      *)
(***************************************************************************)
EXTENDS Integers

CONSTANTS
  ImgSize,     \* the size of the guest's image
  Chunk        \* what one read asks for (4096)

ASSUME KvmAssumption == ImgSize \in Nat /\ Chunk \in Nat \ {0}

VARIABLES
  kvm_pc,      \* the next call of the program
  fds,         \* the descriptors that are open
  mem,         \* the guest's memory: "none", "mapped" or "failed" (MAP_FAILED)
  guest,       \* what is in it: the number of a byte of the image, or zero
  p,           \* where cp_guest_img writes next
  img_pos,     \* the file position of the image
  read_failed, \* a read of the image failed
  kvm_run,     \* the shared page: "none", "failed" or "mapped"
  status       \* what main returns, once it has

kvm_vars == <<kvm_pc, fds, mem, guest, p, img_pos, read_failed, kvm_run, status>>

E_OK == 0
E_NOT_OK == 1

KvmInit ==
  /\ kvm_pc = "open_kvm" /\ fds = {}
  /\ mem = "none" /\ guest = [a \in 0 .. ImgSize + Chunk |-> 0]
  /\ p = 0 /\ img_pos = 0 /\ read_failed = FALSE
  /\ kvm_run = "none" /\ status = E_OK

\* ret = E_NOT_OK and the jump to close or close_kvm.
Give_up ==
  /\ status' = E_NOT_OK
  /\ kvm_pc' = CASE "img" \in fds -> "close" [] "kvm" \in fds -> "close_kvm" [] OTHER -> "exited"

-----------------------------------------------------------------------------
(* main, vm_setup and vcpu_setup *)

\* A call that returns a descriptor: /dev/kvm, the image, the machine, the cpu.
OpenFd(here, fd, next) ==
  /\ kvm_pc = here
  /\ \/ fds' = fds \cup {fd} /\ kvm_pc' = next /\ UNCHANGED status
     \/ Give_up /\ UNCHANGED fds
  /\ UNCHANGED <<mem, guest, p, img_pos, read_failed, kvm_run>>

MmapMem ==
  /\ kvm_pc = "mmap_mem"
  /\ mem' \in {"mapped", "failed"}
  /\ kvm_pc' = "set_region"
  /\ UNCHANGED <<fds, guest, p, img_pos, read_failed, kvm_run, status>>

\* KVM_SET_USER_MEMORY_REGION refuses MAP_FAILED, which is no page address.
SetRegion ==
  /\ kvm_pc = "set_region"
  /\ \/ mem # "failed" /\ kvm_pc' = "copy" /\ UNCHANGED status
     \/ Give_up
  /\ UNCHANGED <<fds, mem, guest, p, img_pos, read_failed, kvm_run>>

\* An ioctl that only succeeds or fails.
Ioctl(here, next) ==
  /\ kvm_pc = here
  /\ \/ kvm_pc' = next /\ UNCHANGED status
     \/ Give_up
  /\ UNCHANGED <<fds, mem, guest, p, img_pos, read_failed, kvm_run>>

MmapRun ==
  /\ kvm_pc = "mmap_run"
  /\ kvm_run' \in {"mapped", "failed"}
  /\ kvm_pc' = "get_sregs"
  /\ UNCHANGED <<fds, mem, guest, p, img_pos, read_failed, status>>

-----------------------------------------------------------------------------
(* cp_guest_img: read may return less than was asked for. *)

Copied(n) ==
  [a \in DOMAIN guest |-> IF a \in p .. p + n - 1 THEN img_pos + (a - p) + 1 ELSE guest[a]]

\* Mutant: the pointer moves by what was asked for.
CopyChunkFixed(n) ==
  /\ kvm_pc = "copy" /\ mem = "mapped"
  /\ n \in 1 .. Chunk /\ img_pos + n <= ImgSize
  /\ guest' = Copied(n)
  /\ p' = p + Chunk /\ img_pos' = img_pos + n
  /\ UNCHANGED <<kvm_pc, fds, mem, read_failed, kvm_run, status>>

CopyChunk(n) ==
  /\ kvm_pc = "copy" /\ mem = "mapped"
  /\ n \in 1 .. Chunk /\ img_pos + n <= ImgSize
  /\ guest' = Copied(n)
  /\ p' = p + n /\ img_pos' = img_pos + n
  /\ UNCHANGED <<kvm_pc, fds, mem, read_failed, kvm_run, status>>

\* read returns 0 at the end of the image or -1 at any time; the two look the
\* same to the loop.
CopyEnds ==
  /\ kvm_pc = "copy"
  /\ \/ img_pos = ImgSize /\ UNCHANGED read_failed
     \/ read_failed' = TRUE
  /\ kvm_pc' = "create_vcpu"
  /\ UNCHANGED <<fds, mem, guest, p, img_pos, kvm_run, status>>

-----------------------------------------------------------------------------
(* run_and_emulate.  The ret that the loop sets is its own, the function
   returns the outer one, which stays E_OK. *)

RunFails ==
  /\ kvm_pc = "run"
  /\ kvm_pc' = "close"
  /\ UNCHANGED <<fds, mem, guest, p, img_pos, read_failed, kvm_run, status>>

\* KVM_RUN returns and the program looks for the reason in the shared page.
RunExits(reason) ==
  /\ kvm_pc = "run"
  /\ kvm_pc' = CASE kvm_run = "failed" -> "segfault"
                 [] reason = "shutdown" -> "close"
                 [] OTHER -> "run"
  /\ UNCHANGED <<fds, mem, guest, p, img_pos, read_failed, kvm_run, status>>

Close(here, fd, next) ==
  /\ kvm_pc = here
  /\ fds' = fds \ {fd}
  /\ kvm_pc' = next
  /\ UNCHANGED <<mem, guest, p, img_pos, read_failed, kvm_run, status>>

Main ==
  \/ OpenFd("open_kvm", "kvm", "open_img") \/ OpenFd("open_img", "img", "create_vm")
  \/ Close("close", "img", "close_kvm") \/ Close("close_kvm", "kvm", "exited")

Vm_setup ==
  \/ OpenFd("create_vm", "vm", "mmap_mem") \/ MmapMem \/ SetRegion
  \/ \E n \in 1 .. Chunk : CopyChunk(n)
  \/ CopyEnds

Vcpu_setup ==
  \/ OpenFd("create_vcpu", "vcpu", "mmap_size") \/ Ioctl("mmap_size", "mmap_run") \/ MmapRun
  \/ Ioctl("get_sregs", "set_sregs") \/ Ioctl("set_sregs", "set_regs") \/ Ioctl("set_regs", "run")

Run_and_emulate == RunFails \/ \E reason \in {"io", "shutdown", "other"} : RunExits(reason)

KvmNext == Main \/ Vm_setup \/ Vcpu_setup \/ Run_and_emulate

KvmSpec == KvmInit /\ [][KvmNext]_kvm_vars

-----------------------------------------------------------------------------
(* Properties *)

\* The guest starts with the whole image at address 0, whatever the reads
\* returned, unless one of them failed, in which case it starts with a prefix of
\* the image; and a failed mmap, which the program does not notice, never gets
\* that far.
GuestSeesImage ==
  kvm_pc = "run" =>
    /\ mem = "mapped"
    /\ \A a \in 0 .. ImgSize - 1 : guest[a] = (IF a < img_pos THEN a + 1 ELSE 0)
    /\ ~read_failed => img_pos = ImgSize
=============================================================================
