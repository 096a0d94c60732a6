-------------------------------- MODULE Setup --------------------------------
(***************************************************************************)
(* How the modules under linux-device-drivers/ set themselves up, undo a   *)
(* set-up that failed half way, and clean up.                              *)
(*                                                                         *)
(* An init (or probe) function is a sequence of calls, each of which takes *)
(* one thing from the kernel or fails; what a failure leads to is part of  *)
(* the call.  The undo of a failure is the list of releasing calls from    *)
(* the label that the code jumps to down to its return.  An exit (or       *)
(* remove) function is a list of releasing calls.  A thing is a tuple of   *)
(* its name and, when there are several of a kind, its number.             *)
(*                                                                         *)
(* Modules that are loaded together run independently of each other; they  *)
(* meet where two of them use the same name in a name space of the kernel. *)
(***************************************************************************)
EXTENDS Integers, Sequences

CONSTANTS
  Together,        \* bound: the sets of modules that are loaded together
  NR_MINOR_DEVCS   \* of mcdevdrvs

\* An init is a sequence of these.  outcome says what a failure leads to:
\*   "err"      undo, and the function returns an error
\*   "zero"     undo, and the function returns 0 all the same
\*   "ignored"  nobody looks at the result
\*   "sure"     the call cannot fail
\*   "oops"     the null pointer is used at once
Call(name, outcome, undo) == [take |-> <<name>>, outcome |-> outcome, undo |-> undo]

\* The things with the given names.
Each(names) == [i \in DOMAIN names |-> <<names[i]>>]

\* Everything that is released from a label on; labels is the tail of the
\* function, a sequence of labels with the thing that is released at each.
From(labels, l) ==
  LET k == CHOOSE j \in DOMAIN labels : labels[j][1] = l
  IN  [j \in 1 .. Len(labels) - k + 1 |-> <<labels[k + j - 1][2]>>]

-----------------------------------------------------------------------------
(* 01.kernelnewbies.  The result of cdev_add is in rc, the function returns ret. *)

KernelnewbiesTail ==
  << <<"err_alloc_fifo", "cdev">>, <<"err_add_device", "device">>,
     <<"err_device_create", "class">>, <<"err_class_create", "region">> >>

\* Mutant: a failing cdev_add jumps one label too high.
KernelnewbiesInitHigh ==
  << Call("region", "err", <<>>),
     Call("class", "err", From(KernelnewbiesTail, "err_class_create")),
     Call("device", "err", From(KernelnewbiesTail, "err_device_create")),
     Call("cdev", "zero", From(KernelnewbiesTail, "err_alloc_fifo")),
     Call("fifo", "err", From(KernelnewbiesTail, "err_alloc_fifo")) >>

KernelnewbiesInit ==
  << Call("region", "err", <<>>),
     Call("class", "err", From(KernelnewbiesTail, "err_class_create")),
     Call("device", "err", From(KernelnewbiesTail, "err_device_create")),
     Call("cdev", "zero", From(KernelnewbiesTail, "err_add_device")),
     Call("fifo", "err", From(KernelnewbiesTail, "err_alloc_fifo")) >>

KernelnewbiesExit == Each(<<"cdev", "device", "class", "region", "fifo">>)

-----------------------------------------------------------------------------
(* 02.chardrvs.  The debugfs calls return an error pointer, never the NULL that
   the code tests for, so their failure goes unnoticed. *)

ChardrvsTail ==
  << <<"err_dbg_dir", "dbg_dir">>, <<"err_procfs", "proc_file">>,
     <<"err_setup_chardrvs", "fifo">>, <<"err_unregister_cdev", "cdev">>,
     <<"err_destruct_device", "device">>, <<"err_destruct_class", "class">>,
     <<"err_unregister_chrdev", "region">>, <<"err_free_dev", "chardrvs_ptr">> >>

ChardrvsInit ==
  << Call("chardrvs_ptr", "err", <<>>),
     Call("region", "err", From(ChardrvsTail, "err_free_dev")),
     Call("class", "err", From(ChardrvsTail, "err_unregister_chrdev")),
     Call("device", "err", From(ChardrvsTail, "err_destruct_class")),
     Call("cdev", "err", From(ChardrvsTail, "err_destruct_device")),
     Call("fifo", "err", From(ChardrvsTail, "err_unregister_cdev")),
     Call("proc_file", "err", From(ChardrvsTail, "err_setup_chardrvs")),
     Call("dbg_dir", "ignored", From(ChardrvsTail, "err_procfs")),
     Call("dbg_file", "ignored", From(ChardrvsTail, "err_dbg_dir")) >>

\* Mutant: the private memory is forgotten.
ChardrvsExitKeeps ==
  Each(<<"cdev", "device", "class", "region", "fifo", "proc_file", "dbg_dir">>)

ChardrvsExit ==
  Each(<<"cdev", "device", "class", "region", "fifo", "proc_file", "dbg_dir", "chardrvs_ptr">>)

-----------------------------------------------------------------------------
(* 03.mcdevdrvs: one device and one cdev per minor in a loop over dev_cnt, then
   the fifos in a loop over fifo_cnt.  Both undo loops count down from where the
   counter stands, which is the one that failed, or one past the last. *)

McdevdrvsUndoDevs(dev_cnt) ==
  [j \in 1 .. 2 * (dev_cnt + 1) |->
     <<IF j % 2 = 1 THEN "cdev" ELSE "device", dev_cnt - (j - 1) \div 2>>]
  \o Each(<<"class", "region">>)

McdevdrvsUndoFifos(fifo_cnt) ==
  [j \in 1 .. fifo_cnt + 1 |-> <<"fifo", fifo_cnt - (j - 1)>>]
  \o McdevdrvsUndoDevs(NR_MINOR_DEVCS)

McdevdrvsInit ==
  << Call("region", "err", <<>>), Call("class", "err", Each(<<"region">>)) >>
  \o [j \in 1 .. 2 * NR_MINOR_DEVCS |->
        LET dev_cnt == (j - 1) \div 2
        IN  [take    |-> <<IF j % 2 = 1 THEN "device" ELSE "cdev", dev_cnt>>,
             outcome |-> IF j % 2 = 1 THEN "err" ELSE "zero",
             undo    |-> McdevdrvsUndoDevs(dev_cnt)]]
  \o [j \in 1 .. NR_MINOR_DEVCS |->
        [take |-> <<"fifo", j - 1>>, outcome |-> "err", undo |-> McdevdrvsUndoFifos(j - 1)]]

McdevdrvsExit ==
  [j \in 1 .. 2 * NR_MINOR_DEVCS |->
     <<IF j % 2 = 1 THEN "cdev" ELSE "device", (j - 1) \div 2>>]
  \o Each(<<"class", "region">>)
  \o [j \in 1 .. NR_MINOR_DEVCS |-> <<"fifo", j - 1>>]

-----------------------------------------------------------------------------
(* 04.time/jit.c and 05.workqueues/jiq.c: files in /proc, whose creation is
   never checked and which are removed by name. *)

AllIgnored(names) == [i \in DOMAIN names |-> Call(names[i], "ignored", <<>>)]

JitInit ==
  AllIgnored(<<"currentime", "jitbusy", "jitsched", "jitqueue", "jitschedto",
               "jitimer", "jitasklet", "jitasklethi">>)

JitCleanup ==
  Each(<<"currentime", "jitbusy", "jitsched", "jitqueue", "jitschedto",
         "jitimer", "jitasklet", "jitasklethi">>)

JiqInit == AllIgnored(<<"jiqwq", "jiqwqdelay", "jitimer", "jiqtasklet">>)

JiqCleanup == Each(<<"jiqwq", "jiqwqdelay", "jitimer", "jiqtasklet">>)

-----------------------------------------------------------------------------
(* 06.pltdevs_load to 08.pltdrv_attr, each with the probe and remove of one
   device.  platform_add_devices registers both devices or none. *)

PltdevsLoadInit == AllIgnored(<<"plt_devices">>)

PltdevsLoadExit == Each(<<"plt_devices">>)

PltdrvInit ==
  << Call("region", "err", <<>>),
     Call("pltdrv-fifoclass", "err", Each(<<"region">>)),
     Call("plt-fifo-dev", "ignored", <<>>) >>

PltdrvExit == Each(<<"plt-fifo-dev", "pltdrv-fifoclass", "region">>)

PltdrvProbe ==
  << Call("device", "err", <<>>),
     Call("cdev", "err", Each(<<"device">>)),
     Call("fifo", "err", Each(<<"cdev", "device">>)) >>

PltdrvRemove == Each(<<"fifo", "cdev", "device">>)

PltdrvAttrInit ==
  << Call("region", "err", <<>>),
     Call("pltdrv-fifoclass", "err", Each(<<"region">>)),
     Call("plt-fifo-dev", "ignored", <<>>) >>

PltdrvAttrExit == Each(<<"plt-fifo-dev", "pltdrv-fifoclass", "region">>)

PltdrvAttrTail ==
  << <<"err_setup_pltdrv", "fifo">>, <<"err_unregister_cdev", "cdev">>,
     <<"err_destruct_device", "device">> >>

PltdrvAttrProbe ==
  << Call("device", "err", <<>>),
     Call("cdev", "err", From(PltdrvAttrTail, "err_destruct_device")),
     Call("fifo", "err", From(PltdrvAttrTail, "err_unregister_cdev")),
     Call("fifo_attr_grp", "err", From(PltdrvAttrTail, "err_setup_pltdrv")) >>

PltdrvAttrRemove == Each(<<"fifo", "cdev", "device", "fifo_attr_grp">>)

-----------------------------------------------------------------------------
(* 09.virtbus and 10.virtbusdevs_load.  dev_set_name takes memory that only
   the last put of the device gives back. *)

\* Mutant: init forgets that device_register failed.
VirtbusInitBlind ==
  << Call("bus", "err", <<>>), Call("bus_name", "sure", <<>>),
     Call("bus_device", "ignored", <<>>) >>

VirtbusInit ==
  << Call("bus", "err", <<>>), Call("bus_name", "sure", <<>>),
     Call("bus_device", "err", Each(<<"bus">>)) >>

\* device_unregister takes the device down and drops it, then bus_unregister.
VirtbusExit == Each(<<"bus_device", "bus_name", "bus">>)

RegisterVirtbusDevice(name, dev) == << Call(name, "sure", <<>>), Call(dev, "ignored", <<>>) >>

UnregisterVirtbusDevice(name, dev) == Each(<<dev, name>>)

VirtbusdevsLoadInit ==
  RegisterVirtbusDevice("name0", "virtbus_dev0") \o RegisterVirtbusDevice("name1", "virtbus_dev1")

VirtbusdevsLoadExit ==
  UnregisterVirtbusDevice("name0", "virtbus_dev0") \o UnregisterVirtbusDevice("name1", "virtbus_dev1")

-----------------------------------------------------------------------------
(* 15.ds1307_smbus_drv: what a failed probe or the unbinding leaves is given
   back by the driver core, the last first. *)

Ds1307Probe ==
  << Call("priv_dev", "err", <<>>),
     Call("rtc", "err", Each(<<"priv_dev">>)),
     Call("rtc_registered", "err", Each(<<"rtc", "priv_dev">>)) >>

Ds1307Unbind == Each(<<"rtc_registered", "rtc", "priv_dev">>)

-----------------------------------------------------------------------------
(* 21.ramdisk_blkdev.  blk_prv is used before it is tested; put_disk is
   commented out in both functions. *)

RamdiskTail ==
  << <<"err_add_disk", "added">>, <<"err_mq_alloc", "tag_set">>,
     <<"err_alloc_tag", "data">>, <<"err_alloc", "major">>, <<"kfree", "blk_prv">> >>

RamdiskInit ==
  << Call("blk_prv", "oops", <<>>),
     Call("major", "ignored", <<>>),
     Call("data", "err", From(RamdiskTail, "err_alloc")),
     Call("tag_set", "err", From(RamdiskTail, "err_alloc_tag")),
     Call("gdisk", "err", From(RamdiskTail, "err_mq_alloc")),
     Call("added", "err", From(RamdiskTail, "err_add_disk")) >>

RamdiskExit == Each(<<"added", "tag_set", "data", "major", "blk_prv">>)

-----------------------------------------------------------------------------
Init_of ==
  [kernelnewbies |-> KernelnewbiesInit, chardrvs |-> ChardrvsInit,
   mcdevdrvs |-> McdevdrvsInit, jit |-> JitInit, jiq |-> JiqInit,
   pltdevs_load |-> PltdevsLoadInit, pltdrv |-> PltdrvInit,
   pltdrv_probe |-> PltdrvProbe, pltdrv_attr |-> PltdrvAttrInit,
   pltdrv_attr_probe |-> PltdrvAttrProbe, virtbus |-> VirtbusInit,
   virtbusdevs_load |-> VirtbusdevsLoadInit, ds1307_probe |-> Ds1307Probe,
   ramdisk |-> RamdiskInit]

Exit_of ==
  [kernelnewbies |-> KernelnewbiesExit, chardrvs |-> ChardrvsExit,
   mcdevdrvs |-> McdevdrvsExit, jit |-> JitCleanup, jiq |-> JiqCleanup,
   pltdevs_load |-> PltdevsLoadExit, pltdrv |-> PltdrvExit,
   pltdrv_probe |-> PltdrvRemove, pltdrv_attr |-> PltdrvAttrExit,
   pltdrv_attr_probe |-> PltdrvAttrRemove, virtbus |-> VirtbusExit,
   virtbusdevs_load |-> VirtbusdevsLoadExit, ds1307_probe |-> Ds1307Unbind,
   ramdisk |-> RamdiskExit]

Modules == DOMAIN Init_of

\* Names that must be unique in the kernel: a second taker is refused.  A file
\* of /proc is given back by name, whoever has taken it.
ProcFiles == {c.take : c \in {JitInit[i] : i \in DOMAIN JitInit} \cup {JiqInit[i] : i \in DOMAIN JiqInit}}
Unique == ProcFiles \cup {<<"pltdrv-fifoclass">>, <<"plt-fifo-dev">>}

\* Releasing these when they are not there does nothing: device_destroy finds
\* no device, kfifo_free frees a null pointer, debugfs_remove is given an error.
Harmless(r) == r[1] \in {"device", "fifo", "dbg_dir"}

\* debugfs_remove takes away what is in the directory, too.
WithContents(r) == IF r = <<"dbg_dir">> THEN {r, <<"dbg_file">>} ELSE {r}

ASSUME SetupAssumption ==
  /\ Together \subseteq SUBSET Modules
  /\ NR_MINOR_DEVCS \in Nat \ {0}

VARIABLES
  mods,     \* the modules of this behaviour
  stage,    \* for each: init, undo, loaded, exit, failed, gone, oops
  todo,     \* for each: the calls still to make in init, or to release
  result,   \* for each: what its init returns, "err" or "zero"
  held,     \* for each: what it has taken from the kernel
  strays,   \* for each: <<stage, thing>> it released and did not have
  robbed    \* what a module has released that another one held

setup_vars == <<mods, stage, todo, result, held, strays, robbed>>

SetupInit ==
  /\ mods \in Together
  /\ stage = [m \in mods |-> "init"]
  /\ todo = [m \in mods |-> Init_of[m]]
  /\ result = [m \in mods |-> "zero"]
  /\ held = [m \in mods |-> {}]
  /\ strays = [m \in mods |-> {}]
  /\ robbed = {}

\* Somebody else has the name, or the directory of the file is not there.
Refused(m, r) ==
  \/ r \in Unique /\ \E n \in mods \ {m} : r \in held[n]
  \/ r = <<"dbg_file">> /\ <<"dbg_dir">> \notin held[m]

CallSucceeds(m) ==
  /\ stage[m] = "init" /\ todo[m] # <<>>
  /\ ~Refused(m, Head(todo[m]).take)
  /\ held' = [held EXCEPT ![m] = @ \cup {Head(todo[m]).take}]
  /\ todo' = [todo EXCEPT ![m] = Tail(@)]
  /\ UNCHANGED <<mods, stage, result, strays, robbed>>

CallFails(m) ==
  /\ stage[m] = "init" /\ todo[m] # <<>>
  /\ LET c == Head(todo[m])
     IN  /\ c.outcome # "sure"
         /\ stage' = [stage EXCEPT ![m] =
                        CASE c.outcome = "ignored" -> "init"
                          [] c.outcome = "oops"    -> "oops"
                          [] OTHER                 -> "undo"]
         /\ todo' = [todo EXCEPT ![m] = IF c.outcome = "ignored" THEN Tail(@) ELSE c.undo]
         /\ result' = [result EXCEPT ![m] = IF c.outcome = "err" THEN "err" ELSE @]
  /\ UNCHANGED <<mods, held, strays, robbed>>

\* The next releasing call of an undo or of an exit.
Release(m) ==
  /\ stage[m] \in {"undo", "exit"} /\ todo[m] # <<>>
  /\ LET r == Head(todo[m])
         others == {n \in mods \ {m} : r \in held[n] /\ r \in ProcFiles}
     IN  /\ todo' = [todo EXCEPT ![m] = Tail(@)]
         /\ held' = [n \in mods |->
                       IF n = m \/ n \in others THEN held[n] \ WithContents(r) ELSE held[n]]
         /\ robbed' = IF others # {} THEN robbed \cup {r} ELSE robbed
         /\ strays' = IF r \in held[m] \/ others # {} \/ Harmless(r) THEN strays
                      ELSE [strays EXCEPT ![m] = @ \cup {<<stage[m], r>>}]
  /\ UNCHANGED <<mods, stage, result>>

\* The function returns.
Return(m) ==
  /\ stage[m] \in {"init", "undo", "exit"} /\ todo[m] = <<>>
  /\ stage' = [stage EXCEPT ![m] =
                 CASE @ = "exit"          -> "gone"
                   [] result[m] = "err"   -> "failed"
                   [] OTHER               -> "loaded"]
  /\ UNCHANGED <<mods, todo, result, held, strays, robbed>>

Unload(m) ==
  /\ stage[m] = "loaded"
  /\ stage' = [stage EXCEPT ![m] = "exit"]
  /\ todo' = [todo EXCEPT ![m] = Exit_of[m]]
  /\ UNCHANGED <<mods, result, held, strays, robbed>>

SetupNext ==
  \E m \in mods : CallSucceeds(m) \/ CallFails(m) \/ Release(m) \/ Return(m) \/ Unload(m)

SetupSpec == SetupInit /\ [][SetupNext]_setup_vars

-----------------------------------------------------------------------------
(* Properties *)

\* A module whose init failed or whose exit has run leaves nothing behind in
\* the kernel, whichever call failed, except in two places: virtbus does not
\* drop the device whose registration failed, which keeps its name, and
\* ramdisk_blk never puts its gendisk.
LeavesNothing ==
  \A m \in mods : stage[m] \in {"failed", "gone"} =>
    held[m] \subseteq (CASE m = "virtbus" /\ stage[m] = "failed" -> {<<"bus_name">>}
                         [] m = "ramdisk" -> {<<"gdisk">>}
                         [] OTHER -> {})

\* What a module may find missing because it does not look at the result.
Unchecked ==
  [m \in Modules |->
     CASE m \in {"jit", "jiq", "pltdevs_load", "virtbusdevs_load"} ->
            {Exit_of[m][i] : i \in DOMAIN Exit_of[m]}
       [] m = "chardrvs" -> {<<"dbg_dir">>, <<"dbg_file">>}
       [] m \in {"pltdrv", "pltdrv_attr"} -> {<<"plt-fifo-dev">>}
       [] m = "ramdisk" -> {<<"major">>}
       [] OTHER -> {}]

\* A module that is loaded has everything its init takes, except for calls
\* whose failure it does not notice; and except that in kernelnewbies and
\* mcdevdrvs a failing cdev_add is undone and then reported as success, so that
\* the module is loaded with nothing at all.  Nobody else takes anything away
\* from it but /proc/jitimer: jit and jiq both create it, and whichever of them
\* goes first removes it.
LoadedIsComplete ==
  /\ \A m \in mods : stage[m] = "loaded" =>
       \/ {Init_of[m][i].take : i \in DOMAIN Init_of[m]} \ held[m] \subseteq Unchecked[m]
       \/ m \in {"kernelnewbies", "mcdevdrvs"} /\ held[m] = {}
  /\ robbed \subseteq {<<"jitimer">>}

\* What the exit of m has released so far.
Released(m) == {Exit_of[m][i] : i \in 1 .. Len(Exit_of[m]) - Len(todo[m])}

\* The undo of a failed init releases only what that init had taken.  The
\* exceptions are the cdev at which mcdevdrvs' count-down starts, which is the
\* one that was not added or lies behind the end of the array, and the
\* del_gendisk of a disk that add_disk refused.  An exit releases only what the
\* module has, or what it never checked to have, except that kernelnewbies and
\* mcdevdrvs, loaded with nothing, find nothing of all that they release.
UndoesWhatIsThere ==
  \A m \in mods :
    LET undone == {r \in {s[2] : s \in strays[m]} : <<"undo", r>> \in strays[m]}
        exited == {r \in {s[2] : s \in strays[m]} : <<"exit", r>> \in strays[m]}
    IN  /\ \/ undone \subseteq Unchecked[m]
           \/ m = "mcdevdrvs" /\ \E d \in 0 .. NR_MINOR_DEVCS : undone = {<<"cdev", d>>}
           \/ m = "ramdisk" /\ undone \subseteq {<<"added">>, <<"major">>}
        /\ \/ exited \subseteq Unchecked[m]
           \/ /\ m \in {"kernelnewbies", "mcdevdrvs"}
              /\ \A r \in Released(m) : Harmless(r) \/ r \in exited
=============================================================================
