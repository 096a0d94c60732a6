-------------------------------- MODULE PltDrv --------------------------------
(***************************************************************************)
(* The platform fifo drivers 07.pltdrv, 08.pltdrv_attr and                 *)
(* 12.pltdrv_attr_dt: what pltdrv_probe registers for a device and         *)
(* pltdrv_remove takes away, while processes open and use the device       *)
(* nodes.  The three differ in what they add: 08 a sysfs group, 12 a       *)
(* minor that is taken from a count when the device comes from the device  *)
(* tree.  The model is of 12.                                              *)
(*                                                                         *)
(* The driver core runs probe and remove of one device one at a time, and  *)
(* those of different devices concurrently (bind and unbind in sysfs).     *)
(* Reads and writes of the fifo are ChrFifo's; here a use is one step that *)
(* needs the device's structure and its fifo.  store_fversion sets a       *)
(* number that only show_fversion reads, and is left out.                  *)
(***************************************************************************)
EXTENDS Integers

CONSTANTS
  NR_MINOR_DEVCS,   \* platform devices, with the ids 0..NR_MINOR_DEVCS - 1
  NrMod,            \* where nr_devcs_probed, an unsigned int, wraps
  Tree,             \* the ones described in the device tree
  Procs,            \* the processes that open the device nodes
  None

Devs == 0..NR_MINOR_DEVCS - 1

ASSUME PltAssumption ==
  /\ NR_MINOR_DEVCS \in Nat \ {0}
  /\ NrMod \in Nat /\ NrMod > NR_MINOR_DEVCS
  /\ Tree \subseteq Devs /\ None \notin Devs \cup Procs

VARIABLES
  module,          \* where pltdrv_init and pltdrv_exit are
  nr_devcs_probed,
  phase,           \* where probe or remove of each device is
  data_id,         \* the minor of each device
  nodes,           \* the minors that have a device node (device_create)
  device,          \* prv_drv.device, one for all devices: "ok" or "err"
  result,          \* what device_create returned to each probe
  cdevs,           \* the ones whose cdev is in the kernel's map
  fifos,           \* the ones with an allocated fifo
  groups,          \* the ones with sysfs attributes
  my_nr,           \* the count loaded for an increment or a decrement
  file,            \* the device each process has open
  stale,           \* the processes whose file points to a freed structure
  fault            \* the process that used its file in vain; nothing happens after

(* History: a probe has taken the result of another probe's device_create, *)
(* a different one, for its own.                                           *)
VARIABLE crossed

creation == <<nodes, device, result, crossed>>
resources == <<creation, cdevs, fifos, groups>>
users == <<file, stale, fault>>
vars == <<module, nr_devcs_probed, phase, data_id, resources, my_nr, users>>

Goto(d, l) == phase' = [phase EXCEPT ![d] = l]

Init ==
  /\ module = "unloaded"
  /\ nr_devcs_probed = 0
  /\ phase = [d \in Devs |-> "unbound"]
  /\ data_id = [d \in Devs |-> 0]
  /\ nodes = {} /\ device = "ok" /\ result = [d \in Devs |-> "ok"] /\ crossed = FALSE
  /\ cdevs = {} /\ fifos = {} /\ groups = {}
  /\ my_nr = [d \in Devs |-> 0]
  /\ file = [p \in Procs |-> None] /\ stale = {} /\ fault = None

-----------------------------------------------------------------------------
(* pltdrv_init and pltdrv_exit *)

\* A failure of alloc_chrdev_region or class_create is undone and reported.
Load ==
  /\ module = "unloaded"
  /\ module' = "live"
  /\ nr_devcs_probed' = 0
  /\ UNCHANGED <<phase, data_id, resources, my_nr, users>>

\* An open file holds the module.  platform_driver_unregister removes every
\* device that is bound and lets no new probe start.
Unload ==
  /\ module = "live"
  /\ \A p \in Procs : file[p] = None
  /\ module' = "exiting"
  /\ UNCHANGED <<nr_devcs_probed, phase, data_id, resources, my_nr, users>>

UnloadEnd ==
  /\ module = "exiting"
  /\ \A d \in Devs : phase[d] = "unbound"
  /\ module' = "unloaded"
  /\ UNCHANGED <<nr_devcs_probed, phase, data_id, resources, my_nr, users>>

-----------------------------------------------------------------------------
(* pltdrv_probe *)

\* The platform data and the minor; failures up to here leave nothing behind.
ProbeId(d) ==
  /\ module = "live"
  /\ phase[d] = "unbound"
  /\ data_id' = [data_id EXCEPT ![d] = IF d \in Tree THEN nr_devcs_probed ELSE d]
  /\ Goto(d, "create")
  /\ UNCHANGED <<module, nr_devcs_probed, resources, my_nr, users>>

\* device_create refuses a name that is taken, and may fail otherwise.
ProbeCreate(d) ==
  /\ phase[d] = "create"
  /\ \/ /\ data_id[d] \notin nodes
        /\ nodes' = nodes \cup {data_id[d]}
        /\ result' = [result EXCEPT ![d] = "ok"]
     \/ /\ result' = [result EXCEPT ![d] = "err"]
        /\ UNCHANGED nodes
  /\ Goto(d, "store")
  /\ UNCHANGED <<module, nr_devcs_probed, data_id, device, crossed>>
  /\ UNCHANGED <<cdevs, fifos, groups, my_nr, users>>

\* The result goes into a field that all probes share ...
ProbeStore(d) ==
  /\ phase[d] = "store"
  /\ device' = result[d]
  /\ Goto(d, "check")
  /\ UNCHANGED <<module, nr_devcs_probed, data_id, nodes, result, crossed>>
  /\ UNCHANGED <<cdevs, fifos, groups, my_nr, users>>

\* Mutant: the result is not looked at.
ProbeCheckNothing(d) ==
  /\ phase[d] = "check"
  /\ crossed' = (crossed \/ device # result[d])
  /\ Goto(d, "add")
  /\ UNCHANGED <<module, nr_devcs_probed, data_id, nodes, device, result>>
  /\ UNCHANGED <<cdevs, fifos, groups, my_nr, users>>

\* ... and it is that field that is tested: another probe may have stored its
\* own result in between.  On an error nothing is undone.
ProbeCheck(d) ==
  /\ phase[d] = "check"
  /\ crossed' = (crossed \/ device # result[d])
  /\ Goto(d, IF device = "ok" THEN "add" ELSE "free")
  /\ UNCHANGED <<module, nr_devcs_probed, data_id, nodes, device, result>>
  /\ UNCHANGED <<cdevs, fifos, groups, my_nr, users>>

\* cdev_add: from here on the node can be opened.
ProbeAdd(d) ==
  /\ phase[d] = "add"
  /\ \/ cdevs' = cdevs \cup {d} /\ Goto(d, "setup")
     \/ Goto(d, "device_destroy") /\ UNCHANGED cdevs
  /\ UNCHANGED <<module, nr_devcs_probed, data_id, creation, fifos, groups, my_nr, users>>

\* Mutant: a failure leaves the cdev in the map.
ProbeSetupKeepsCdev(d) ==
  /\ phase[d] = "setup"
  /\ \/ fifos' = fifos \cup {d} /\ Goto(d, "group")
     \/ Goto(d, "device_destroy") /\ UNCHANGED fifos
  /\ UNCHANGED <<module, nr_devcs_probed, data_id, creation, cdevs, groups, my_nr, users>>

\* Mutant: the result of kfifo_alloc is not looked at.
ProbeSetupUnchecked(d) ==
  /\ phase[d] = "setup"
  /\ fifos' \in {fifos, fifos \cup {d}}
  /\ Goto(d, "group")
  /\ UNCHANGED <<module, nr_devcs_probed, data_id, creation, cdevs, groups, my_nr, users>>

\* setup_pltdrv_dev.
ProbeSetup(d) ==
  /\ phase[d] = "setup"
  /\ \/ fifos' = fifos \cup {d} /\ Goto(d, "group")
     \/ Goto(d, "cdev_del") /\ UNCHANGED fifos
  /\ UNCHANGED <<module, nr_devcs_probed, data_id, creation, cdevs, groups, my_nr, users>>

\* sysfs_create_group.
ProbeGroup(d) ==
  /\ phase[d] = "group"
  /\ \/ groups' = groups \cup {d} /\ Goto(d, "inc")
     \/ Goto(d, "kfifo_free") /\ UNCHANGED groups
  /\ UNCHANGED <<module, nr_devcs_probed, data_id, creation, cdevs, fifos, my_nr, users>>

\* ++prv_drv.nr_devcs_probed, with no lock: a load and a store.
Load_nr(d, from, to) ==
  /\ phase[d] = from
  /\ my_nr' = [my_nr EXCEPT ![d] = nr_devcs_probed]
  /\ Goto(d, to)
  /\ UNCHANGED <<module, nr_devcs_probed, data_id, resources, users>>

ProbeIncLoad(d) == Load_nr(d, "inc", "inc_store")

ProbeIncStore(d) ==
  /\ phase[d] = "inc_store"
  /\ nr_devcs_probed' = (my_nr[d] + 1) % NrMod
  /\ my_nr' = [my_nr EXCEPT ![d] = 0]
  /\ Goto(d, "bound")
  /\ UNCHANGED <<module, data_id, resources, users>>

-----------------------------------------------------------------------------
(* pltdrv_remove; the error paths of probe join it at the step they need.  *)

RemoveGroup(d) ==
  /\ phase[d] = "bound"
  /\ groups' = groups \ {d}
  /\ Goto(d, "rm_kfifo_free")
  /\ UNCHANGED <<module, nr_devcs_probed, data_id, creation, cdevs, fifos, my_nr, users>>

\* uninstall_pltdrv_dev: the node can still be opened and used.
KfifoFree(d) ==
  /\ phase[d] \in {"kfifo_free", "rm_kfifo_free"}
  /\ fifos' = fifos \ {d}
  /\ Goto(d, IF phase[d] = "kfifo_free" THEN "cdev_del" ELSE "rm_cdev_del")
  /\ UNCHANGED <<module, nr_devcs_probed, data_id, creation, cdevs, groups, my_nr, users>>

CdevDel(d) ==
  /\ phase[d] \in {"cdev_del", "rm_cdev_del"}
  /\ cdevs' = cdevs \ {d}
  /\ Goto(d, IF phase[d] = "cdev_del" THEN "device_destroy" ELSE "rm_device_destroy")
  /\ UNCHANGED <<module, nr_devcs_probed, data_id, creation, fifos, groups, my_nr, users>>

\* device_destroy takes away the node with this number, whoever created it.
DeviceDestroy(d) ==
  /\ phase[d] \in {"device_destroy", "rm_device_destroy"}
  /\ nodes' = nodes \ {data_id[d]}
  /\ Goto(d, IF phase[d] = "device_destroy" THEN "free" ELSE "dec")
  /\ UNCHANGED <<module, nr_devcs_probed, data_id, device, result, crossed>>
  /\ UNCHANGED <<cdevs, fifos, groups, my_nr, users>>

RemoveDecLoad(d) == Load_nr(d, "dec", "dec_store")

\* The count is unsigned: it wraps below 0 after a lost increment.
RemoveDecStore(d) ==
  /\ phase[d] = "dec_store"
  /\ nr_devcs_probed' = (my_nr[d] - 1) % NrMod
  /\ my_nr' = [my_nr EXCEPT ![d] = 0]
  /\ Goto(d, "free")
  /\ UNCHANGED <<module, data_id, resources, users>>

\* The driver core frees dev_data; a file opened on it keeps the pointer.
Free(d) ==
  /\ phase[d] = "free"
  /\ stale' = stale \cup {p \in Procs : file[p] = d}
  /\ Goto(d, "unbound")
  /\ data_id' = [data_id EXCEPT ![d] = 0]
  /\ UNCHANGED <<module, nr_devcs_probed, resources, my_nr, file, fault>>

-----------------------------------------------------------------------------
(* The file operations *)

Open(p) ==
  /\ module = "live"
  /\ file[p] = None
  /\ \E d \in cdevs : file' = [file EXCEPT ![p] = d]
  /\ UNCHANGED <<module, nr_devcs_probed, phase, data_id, resources, my_nr, stale, fault>>

Release(p) ==
  /\ file[p] # None
  /\ file' = [file EXCEPT ![p] = None]
  /\ stale' = stale \ {p}
  /\ UNCHANGED <<module, nr_devcs_probed, phase, data_id, resources, my_nr, fault>>

\* A read or a write on a structure or a fifo that is not there.
UseInVain(p) ==
  /\ file[p] # None
  /\ p \in stale \/ file[p] \notin fifos
  /\ fault' = p
  /\ UNCHANGED <<module, nr_devcs_probed, phase, data_id, resources, my_nr, file, stale>>

-----------------------------------------------------------------------------
Device(d) ==
  \/ ProbeCreate(d) \/ ProbeStore(d) \/ ProbeCheck(d) \/ ProbeAdd(d)
  \/ ProbeSetup(d) \/ ProbeGroup(d) \/ ProbeIncLoad(d) \/ ProbeIncStore(d)
  \/ KfifoFree(d) \/ CdevDel(d) \/ DeviceDestroy(d)
  \/ RemoveDecLoad(d) \/ RemoveDecStore(d) \/ Free(d)

Next ==
  /\ fault = None
  /\ \/ Load \/ Unload \/ UnloadEnd
     \/ \E d \in Devs : ProbeId(d) \/ RemoveGroup(d) \/ Device(d)
     \/ \E p \in Procs : Open(p) \/ Release(p) \/ UseInVain(p)

Spec == Init /\ [][Next]_vars

-----------------------------------------------------------------------------
(* Properties *)

\* No two devices answer to the same device number, although the minors of
\* device tree devices come from a count that other probes and removes move,
\* and may spoil by updating it at the same time: the name that device_create
\* refuses is held for as long as the cdev.  Only a probe that was misled by
\* another's result in prv_drv.device (line 258) can break this.
DistinctMinors ==
  crossed \/ \A d, e \in cdevs : data_id[d] = data_id[e] => d = e

\* Whatever step of probe failed, and whenever remove is over, nothing of the
\* device is left registered or allocated; and every node belongs to a device
\* that is being bound, bound or being unbound, unless a probe was misled.
NothingLeft ==
  /\ \A d \in Devs : phase[d] = "unbound" => d \notin cdevs \cup fifos \cup groups
  /\ crossed \/ \A n \in nodes : \E d \in Devs : data_id[d] = n /\ phase[d] # "unbound"

\* A file works for as long as the device it was opened on stays bound: an
\* operation in vain means that probe or remove was under way, or over.
BoundDeviceWorks ==
  fault # None => fault \in stale \/ phase[file[fault]] # "bound"
=============================================================================
