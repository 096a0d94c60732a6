----------------------------- MODULE PltDrv_proofs -----------------------------
(***************************************************************************)
(* Proofs of the safety properties of PltDrv, for any number of devices    *)
(* and processes.  What a device has registered is a function of where its *)
(* probe or remove is; the names in use are distinct because device_create *)
(* refuses one that is taken, as long as each probe sees its own result.   *)
(***************************************************************************)
EXTENDS PltDrv, TLAPS

\* Where a device has its node, its cdev, its fifo and its attributes.
WithGroup == {"inc", "inc_store", "bound"}
WithFifo == WithGroup \cup {"group", "kfifo_free", "rm_kfifo_free"}
WithCdev == WithFifo \cup {"setup", "cdev_del", "rm_cdev_del"}
WithNode == WithCdev \cup {"add", "device_destroy", "rm_device_destroy"}
Phases == WithNode \cup {"unbound", "create", "store", "check", "dec", "dec_store", "free"}

TypeInv ==
  /\ phase \in [Devs -> Phases]
  /\ data_id \in [Devs -> Int]
  /\ nr_devcs_probed \in Int /\ my_nr \in [Devs -> Int]
  /\ device \in {"ok", "err"} /\ result \in [Devs -> {"ok", "err"}]
  /\ cdevs \subseteq Devs /\ fifos \subseteq Devs /\ groups \subseteq Devs
  /\ file \in [Procs -> Devs \cup {None}]
  /\ stale \subseteq Procs
  /\ fault \in Procs \cup {None}

\* A device holds exactly what its probe has taken and not given back.
HeldInv ==
  \A d \in Devs :
    /\ d \in cdevs <=> phase[d] \in WithCdev
    /\ d \in fifos <=> phase[d] \in WithFifo
    /\ d \in groups <=> phase[d] \in WithGroup

\* A device that has a node, as its own probe was told.
HasNode(d) == phase[d] \in WithNode \/ (phase[d] \in {"store", "check"} /\ result[d] = "ok")

\* Nodes have different names, whatever the count did, and each belongs to one
\* device, unless a probe was misled.
NameInv ==
  ~crossed =>
    /\ \A d, e \in Devs : HasNode(d) /\ HasNode(e) /\ data_id[d] = data_id[e] => d = e
    /\ \A d \in Devs : HasNode(d) => data_id[d] \in nodes
    /\ \A n \in nodes : \E d \in Devs : HasNode(d) /\ data_id[d] = n

IndInv == TypeInv /\ HeldInv /\ NameInv /\ BoundDeviceWorks
-----------------------------------------------------------------------------
\* The invariant holds before the module is loaded.
LEMMA InitInd == Init => IndInv
BY PltAssumption DEF Init, IndInv, TypeInv, HeldInv, NameInv, HasNode, BoundDeviceWorks,
   WithGroup, WithFifo, WithCdev, WithNode, Phases

\* The count is a number of its type after every step.
LEMMA CountType == \A n \in Int : (n + 1) % NrMod \in Int /\ (n - 1) % NrMod \in Int
BY PltAssumption

\* Every step keeps the invariant: probe and remove move a device from one
\* phase to the next together with what it holds.
LEMMA StepInd == IndInv /\ [Next]_vars => IndInv'
<1> SUFFICES ASSUME IndInv, [Next]_vars PROVE IndInv'
  OBVIOUS
<1> USE PltAssumption DEF IndInv, TypeInv, HeldInv, NameInv, HasNode, BoundDeviceWorks,
       WithGroup, WithFifo, WithCdev, WithNode, Phases
<1>1. CASE UNCHANGED vars
  BY <1>1 DEF vars, resources, creation, users
<1>2. CASE fault = None /\ (Load \/ Unload \/ UnloadEnd)
  BY <1>2 DEF Load, Unload, UnloadEnd, resources, creation, users
<1>3. ASSUME NEW d \in Devs, fault = None, ProbeId(d) PROVE IndInv'
  <2>1. d \in Int
    BY DEF Devs
  <2>2. data_id' \in [Devs -> Int] /\ \A e \in Devs : e # d => data_id'[e] = data_id[e]
    BY <1>3, <2>1 DEF ProbeId
  <2>3. QED
    BY <1>3, <2>2 DEF ProbeId, Goto, resources, creation, users
<1>4. ASSUME NEW d \in Devs, fault = None, RemoveGroup(d) PROVE IndInv'
  BY <1>4 DEF RemoveGroup, Goto, creation, users
<1>5. ASSUME NEW d \in Devs, fault = None, Device(d) PROVE IndInv'
  <2>1. CASE ProbeCreate(d)
    BY <1>5, <2>1 DEF ProbeCreate, Goto, creation, users
  <2>2. CASE ProbeAdd(d)
    BY <1>5, <2>2 DEF ProbeAdd, Goto, creation, users
  <2>3. CASE ProbeSetup(d)
    BY <1>5, <2>3 DEF ProbeSetup, Goto, creation, users
  <2>4. CASE ProbeGroup(d)
    BY <1>5, <2>4 DEF ProbeGroup, Goto, creation, users
  <2>5. CASE ProbeIncLoad(d) \/ RemoveDecLoad(d)
    BY <1>5, <2>5 DEF ProbeIncLoad, RemoveDecLoad, Load_nr, Goto, resources, creation, users
  <2>6. CASE ProbeIncStore(d)
    BY <1>5, <2>6, CountType DEF ProbeIncStore, Goto, resources, creation, users
  <2>7. CASE KfifoFree(d)
    BY <1>5, <2>7 DEF KfifoFree, Goto, creation, users
  <2>8. CASE CdevDel(d)
    BY <1>5, <2>8 DEF CdevDel, Goto, creation, users
  <2>9. CASE DeviceDestroy(d)
    BY <1>5, <2>9 DEF DeviceDestroy, Goto, creation, users
  <2>10. CASE RemoveDecStore(d)
    BY <1>5, <2>10, CountType DEF RemoveDecStore, Goto, resources, creation, users
  <2>11. CASE Free(d)
    BY <1>5, <2>11 DEF Free, Goto, resources, creation
  <2>12. CASE ProbeStore(d)
    BY <1>5, <2>12 DEF ProbeStore, Goto, users
  <2>13. CASE ProbeCheck(d)
    <3>1. TypeInv' /\ HeldInv' /\ BoundDeviceWorks'
      <4>1. CASE device = "ok"
        BY <1>5, <2>13, <4>1 DEF ProbeCheck, Goto, users
      <4>2. CASE device # "ok"
        BY <1>5, <2>13, <4>2 DEF ProbeCheck, Goto, users
      <4>3. QED
        BY <4>1, <4>2
    <3>2. ASSUME ~crossed' PROVE ~crossed /\ \A e \in Devs : HasNode(e)' <=> HasNode(e)
      <4>1. ~crossed /\ device = result[d] /\ result' = result /\ phase[d] = "check"
        BY <2>13, <3>2 DEF ProbeCheck
      <4>2. phase' = [phase EXCEPT ![d] = IF device = "ok" THEN "add" ELSE "free"]
        BY <2>13 DEF ProbeCheck, Goto
      <4>3. \A e \in Devs : e # d => phase'[e] = phase[e]
        BY <4>2
      <4>4. phase'[d] = IF result[d] = "ok" THEN "add" ELSE "free"
        BY <4>1, <4>2
      <4>5. HasNode(d)' <=> HasNode(d)
        BY <4>1, <4>4
      <4>6. QED
        BY <4>1, <4>3, <4>5
    <3>3. data_id' = data_id /\ nodes' = nodes
      BY <2>13 DEF ProbeCheck
    <3> HIDE DEF HasNode
    <3>4. NameInv'
      BY <3>2, <3>3
    <3>5. QED
      BY <3>1, <3>4
  <2>14. QED
    BY <1>5, <2>1, <2>2, <2>3, <2>4, <2>5, <2>6, <2>7, <2>8, <2>9, <2>10, <2>11,
       <2>12, <2>13 DEF Device
<1>6. ASSUME NEW p \in Procs, fault = None, Open(p) PROVE IndInv'
  BY <1>6 DEF Open, resources, creation
<1>7. ASSUME NEW p \in Procs, fault = None, Release(p) PROVE IndInv'
  BY <1>7 DEF Release, resources, creation
<1>8. ASSUME NEW p \in Procs, fault = None, UseInVain(p) PROVE IndInv'
  BY <1>8 DEF UseInVain, resources, creation
<1>9. QED
  BY <1>1, <1>2, <1>3, <1>4, <1>5, <1>6, <1>7, <1>8 DEF Next

\* The invariant holds throughout.
LEMMA Invariance == Spec => []IndInv
BY InitInd, StepInd, PTL DEF Spec
-----------------------------------------------------------------------------
\* However the count of bound devices was spoilt, no two devices that can be
\* opened have the same minor (pltdrv_probe: device_create before cdev_add), as long
\* as no probe has found another's result in prv_drv.device.
THEOREM MinorsDistinct == Spec => []DistinctMinors
<1>1. IndInv => DistinctMinors
  BY DEF IndInv, TypeInv, HeldInv, NameInv, HasNode, DistinctMinors, WithNode
<1>2. QED
  BY Invariance, <1>1, PTL

\* A device that is not bound has no cdev, fifo or attributes, wherever its probe
\* failed (the error labels of pltdrv_probe and pltdrv_remove), and no node either, as
\* long as no probe has found another's result in prv_drv.device.
THEOREM ProbeLeavesNothing == Spec => []NothingLeft
<1>1. IndInv => NothingLeft
  BY DEF IndInv, HeldInv, NameInv, HasNode, NothingLeft, WithGroup, WithFifo, WithCdev, WithNode
<1>2. QED
  BY Invariance, <1>1, PTL

\* An operation on an open file fails only if the device of the file is, or
\* was in the meantime, not bound.
THEOREM FilesWorkWhileBound == Spec => []BoundDeviceWorks
<1>1. IndInv => BoundDeviceWorks
  BY DEF IndInv
<1>2. QED
  BY Invariance, <1>1, PTL
=============================================================================
