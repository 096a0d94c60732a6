------------------------------- MODULE MCSetup -------------------------------
(* The programs that are a sequence of calls each of which may fail: the init,
   undo and exit functions of Setup and the KVM host of KvmHost.  One runs
   while the other has not begun. *)
EXTENDS Setup, KvmHost

\* Each module alone, and two pairs that use the same names in the kernel.
AloneOrInPairs ==
  {{m} : m \in Modules} \cup {{"jit", "jiq"}, {"pltdrv", "pltdrv_attr"}}

Init == SetupInit /\ KvmInit
Next ==
  \/ KvmInit /\ SetupNext /\ UNCHANGED kvm_vars
  \/ SetupInit /\ mods = {"jiq"} /\ KvmNext /\ UNCHANGED setup_vars
Spec == Init /\ [][Next]_<<setup_vars, kvm_vars>>
=============================================================================
