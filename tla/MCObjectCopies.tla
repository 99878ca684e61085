--------------------------- MODULE MCObjectCopies ---------------------------
(* Instances of ObjectCopies for model checking. *)
EXTENDS ObjectCopies

\* Two passes: one makes what the next one changes. For a VirtualMachineNetworkConfig
\* a third, after a Sync that failed.
Passes == [ippool |-> 2, vmnetcfg |-> 3]

\* A change of a VM's interfaces is two writes.
Writes == [ippool |-> 2, vmnetcfg |-> 3]
=============================================================================
