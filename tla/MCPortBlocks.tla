---------------------------- MODULE MCPortBlocks ----------------------------
(***************************************************************************)
(* Small instances of PortBlocks for TLC: a host whose ports end at        *)
(* TopPort, with room for fewer blocks than there are VMs.                 *)
(***************************************************************************)
EXTENDS PortBlocks, TLC

\* The smallest block size that is accepted, and the smallest that holds every offset:
\* three blocks of each, the last two overlapping those of the other.
MCConfigs == {[base |-> 10, size |-> 4], [base |-> 10, size |-> 5]}

VmSymmetry == Permutations(Vms) \cup Permutations(Deleters)
=============================================================================
