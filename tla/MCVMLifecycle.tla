--------------------------- MODULE MCVMLifecycle ---------------------------
(***************************************************************************)
(* Small instances of VMLifecycle for TLC.                                 *)
(***************************************************************************)
EXTENDS VMLifecycle, TLC

\* Boots and agents are interchangeable.
Symmetry == Permutations(Boots) \cup Permutations(Agents)
=============================================================================
