----------------------------- MODULE MCCluster -----------------------------
(***************************************************************************)
(* A small instance of Cluster for TLC.                                    *)
(***************************************************************************)
EXTENDS Cluster

\* m1 has the node m2, and lists its VM.  The job is m1's own.
CONSTANTS m1, m2

MCHome == [x \in Items |-> IF x \in Vms THEN m2 ELSE m1]
MCBelow == [m \in Machines |-> IF m = m1 THEN {m2} ELSE {}]
=============================================================================
