----------------------------- MODULE MCJobQueue -----------------------------
(***************************************************************************)
(* Small instances of JobQueue for TLC.                                    *)
(***************************************************************************)
EXTENDS JobQueue, TLC

\* Jobs are interchangeable in the safety run.
JobSymmetry == Permutations(Jobs)
=============================================================================
