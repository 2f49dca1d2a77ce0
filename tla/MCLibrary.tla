------------------------------ MODULE MCLibrary ------------------------------
(***************************************************************************)
(* Small instances of Library for TLC.                                     *)
(***************************************************************************)
EXTENDS Library, TLC

\* Entries, and paths of one kind, are interchangeable.
Symmetry == Permutations(Ids) \cup Permutations(Managed)
=============================================================================
