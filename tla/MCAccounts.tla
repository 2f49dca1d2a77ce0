----------------------------- MODULE MCAccounts -----------------------------
(***************************************************************************)
(* Small instances of Accounts for TLC.                                    *)
(***************************************************************************)
EXTENDS Accounts, TLC

Symmetry ==
    Permutations(Ids) \cup Permutations(Names) \cup Permutations(Calls) \cup Permutations(Tokens)
=============================================================================
