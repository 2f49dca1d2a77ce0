---------------------------- MODULE MCProvision ----------------------------
(***************************************************************************)
(* Provision has no constants: TLC checks all of it.                       *)
(***************************************************************************)
EXTENDS Provision
=============================================================================
