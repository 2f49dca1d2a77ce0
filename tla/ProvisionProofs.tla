--------------------------- MODULE ProvisionProofs ---------------------------
(***************************************************************************)
(* Proofs about Provision: InstallAlone and NothingLeft.                   *)
(*                                                                         *)
(* Neither is inductive.  What makes them so is the order of events that   *)
(* the flags remember: a marker means that a restore has been in its       *)
(* clean-up, which means that the VM has been spawned, so that whoever     *)
(* kills by name from then on finds it (Evidence, Order); and a wrapper    *)
(* whose Process has been forgotten has been killed by killDFU (Reaped).   *)
(***************************************************************************)
EXTENDS Provision, TLAPS

Early == {"new", "prepare", "kernelcache", "patch", "launch"}
Installing == {"cfw", "trim", "setup", "stopsetup"}
Leaving == {"byname", "reap", "wait"}

\* Who has seen the restore in its clean-up.
Evidence ==
    /\ marker # "none" <=> restore \in {"cleanup", "ok", "unsealed"}
    /\ fired # "no" => marker # "none"
    /\ marker # "none" => vm # "none"
    /\ killer # "idle" => marker # "none"
    /\ killer = "done" => vm # "dfu"

\* How far the pipeline is.
Order ==
    /\ step \in Early => wrapper = "none" /\ vm = "none"
    /\ step \in Early \cup {"boot", "probe"} => restore = "none"
    /\ restore \in {"running", "cleanup"} => step = "restore"
    /\ step \in {"stop", "stopping"} \cup Installing \/ result = "ok" => restore \in {"ok", "unsealed"}
    /\ step = "stopping" => killer # "idle"
    /\ step \in Installing \/ result = "ok" => killer = "done"

\* What has become of the processes.
Reaped ==
    /\ wrapper = "alive" => proc
    /\ step \in Deferred \cup Leaving /\ ~proc => killer # "idle"
    /\ step \in {"reap", "wait"} /\ vm = "dfu" => marker = "none"
    /\ step = "wait" => wrapper # "alive"
    /\ NothingLeft

IInv == TypeOK /\ Evidence /\ Order /\ Reaped

-----------------------------------------------------------------------------
(* The invariant                                                           *)

\* The invariant holds of a job that has not begun.
LEMMA InitIInv == Init => IInv
  BY DEF Init, IInv, TypeOK, Evidence, Order, Reaped, NothingLeft, Steps, Early,
         Installing, Leaving, Deferred

\* What happens around the job, the watcher included.
LEMMA OutsideStep ==
    ASSUME IInv,
           \/ Cancel \/ ContextKills \/ VmSpawned \/ VmDies
           \/ RestoreWaits \/ RestoreDone \/ RestoreBreaks \/ Fire
    PROVE  IInv'
  <1> USE DEF IInv, TypeOK, Evidence, Order, Reaped, NothingLeft, Steps, Early,
              Installing, Leaving, Deferred, tools
  <1>1. CASE Cancel
    BY <1>1 DEF Cancel
  <1>2. CASE ContextKills
    BY <1>2 DEF ContextKills
  <1>3. CASE VmSpawned
    BY <1>3 DEF VmSpawned
  <1>4. CASE VmDies
    BY <1>4 DEF VmDies
  <1>5. CASE RestoreWaits
    BY <1>5 DEF RestoreWaits
  <1>6. CASE RestoreDone
    BY <1>6 DEF RestoreDone
  <1>7. CASE RestoreBreaks
    BY <1>7 DEF RestoreBreaks
  <1>8. CASE Fire
    BY <1>8 DEF Fire
  <1> QED
    BY <1>1, <1>2, <1>3, <1>4, <1>5, <1>6, <1>7, <1>8

\* killDFU.
LEMMA KillDFUStep ==
    ASSUME IInv, KillDFU
    PROVE  IInv'
  <1> USE DEF IInv, TypeOK, Evidence, Order, Reaped, NothingLeft, Steps, Early,
              Installing, Leaving, Deferred, tools
  <1>1. CASE KillStarts
    BY <1>1 DEF KillStarts
  <1>2. CASE KillWrapper
    <2>1. proc' = FALSE /\ wrapper' \in {wrapper, "dead"} /\ wrapper' # "alive"
      BY <1>2 DEF KillWrapper
    <2>2. /\ killer = "wrapper" /\ killer' = "stop"
          /\ UNCHANGED <<step, result, cancelled, vm, restore, marker, fired, status>>
      BY <1>2 DEF KillWrapper
    <2>3. TypeOK'
      <3>1. proc' \in BOOLEAN
        BY <2>1, Zenon
      <3> QED
        BY <2>1, <2>2, <3>1
    <2>4. Evidence' /\ Order'
      BY <2>1, <2>2
    <2>5. Reaped'
      BY <2>1, <2>2
    <2> QED
      BY <2>3, <2>4, <2>5
  <1>3. CASE KillStop
    BY <1>3 DEF KillStop, Running, StopVm
  <1>4. CASE KillByName
    BY <1>4 DEF KillByName, KillDfu
  <1> QED
    BY <1>1, <1>2, <1>3, <1>4 DEF KillDFU

\* The pipeline.
LEMMA PipelineStep ==
    ASSUME IInv, Pipeline
    PROVE  IInv'
  <1> USE DEF IInv, TypeOK, Evidence, Order, Reaped, NothingLeft, Steps, Early,
              Installing, Leaving, Deferred, tools
  <1>1. CASE ToolEnds
    BY <1>1 DEF ToolEnds, Following
  <1>2. CASE ToolFails
    BY <1>2 DEF ToolFails, Following, Returns
  <1>3. CASE LaunchDFU
    BY <1>3 DEF LaunchDFU, Goes
  <1>4. CASE DfuBooted
    BY <1>4 DEF DfuBooted, Goes
  <1>5. CASE ProbeEnds
    BY <1>5 DEF ProbeEnds, Goes
  <1>6. CASE SeesCancel
    BY <1>6 DEF SeesCancel, Returns
  <1>7. CASE RestoreAccepted
    BY <1>7 DEF RestoreAccepted, RestoreReturned
  <1>8. CASE RestoreRefused
    BY <1>8 DEF RestoreRefused, RestoreReturned, Returns
  <1>9. CASE StopDFU
    BY <1>9 DEF StopDFU, Goes
  <1>10. CASE DFUStopped
    BY <1>10 DEF DFUStopped, Goes
  <1>11. CASE SetupEnds
    BY <1>11 DEF SetupEnds, Goes
  <1>12. CASE StopSetupBootProcess
    BY <1>12 DEF StopSetupBootProcess, Returns, Running, StopVm
  <1>13. CASE DeferredByName
    BY <1>13 DEF DeferredByName, Goes, KillDfu
  <1>14. CASE DeferredKill
    BY <1>14 DEF DeferredKill
  <1>15. CASE DeferredWait
    BY <1>15 DEF DeferredWait, Goes
  <1>16. CASE StatusWritten
    BY <1>16 DEF StatusWritten
  <1> QED
    BY <1>1, <1>2, <1>3, <1>4, <1>5, <1>6, <1>7, <1>8, <1>9, <1>10, <1>11, <1>12, <1>13, <1>14, <1>15, <1>16 DEF Pipeline

\* Every step keeps the invariant.
LEMMA NextIInv ==
    ASSUME IInv, [Next]_vars
    PROVE  IInv'
  <1>1. CASE UNCHANGED vars
    BY <1>1 DEF vars, tools, IInv, TypeOK, Evidence, Order, Reaped, NothingLeft
  <1> QED
    BY <1>1, OutsideStep, KillDFUStep, PipelineStep DEF Next

\* The invariant always holds.
LEMMA Invariance == Spec => []IInv
  BY InitIInv, NextIInv, PTL DEF Spec

-----------------------------------------------------------------------------
(* The theorems                                                            *)

\* The variables keep their types.
THEOREM TypeCorrect == Spec => []TypeOK
  <1>1. IInv => TypeOK
    BY DEF IInv
  <1> QED
    BY <1>1, Invariance, PTL

\* The firmware is installed, and a job succeeds, only after the restore, with the DFU
\* VM dead and killDFU over, whichever of the watcher and the pipeline called it first.
THEOREM InstallIsAlone == Spec => []InstallAlone
  <1>1. IInv => InstallAlone
    BY DEF IInv, InstallAlone, Evidence, Order, Installing
  <1> QED
    BY <1>1, Invariance, PTL

\* No wrapper and no DFU VM outlive the job, whenever it fails or is cancelled.
THEOREM NothingIsLeft == Spec => []NothingLeft
  <1>1. IInv => NothingLeft
    BY DEF IInv, Reaped
  <1> QED
    BY <1>1, Invariance, PTL
=============================================================================
