------------------------------ MODULE Provision ------------------------------
(***************************************************************************)
(* One provisioning job: src/internal/vm/provision.go and the launchpad    *)
(* calls it makes (src/internal/upstream/launchpad.go).                    *)
(*                                                                         *)
(* The pipeline launches the VM in DFU mode: a CLI wrapper, our child, and *)
(* the VM process, which a privileged helper spawns outside our process    *)
(* group and which keeps the wrapper's pipes open.  The restore ends with  *)
(* a clean-up that waits for that VM to go.  A watcher of the output       *)
(* starts killDFU, in a goroutine, when "waiting for disconnect" shows up. *)
(*                                                                         *)
(* Outside the code, and assumed: the VM is spawned while the wrapper      *)
(* lives; a restore that succeeds has been through its clean-up; SIGTERM   *)
(* to the wrapper's group and SIGKILL to the VM work.  The CREATING row    *)
(* and a death of the server are VMLifecycle's.                            *)
(***************************************************************************)
EXTENDS Naturals

(***************************************************************************)
(* step: the commands of the pipeline.  boot: the 15 s; stop: killDFU has  *)
(* been called, or found called; stopsetup: stopSetupBootProcess; byname,  *)
(* reap, wait: the deferred function; ended: the job's function returned.  *)
(***************************************************************************)
Steps == {"new", "prepare", "kernelcache", "patch", "launch", "boot", "probe", "restore",
          "stop", "stopping", "cfw", "trim", "setup", "stopsetup", "byname", "reap", "wait",
          "ended"}

VARIABLES
    step,
    result,     \* none yet, ok or error
    cancelled,  \* the context of the job
    wrapper,    \* the CLI wrapper: none, alive, dead
    proc,       \* dfuCmd.Process is not nil
    vm,         \* process of that name: none, dfu, setup (the boot of template setup), dead
    restore,    \* the restore: none, running, cleanup, ok, unsealed (failed after
                \* clean-up), failed
    marker,     \* "waiting for disconnect", on its way: from restore or vm, or lost in the
                \* watcher; or none
    fired,      \* the watcher's flag, and by which goroutine it was set
    killer,     \* killDFU: idle, wrapper, stop, byname, done
    status      \* of the VM: CREATING, STOPPED, ERROR

tools == <<wrapper, proc, vm, restore, marker>>
vars == <<step, result, cancelled, tools, fired, killer, status>>

Init ==
    /\ step = "new" /\ result = "none" /\ cancelled = FALSE
    /\ wrapper = "none" /\ proc = FALSE /\ vm = "none"
    /\ restore = "none" /\ marker = "none" /\ fired = "no"
    /\ killer = "idle" /\ status = "CREATING"

Goes(from, to) == step = from /\ step' = to

-----------------------------------------------------------------------------
(* Outside                                                                 *)

\* Cancel of the job, or shutdown.
Cancel ==
    /\ step # "ended" /\ ~cancelled /\ cancelled' = TRUE
    /\ UNCHANGED <<step, result, tools, fired, killer, status>>

\* CommandContext kills the wrapper alone.
ContextKills ==
    /\ cancelled /\ wrapper = "alive" /\ wrapper' = "dead"
    /\ UNCHANGED <<step, result, cancelled, proc, vm, restore, marker, fired, killer, status>>

VmSpawned ==
    /\ wrapper = "alive" /\ vm = "none" /\ vm' = "dfu"
    /\ UNCHANGED <<step, result, cancelled, wrapper, proc, restore, marker, fired, killer, status>>

VmDies ==
    /\ vm = "dfu" /\ vm' = "dead"
    /\ UNCHANGED <<step, result, cancelled, wrapper, proc, restore, marker, fired, killer, status>>

\* The VM itself, or the restore, says that the restore waits for the disconnect.  The
\* restore's lines reach the watcher whole.  The VM's output comes in chunks: when two
\* of them share the words, a line of the restore may take the watcher's partial away
\* in between, or overwrite it, and the words are lost.
RestoreWaits ==
    /\ restore = "running" /\ vm = "dfu"
    /\ restore' = "cleanup" /\ marker' \in {"restore", "vm", "lost"}
    /\ UNCHANGED <<step, result, cancelled, wrapper, proc, vm, fired, killer, status>>

\* The VM is gone: the clean-up is over, with or without success in sealing the volume.
RestoreDone ==
    /\ restore = "cleanup" /\ vm = "dead"
    /\ restore' \in {"ok", "unsealed"}
    /\ UNCHANGED <<step, result, cancelled, wrapper, proc, vm, marker, fired, killer, status>>

\* It fails by itself before the clean-up, or is killed.
RestoreBreaks ==
    /\ \/ restore = "running" /\ restore' = "failed"
       \/ restore = "cleanup" /\ cancelled /\ restore' = "unsealed"
    /\ UNCHANGED <<step, result, cancelled, wrapper, proc, vm, marker, fired, killer, status>>

-----------------------------------------------------------------------------
(* The watcher and killDFU                                                 *)

\* disconnectWatcher.Write, in a goroutine that copies output.
Fire ==
    /\ marker \in {"restore", "vm"} /\ fired = "no"
    /\ fired' = marker
    /\ UNCHANGED <<step, result, cancelled, tools, killer, status>>

\* go onDisconnect(): killOnce is free.
KillStarts ==
    /\ fired # "no" /\ killer = "idle" /\ killer' = "wrapper"
    /\ UNCHANGED <<step, result, cancelled, tools, fired, status>>

\* SIGTERM to the group, up to 5 s for Wait, and Process is forgotten.  SIGTERM is taken
\* to work: what Wait may still wait for is the VM, which holds the pipes.
KillWrapper ==
    /\ killer = "wrapper" /\ killer' = "stop"
    /\ IF proc THEN proc' = FALSE /\ wrapper' = "dead" ELSE UNCHANGED <<proc, wrapper>>
    /\ UNCHANGED <<step, result, cancelled, vm, restore, marker, fired, status>>

Running == vm \in {"dfu", "setup"}

\* VMStop stops whatever runs under the name, or fails, or times out.
StopVm == vm' = "dead" \/ vm' = vm

KillStop ==
    /\ killer = "stop" /\ killer' = "byname"
    /\ IF Running THEN StopVm ELSE UNCHANGED vm
    /\ UNCHANGED <<step, result, cancelled, wrapper, proc, restore, marker, fired, status>>

\* Mutant: the VM process is left to VMStop.
KillNothing == UNCHANGED vm

\* killDFUByName: SIGKILL after two seconds.
KillDfu == vm' = IF vm = "dfu" THEN "dead" ELSE vm

KillByName ==
    /\ killer = "byname" /\ killer' = "done"
    /\ KillDfu
    /\ UNCHANGED <<step, result, cancelled, wrapper, proc, restore, marker, fired, status>>

KillDFU == KillStarts \/ KillWrapper \/ KillStop \/ KillByName

-----------------------------------------------------------------------------
(* The pipeline                                                            *)

Following == [new |-> "prepare", prepare |-> "kernelcache", kernelcache |-> "patch",
              patch |-> "launch", cfw |-> "trim", trim |-> "setup"]

\* The deferred function, once it is registered.
Deferred == {"boot", "probe", "restore", "stop", "stopping", "cfw", "trim", "setup", "stopsetup"}

Returns(r) ==
    /\ step' = IF step \in Deferred THEN "byname" ELSE "ended"
    /\ result' = r

\* A tool that succeeds, under a context that is still alive when it returns.
ToolEnds ==
    /\ step \in DOMAIN Following /\ ~cancelled
    /\ step' = Following[step]
    /\ vm' = IF step' = "setup" THEN "setup" ELSE vm
    /\ UNCHANGED <<result, cancelled, wrapper, proc, restore, marker, fired, killer, status>>

ToolFails ==
    /\ step \in DOMAIN Following \cup {"launch", "setup"}
    /\ Returns("error")
    /\ UNCHANGED <<cancelled, tools, fired, killer, status>>

LaunchDFU ==
    /\ Goes("launch", "boot") /\ ~cancelled
    /\ wrapper' = "alive" /\ proc' = TRUE
    /\ UNCHANGED <<result, cancelled, vm, restore, marker, fired, killer, status>>

\* 15 seconds.
DfuBooted ==
    /\ Goes("boot", "probe")
    /\ UNCHANGED <<result, cancelled, tools, fired, killer, status>>

\* One of three probes succeeds, or none: the restore is tried anyway.
ProbeEnds ==
    /\ Goes("probe", "restore")
    /\ restore' = IF cancelled THEN "failed" ELSE "running"
    /\ UNCHANGED <<result, cancelled, wrapper, proc, vm, marker, fired, killer, status>>

\* ctx.Done is looked at in the 15 seconds, and between two probes.
SeesCancel ==
    /\ step \in {"boot", "probe"} /\ cancelled
    /\ Returns("error")
    /\ UNCHANGED <<cancelled, tools, fired, killer, status>>

\* ExecRestore has read all of the restore's stderr when it returns.
RestoreReturned ==
    /\ step = "restore" /\ restore \in {"ok", "unsealed", "failed"}
    /\ marker = "restore" => fired # "no"

\* An error is tolerated if the watcher has fired.
RestoreAccepted ==
    /\ RestoreReturned
    /\ restore = "ok" \/ fired # "no"
    /\ step' = "stop"
    /\ UNCHANGED <<result, cancelled, tools, fired, killer, status>>

\* The flag that another goroutine has set may not be seen: nothing orders that
\* write and this read.
RestoreRefused ==
    /\ RestoreReturned
    /\ restore # "ok" /\ fired # "restore"
    /\ Returns("error")
    /\ UNCHANGED <<cancelled, tools, fired, killer, status>>

StopDFU ==
    /\ Goes("stop", "stopping")
    /\ killer' = IF killer = "idle" THEN "wrapper" ELSE killer
    /\ UNCHANGED <<result, cancelled, tools, fired, status>>

\* Mutant: killOnce is a flag; a call that is not the first one returns at once.
StopIsSkipped ==
    /\ Goes("stopping", "cfw")
    /\ UNCHANGED <<result, cancelled, tools, fired, killer, status>>

\* Once.Do returns when the first call has returned, whoever made it.  Then 5 seconds.
DFUStopped ==
    /\ Goes("stopping", "cfw") /\ killer = "done"
    /\ UNCHANGED <<result, cancelled, tools, fired, killer, status>>

\* Success, or "vphoned did not answer", for whatever reason.
SetupEnds ==
    /\ Goes("setup", "stopsetup")
    /\ UNCHANGED <<result, cancelled, tools, fired, killer, status>>

StopSetupBootProcess ==
    /\ step = "stopsetup"
    /\ Returns("ok")
    /\ IF Running THEN StopVm ELSE UNCHANGED vm
    /\ UNCHANGED <<cancelled, wrapper, proc, restore, marker, fired, killer, status>>

DeferredByName ==
    /\ Goes("byname", "reap")
    /\ KillDfu
    /\ UNCHANGED <<result, cancelled, wrapper, proc, restore, marker, fired, killer, status>>

DeferredKill ==
    /\ step = "reap"
    /\ IF proc THEN step' = "wait" /\ wrapper' = "dead" ELSE step' = "ended" /\ UNCHANGED wrapper
    /\ UNCHANGED <<result, cancelled, proc, vm, restore, marker, fired, killer, status>>

\* Mutant: the wrapper is not waited for.
DeferredReturn ==
    /\ Goes("wait", "ended")
    /\ UNCHANGED <<result, cancelled, tools, fired, killer, status>>

\* Wait returns when nobody has the pipes open any more.
DeferredWait ==
    /\ Goes("wait", "ended") /\ vm # "dfu"
    /\ UNCHANGED <<result, cancelled, tools, fired, killer, status>>

\* provision, when the job is done.
StatusWritten ==
    /\ step = "ended" /\ status = "CREATING"
    /\ status' = IF result = "ok" THEN "STOPPED" ELSE "ERROR"
    /\ UNCHANGED <<step, result, cancelled, tools, fired, killer>>

Pipeline ==
    \/ ToolEnds \/ ToolFails \/ LaunchDFU \/ DfuBooted \/ ProbeEnds \/ SeesCancel
    \/ RestoreAccepted \/ RestoreRefused \/ StopDFU \/ DFUStopped \/ SetupEnds
    \/ StopSetupBootProcess \/ DeferredByName \/ DeferredKill \/ DeferredWait
    \/ StatusWritten

-----------------------------------------------------------------------------
Next ==
    \/ Cancel \/ ContextKills \/ VmSpawned \/ VmDies
    \/ RestoreWaits \/ RestoreDone \/ RestoreBreaks
    \/ Fire \/ KillDFU
    \/ Pipeline

\* The goroutines that copy output and that kill, and a restore that need not wait any
\* longer.  No tool is sure to end otherwise.
Fairness == WF_vars(Fire) /\ WF_vars(KillDFU) /\ WF_vars(RestoreDone)

Spec == Init /\ [][Next]_vars /\ Fairness

-----------------------------------------------------------------------------
(* Properties                                                              *)

TypeOK ==
    /\ step \in Steps /\ result \in {"none", "ok", "error"} /\ cancelled \in BOOLEAN
    /\ wrapper \in {"none", "alive", "dead"} /\ proc \in BOOLEAN
    /\ vm \in {"none", "dfu", "setup", "dead"}
    /\ restore \in {"none", "running", "cleanup", "ok", "unsealed", "failed"}
    /\ marker \in {"none", "restore", "vm", "lost"} /\ fired \in {"no", "restore", "vm"}
    /\ killer \in {"idle", "wrapper", "stop", "byname", "done"}
    /\ status \in {"CREATING", "STOPPED", "ERROR"}

\* The firmware is installed on a disk that a restore has left behind, with the DFU VM
\* dead and killDFU, whoever ran it, over: it stops neither the boot of template setup
\* nor the first boot of the VM, which may follow at once when the VM is STOPPED.
InstallAlone ==
    step \in {"cfw", "trim", "setup", "stopsetup"} \/ result = "ok" =>
        /\ restore \in {"ok", "unsealed"}
        /\ vm # "dfu" /\ killer = "done"

\* However the job ends, no wrapper and no DFU VM outlive it, not even one that was
\* spawned between the steps of the deferred function.
NothingLeft == step = "ended" => wrapper # "alive" /\ vm # "dfu"

\* The restore does not wait for ever for the VM that the pipeline keeps alive, unless
\* the watcher has lost the words that it was to be told by.
CleanupEnds == restore = "cleanup" /\ marker # "lost" ~> restore # "cleanup"
=============================================================================
