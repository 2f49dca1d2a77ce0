----------------------------- MODULE VMLifecycle -----------------------------
(***************************************************************************)
(* The life of virtual machines: the VM manager of src/internal/vm (Boot,  *)
(* Stop, DeleteJob, Reprovision, Create, Shutdown, the goroutines they     *)
(* start, and reconcile), the status column of the vms table and the       *)
(* vphone-vm processes on the host.                                        *)
(*                                                                         *)
(* There is no lock per VM.  Every operation reads the status once and     *)
(* later writes it unconditionally; in between run HTTP handlers, job      *)
(* goroutines, one goroutine per boot, two supervisors per boot and the    *)
(* goroutine that waits for guest services.  One step of the model is one  *)
(* SQL statement, one hold of m.mu or one call of the launchpad CLI, with  *)
(* what the goroutine does for itself around it.                           *)
(*                                                                         *)
(* The VMs are native ones, with an API token and a launchpad name.        *)
(***************************************************************************)
EXTENDS Naturals, FiniteSets

CONSTANTS
    Vms,                \* ids that Create may draw: each is used at most once
    Boots,              \* bound: boots (runtime objects) in use at one time
    Agents,             \* bound: HTTP handlers and jobs at work at one time
    Requests,           \* the requests that arrive, a subset of AllRequests
    MaxConcurrentVMs,   \* limits.max_concurrent_vms
    GuestServices       \* guests have TrollVNC, which postBootServices asks for

AllRequests == {"boot", "stop", "delete", "reprovision"}

ASSUME SetsAssumption == IsFiniteSet(Vms) /\ IsFiniteSet(Boots) /\ IsFiniteSet(Agents)
ASSUME RequestsAssumption == Requests \subseteq AllRequests
ASSUME LimitAssumption == MaxConcurrentVMs \in Nat /\ GuestServices \in BOOLEAN

NoVm == "novm"
NoBoot == "noboot"

ASSUME NamesAssumption == NoVm \notin Vms /\ NoBoot \notin Boots

\* RESTORING and INSTALLING_CFW are never written.
Status == {"CREATING", "STOPPED", "BOOTING", "RUNNING", "STOPPING", "DELETING", "ERROR"}

(***************************************************************************)
(* A boot: the goroutine of Boot (pc), the two supervisors it leaves       *)
(* behind, and postBootServices.                                           *)
(*   pc: count, mark (the guards of Boot), launch, poll, register,         *)
(*     failed or report (realBoot and what follows it)                     *)
(*   watch: on; gone (no process found), dropped (runtime deleted), mark   *)
(*   sup: on; dead (not in the launchpad list), mark                       *)
(*   post: wait; forward (guest reachable), listen (runtime read)          *)
(***************************************************************************)
Boot ==
    [vm    : Vms \cup {NoVm},
     pc    : {"idle", "count", "mark", "launch", "poll", "register", "failed", "report"},
     watch : {"off", "on", "gone", "dropped", "mark"},
     sup   : {"off", "on", "dead", "mark"},
     post  : {"off", "wait", "forward", "listen"}]

Unused == [vm |-> NoVm, pc |-> "idle", watch |-> "off", sup |-> "off", post |-> "off"]

(***************************************************************************)
(* An agent: a handler in Stop or Reprovision, a deletion with its job, or *)
(* a provisioning pipeline with its job.                                   *)
(*   stop:  stopget (only within a deletion), stoprt, stopmark, stopkill,  *)
(*     stopfwd, stopdrop, stopfinal                                        *)
(*   delete:  deletemark, queued, [stop], lpdelete, deleterow              *)
(*   provision:  reprovmark, reprovlaunch, pipeline                        *)
(***************************************************************************)
AgentPc == {"idle",
            "stopget", "stoprt", "stopmark", "stopkill", "stopfwd", "stopdrop", "stopfinal",
            "deletemark", "queued", "lpdelete", "deleterow",
            "reprovmark", "reprovlaunch", "pipeline"}

Agent == [pc : AgentPc, op : {"none", "stop", "delete", "provision"},
          vm : Vms \cup {NoVm}, rt : Boots \cup {NoBoot}, wasUp : BOOLEAN]

IdleAgent == [pc |-> "idle", op |-> "none", vm |-> NoVm, rt |-> NoBoot, wasUp |-> FALSE]

VARIABLES
    status,     \* the status column; "new" before Create and "gone" after deletion
    alive,      \* VMs with a vphone-vm process
    launching,  \* VMs for which a vphone-cli launcher has been started and not ended
    runtimes,   \* m.runtimes: the boot whose runtime object is registered
    boot,       \* the boots, see above
    agent,      \* the agents, see above
    forwards,   \* VMs with a listener in m.tcpFwd
    serving     \* the HTTP server accepts requests: no Shutdown yet

vars == <<status, alive, launching, runtimes, boot, agent, forwards, serving>>

host == <<alive, launching>>

Listed == {v \in Vms : status[v] \notin {"new", "gone"}}

Init ==
    /\ status = [v \in Vms |-> "new"]
    /\ alive = {} /\ launching = {}
    /\ runtimes = [v \in Vms |-> NoBoot]
    /\ boot = [b \in Boots |-> Unused]
    /\ agent = [a \in Agents |-> IdleAgent]
    /\ forwards = {}
    /\ serving = TRUE

-----------------------------------------------------------------------------
\* updateStatus: a row that is gone is not brought back (ErrNotFound).
Write(v, s) == status' = IF v \in Listed THEN [status EXCEPT ![v] = s] ELSE status

\* A boot that has no goroutine left may be used again for another one.
Clean(r) ==
    IF r.pc = "idle" /\ r.watch = "off" /\ r.sup = "off" /\ r.post = "off" THEN Unused ELSE r

BootBecomes(b, r) == boot' = [boot EXCEPT ![b] = Clean(r)]
BootGoes(b, to) == BootBecomes(b, [boot[b] EXCEPT !.pc = to])
WatchGoes(b, to) == BootBecomes(b, [boot[b] EXCEPT !.watch = to])
SupGoes(b, to) == BootBecomes(b, [boot[b] EXCEPT !.sup = to])
PostGoes(b, to) == BootBecomes(b, [boot[b] EXCEPT !.post = to])

Free(b) ==
    /\ boot[b] = Unused
    /\ \A v \in Vms : runtimes[v] # b
    /\ \A a \in Agents : agent[a].rt # b

AgentBecomes(a, r) == agent' = [agent EXCEPT ![a] = r]
AgentGoes(a, to) == AgentBecomes(a, [agent[a] EXCEPT !.pc = to])
AgentEnds(a) == AgentBecomes(a, IdleAgent)

\* A free agent takes up a request.
AgentBegins(a, op, to, v) ==
    /\ agent[a] = IdleAgent
    /\ AgentBecomes(a, [pc |-> to, op |-> op, vm |-> v, rt |-> NoBoot,
                        wasUp |-> status[v] \in {"RUNNING", "BOOTING"}])

\* RunningCount counts these rows, whatever its comment says of STOPPING.
Counted == {v \in Vms : status[v] \in {"BOOTING", "RUNNING", "STOPPING"}}

-----------------------------------------------------------------------------
(* Boot and its goroutine                                                  *)

BootGet(b, v) ==
    /\ serving /\ "boot" \in Requests
    /\ Free(b)
    /\ status[v] \in {"STOPPED", "ERROR"}
    /\ boot' = [boot EXCEPT ![b] = [Unused EXCEPT !.vm = v, !.pc = "count"]]
    /\ UNCHANGED <<status, host, runtimes, agent, forwards, serving>>

BootCount(b) ==
    /\ boot[b].pc = "count"
    /\ BootGoes(b, IF Cardinality(Counted) >= MaxConcurrentVMs THEN "idle" ELSE "mark")
    /\ UNCHANGED <<status, host, runtimes, agent, forwards, serving>>

\* The row may have been deleted meanwhile: Boot returns the error.
BootMark(b) ==
    /\ boot[b].pc = "mark"
    /\ Write(boot[b].vm, "BOOTING")
    /\ BootGoes(b, IF boot[b].vm \in Listed THEN "launch" ELSE "idle")
    /\ UNCHANGED <<host, runtimes, agent, forwards, serving>>

\* VMLaunch: `launchpad status`, which may take for ever, names the bundle, whose launcher
\* is started; without them it fails.
BootLaunch(b) ==
    /\ boot[b].pc = "launch"
    /\ \/ /\ launching' = launching \cup {boot[b].vm}
          /\ BootGoes(b, "poll")
       \/ /\ BootGoes(b, "failed")
          /\ UNCHANGED launching
    /\ UNCHANGED <<status, alive, runtimes, agent, forwards, serving>>

\* pollAPIPortByName finds the process of that name, whoever launched it, or
\* gives up after two minutes: the launcher is left to itself then.
BootPoll(b) ==
    /\ boot[b].pc = "poll"
    /\ \/ boot[b].vm \in alive /\ BootGoes(b, "register")
       \/ BootGoes(b, "failed")
    /\ UNCHANGED <<status, host, runtimes, agent, forwards, serving>>

BootRegister(b) ==
    /\ boot[b].pc = "register"
    /\ runtimes' = [runtimes EXCEPT ![boot[b].vm] = b]
    /\ BootBecomes(b, [boot[b] EXCEPT !.pc = "report", !.watch = "on", !.sup = "on"])
    /\ UNCHANGED <<status, host, agent, forwards, serving>>

\* Without TrollVNC postBootServices returns before it has changed anything.
Awaiting == IF GuestServices THEN "wait" ELSE "off"

\* Mutant: the status of a job.
BootFailsAsJob(b) ==
    /\ boot[b].pc = "failed"
    /\ Write(boot[b].vm, "FAILED")
    /\ BootGoes(b, "idle")
    /\ UNCHANGED <<host, runtimes, agent, forwards, serving>>

\* Mutant: the error is logged and no more.
BootFailsSilently(b) ==
    /\ boot[b].pc = "failed"
    /\ BootGoes(b, "idle")
    /\ UNCHANGED <<status, host, runtimes, agent, forwards, serving>>

\* Neither write looks at what the status has become since BootMark.
BootFails(b) ==
    /\ boot[b].pc = "failed"
    /\ Write(boot[b].vm, "ERROR")
    /\ BootGoes(b, "idle")
    /\ UNCHANGED <<host, runtimes, agent, forwards, serving>>

BootReports(b) ==
    /\ boot[b].pc = "report"
    /\ Write(boot[b].vm, "RUNNING")
    /\ BootBecomes(b, [boot[b] EXCEPT !.pc = "idle",
                            !.post = IF boot[b].vm \in Listed THEN Awaiting ELSE "off"])
    /\ UNCHANGED <<host, runtimes, agent, forwards, serving>>

-----------------------------------------------------------------------------
(* The watcher: every five seconds, is there a process of this name?  The  *)
(* tickers' first ticks come 5 and 10 seconds after the registration, when *)
(* the statement that follows it, the report, is taken to be done.         *)

Ticking(b) == boot[b].pc # "report"

WatchTick(b) ==
    /\ boot[b].watch = "on" /\ Ticking(b)
    /\ boot[b].vm \notin alive
    /\ WatchGoes(b, "gone")
    /\ UNCHANGED <<status, host, runtimes, agent, forwards, serving>>

WatchDrop(b) ==
    /\ boot[b].watch = "gone"
    /\ runtimes' = [runtimes EXCEPT ![boot[b].vm] = NoBoot]
    /\ WatchGoes(b, "dropped")
    /\ UNCHANGED <<status, host, agent, forwards, serving>>

WatchRead(b) ==
    /\ boot[b].watch = "dropped"
    /\ WatchGoes(b, IF status[boot[b].vm] \in {"RUNNING", "BOOTING"} THEN "mark" ELSE "off")
    /\ UNCHANGED <<status, host, runtimes, agent, forwards, serving>>

WatchMark(b) ==
    /\ boot[b].watch = "mark"
    /\ Write(boot[b].vm, "ERROR")
    /\ WatchGoes(b, "off")
    /\ UNCHANGED <<host, runtimes, agent, forwards, serving>>

-----------------------------------------------------------------------------
(* superviseEvents and checkLaunchpadAlive: every ten seconds, when the    *)
(* guest does not answer, is the VM running in launchpad's list?  Stop     *)
(* ends it by its context, unless the list has been read already.          *)

SupCheck(b) ==
    /\ boot[b].sup = "on" /\ Ticking(b)
    /\ boot[b].vm \in Listed \ alive
    /\ SupGoes(b, "dead")
    /\ UNCHANGED <<status, host, runtimes, agent, forwards, serving>>

SupDrop(b) ==
    /\ boot[b].sup = "dead"
    /\ runtimes' = [runtimes EXCEPT ![boot[b].vm] = NoBoot]
    /\ SupGoes(b, "mark")
    /\ UNCHANGED <<status, host, agent, forwards, serving>>

SupMark(b) ==
    /\ boot[b].sup = "mark"
    /\ Write(boot[b].vm, "ERROR")
    /\ SupGoes(b, "off")
    /\ UNCHANGED <<host, runtimes, agent, forwards, serving>>

-----------------------------------------------------------------------------
(* postBootServices and startTCPForwards                                   *)

\* The VM is not RUNNING any more or a minute has passed: the goroutine returns.
PostQuit(b) ==
    /\ boot[b].post = "wait"
    /\ PostGoes(b, "off")
    /\ UNCHANGED <<status, host, runtimes, agent, forwards, serving>>

PostReady(b) ==
    /\ boot[b].post = "wait"
    /\ status[boot[b].vm] = "RUNNING" /\ boot[b].vm \in alive
    /\ PostGoes(b, "forward")
    /\ UNCHANGED <<status, host, runtimes, agent, forwards, serving>>

PostForward(b) ==
    /\ boot[b].post = "forward"
    /\ PostGoes(b, IF runtimes[boot[b].vm] = NoBoot THEN "off" ELSE "listen")
    /\ UNCHANGED <<status, host, runtimes, agent, forwards, serving>>

PostListen(b) ==
    /\ boot[b].post = "listen"
    /\ forwards' = forwards \cup {boot[b].vm}
    /\ PostGoes(b, "off")
    /\ UNCHANGED <<status, host, runtimes, agent, serving>>

-----------------------------------------------------------------------------
(* Stop, called by a handler or by the job of a deletion                   *)

StopBegin(a, v) ==
    /\ serving /\ "stop" \in Requests
    /\ status[v] \in {"RUNNING", "BOOTING"}
    /\ AgentBegins(a, "stop", "stoprt", v)
    /\ UNCHANGED <<status, host, runtimes, boot, forwards, serving>>

\* A deletion goes on when Stop refuses or has done its work.
StopGet(a) ==
    /\ agent[a].pc = "stopget"
    /\ AgentGoes(a, IF status[agent[a].vm] \in {"RUNNING", "BOOTING"} THEN "stoprt" ELSE "lpdelete")
    /\ UNCHANGED <<status, host, runtimes, boot, forwards, serving>>

StopRuntime(a) ==
    /\ agent[a].pc = "stoprt"
    /\ AgentBecomes(a, [agent[a] EXCEPT !.pc = "stopmark", !.rt = runtimes[agent[a].vm]])
    /\ UNCHANGED <<status, host, runtimes, boot, forwards, serving>>

StopReturns(a) ==
    IF agent[a].op = "delete"
    THEN AgentBecomes(a, [agent[a] EXCEPT !.pc = "lpdelete", !.rt = NoBoot])
    ELSE AgentEnds(a)

StopMark(a) ==
    /\ agent[a].pc = "stopmark"
    /\ Write(agent[a].vm, "STOPPING")
    /\ IF agent[a].vm \in Listed THEN AgentGoes(a, "stopkill") ELSE StopReturns(a)
    /\ UNCHANGED <<host, runtimes, boot, forwards, serving>>

\* Mutant: Stop ends the watcher as well.
UnsupervisedAndUnwatched(b) == Clean([boot[b] EXCEPT !.sup = "off", !.watch = "off"])

\* The runtime is told to stop, its supervisor ends at its next select, and
\* launchpad or a signal kills the process, if there is one.
Unsupervised(b) == IF boot[b].sup = "on" THEN Clean([boot[b] EXCEPT !.sup = "off"]) ELSE boot[b]

StopKill(a) ==
    /\ agent[a].pc = "stopkill"
    /\ boot' = [b \in Boots |-> IF b = agent[a].rt THEN Unsupervised(b) ELSE boot[b]]
    /\ alive' = alive \ {agent[a].vm}
    /\ AgentGoes(a, "stopfwd")
    /\ UNCHANGED <<status, launching, runtimes, forwards, serving>>

StopForwards(a) ==
    /\ agent[a].pc = "stopfwd"
    /\ forwards' = forwards \ {agent[a].vm}
    /\ AgentGoes(a, "stopdrop")
    /\ UNCHANGED <<status, host, runtimes, boot, serving>>

StopDrop(a) ==
    /\ agent[a].pc = "stopdrop"
    /\ runtimes' = [runtimes EXCEPT ![agent[a].vm] = NoBoot]
    /\ AgentGoes(a, "stopfinal")
    /\ UNCHANGED <<status, host, boot, forwards, serving>>

StopFinal(a) ==
    /\ agent[a].pc = "stopfinal"
    /\ Write(agent[a].vm, "STOPPED")
    /\ StopReturns(a)
    /\ UNCHANGED <<host, runtimes, boot, forwards, serving>>

-----------------------------------------------------------------------------
(* DeleteJob and its job                                                   *)

\* The job keeps this first reading of the status.
DeleteBegin(a, v) ==
    /\ serving /\ "delete" \in Requests
    /\ v \in Listed /\ status[v] # "DELETING"
    /\ AgentBegins(a, "delete", "deletemark", v)
    /\ UNCHANGED <<status, host, runtimes, boot, forwards, serving>>

DeleteMark(a) ==
    /\ agent[a].pc = "deletemark"
    /\ Write(agent[a].vm, "DELETING")
    /\ IF agent[a].vm \in Listed THEN AgentGoes(a, "queued") ELSE AgentEnds(a)
    /\ UNCHANGED <<host, runtimes, boot, forwards, serving>>

\* A waiting job may be cancelled: its function never runs.
DeleteCancelled(a) ==
    /\ agent[a].pc = "queued"
    /\ AgentEnds(a)
    /\ UNCHANGED <<status, host, runtimes, boot, forwards, serving>>

DeleteStart(a) ==
    /\ agent[a].pc = "queued"
    /\ AgentGoes(a, IF agent[a].wasUp THEN "stopget" ELSE "lpdelete")
    /\ UNCHANGED <<status, host, runtimes, boot, forwards, serving>>

\* `vm delete --force`: it may take the process with it or fail.
LaunchpadDelete(v) == alive' \in {alive, alive \ {v}}

DeleteLibrary(a) ==
    /\ agent[a].pc = "lpdelete"
    /\ LaunchpadDelete(agent[a].vm)
    /\ AgentGoes(a, "deleterow")
    /\ UNCHANGED <<status, launching, runtimes, boot, forwards, serving>>

DeleteRow(a) ==
    /\ agent[a].pc = "deleterow"
    /\ Write(agent[a].vm, "gone")
    /\ AgentEnds(a)
    /\ UNCHANGED <<host, runtimes, boot, forwards, serving>>

-----------------------------------------------------------------------------
(* Create, Reprovision and the provisioning pipeline                       *)

CreateVm(a, v) ==
    /\ serving
    /\ status[v] = "new"
    /\ status' = [status EXCEPT ![v] = "CREATING"]
    /\ AgentBegins(a, "provision", "pipeline", v)
    /\ UNCHANGED <<host, runtimes, boot, forwards, serving>>

ReprovisionBegin(a, v) ==
    /\ serving /\ "reprovision" \in Requests
    /\ status[v] \in {"STOPPED", "ERROR"}
    /\ AgentBegins(a, "provision", "reprovmark", v)
    /\ UNCHANGED <<status, host, runtimes, boot, forwards, serving>>

ReprovisionMark(a) ==
    /\ agent[a].pc = "reprovmark"
    /\ Write(agent[a].vm, "CREATING")
    /\ IF agent[a].vm \in Listed THEN AgentGoes(a, "reprovlaunch") ELSE AgentEnds(a)
    /\ UNCHANGED <<host, runtimes, boot, forwards, serving>>

\* With an unknown cloudOS image it returns here and leaves CREATING behind.
ReprovisionLaunch(a) ==
    /\ agent[a].pc = "reprovlaunch"
    /\ \/ AgentEnds(a) /\ UNCHANGED alive
       \/ AgentGoes(a, "pipeline") /\ LaunchpadDelete(agent[a].vm)
    /\ UNCHANGED <<status, launching, runtimes, boot, forwards, serving>>

\* The pipeline stops what it has booted; its outcome is written unconditionally.
PipelineEnds(a) ==
    /\ agent[a].pc = "pipeline"
    /\ \E outcome \in {"STOPPED", "ERROR"} : Write(agent[a].vm, outcome)
    /\ LaunchpadDelete(agent[a].vm)
    /\ AgentEnds(a)
    /\ UNCHANGED <<launching, runtimes, boot, forwards, serving>>

-----------------------------------------------------------------------------
(* The host                                                                *)

\* A launcher ends, with or without a vphone-vm process in its place.
LauncherEnds(v) ==
    /\ v \in launching
    /\ launching' = launching \ {v}
    /\ alive' \in {alive, alive \cup {v}}
    /\ UNCHANGED <<status, runtimes, boot, agent, forwards, serving>>

ProcessDies(v) ==
    /\ v \in alive
    /\ alive' = alive \ {v}
    /\ UNCHANGED <<status, launching, runtimes, boot, agent, forwards, serving>>

-----------------------------------------------------------------------------
(* Shutdown, and the start of the next process                             *)

\* The end of run(): no more requests, then Shutdown signals the VMs that have
\* a runtime (they may outlive it for a while) and closes the forwards.
Shutdown ==
    /\ serving
    /\ serving' = FALSE
    /\ LET known == {v \in Vms : runtimes[v] # NoBoot} IN
        /\ boot' = [b \in Boots |-> IF \E v \in known : runtimes[v] = b
                                    THEN Unsupervised(b) ELSE boot[b]]
        /\ alive' \in {alive, alive \ known}
    /\ forwards' = {}
    /\ UNCHANGED <<status, launching, runtimes, agent>>

\* Mutant: a stop that was under way is overlooked.
StaleButStopping == {v \in Vms : status[v] \in {"BOOTING", "RUNNING"}}

\* reconcile: rows left in these states are taken up again when launchpad shows
\* the VM running and its API answers, and become STOPPED otherwise.
Stale == {v \in Vms : status[v] \in {"BOOTING", "RUNNING", "STOPPING"}}

Reconciled(v, found) ==
    CASE v \in found                    -> "RUNNING"
      [] v \in Stale \ found            -> "STOPPED"
      [] status[v] = "CREATING"         -> "ERROR"
      [] OTHER                          -> status[v]

\* Mutant: superviseEvents is not started.
ReconnectedAlone(v) == [Unused EXCEPT !.vm = v, !.post = Awaiting]

Reconnected(v) == [Unused EXCEPT !.vm = v, !.sup = "on", !.post = Awaiting]

\* The process ends anywhere, with all its goroutines; VM processes and
\* launchers outlive it.  Reconnected VMs get a runtime and one supervisor.
Restart ==
    /\ \E found \in SUBSET (Stale \cap alive), r \in [Vms -> Boots \cup {NoBoot}] :
        /\ \A v \in Vms : v \in found <=> r[v] # NoBoot
        /\ \A v, w \in found : v # w => r[v] # r[w]
        /\ runtimes' = r
        /\ status' = [v \in Vms |-> Reconciled(v, found)]
        /\ boot' = [b \in Boots |-> IF \E v \in found : r[v] = b
                                    THEN Reconnected(CHOOSE v \in found : r[v] = b)
                                    ELSE Unused]
    /\ agent' = [a \in Agents |-> IdleAgent]
    /\ forwards' = {}
    /\ serving' = TRUE
    /\ UNCHANGED host

-----------------------------------------------------------------------------
BootStep(b) ==
    \/ BootCount(b) \/ BootMark(b) \/ BootLaunch(b) \/ BootPoll(b)
    \/ BootRegister(b) \/ BootFails(b) \/ BootReports(b)

Watch(b) == WatchTick(b) \/ WatchDrop(b) \/ WatchRead(b) \/ WatchMark(b)
Supervise(b) == SupCheck(b) \/ SupDrop(b) \/ SupMark(b)
Post(b) == PostQuit(b) \/ PostReady(b) \/ PostForward(b) \/ PostListen(b)

StopStep(a) == \/ StopGet(a) \/ StopRuntime(a) \/ StopMark(a)
               \/ StopKill(a) \/ StopForwards(a) \/ StopDrop(a) \/ StopFinal(a)

DeleteStep(a) == DeleteMark(a) \/ DeleteStart(a) \/ DeleteLibrary(a) \/ DeleteRow(a)

ProvisionStep(a) == ReprovisionMark(a) \/ ReprovisionLaunch(a) \/ PipelineEnds(a)

Next ==
    \/ \E b \in Boots : BootStep(b) \/ Watch(b) \/ Supervise(b) \/ Post(b)
    \/ \E b \in Boots, v \in Vms : BootGet(b, v)
    \/ \E a \in Agents : StopStep(a) \/ DeleteStep(a) \/ DeleteCancelled(a) \/ ProvisionStep(a)
    \/ \E a \in Agents, v \in Vms :
        StopBegin(a, v) \/ DeleteBegin(a, v) \/ CreateVm(a, v) \/ ReprovisionBegin(a, v)
    \/ \E v \in Vms : LauncherEnds(v) \/ ProcessDies(v)
    \/ Shutdown
    \/ Restart

Spec == Init /\ [][Next]_vars

(***************************************************************************)
(* Goroutines keep running and tickers tick; the poll, `vm stop` and       *)
(* `vm list` have deadlines, and pgrep and lsof are taken to return.  A    *)
(* launch is not fair: it begins with `launchpad status`, which has no     *)
(* deadline.  Nothing is promised of requests, pipelines, processes and    *)
(* restarts.                                                               *)
(***************************************************************************)
Fairness ==
    /\ \A b \in Boots : /\ WF_vars(boot[b].pc # "launch" /\ BootStep(b))
                         /\ WF_vars(Watch(b)) /\ WF_vars(Supervise(b))
    /\ \A a \in Agents : WF_vars(StopStep(a))

FairSpec == Spec /\ Fairness

-----------------------------------------------------------------------------
(* Properties                                                              *)

\* Types; and whoever works for a VM, or watches one, knows which.
TypeOK ==
    /\ status \in [Vms -> Status \cup {"new", "gone"}]
    /\ alive \subseteq Vms /\ launching \subseteq Vms /\ forwards \subseteq Vms
    /\ runtimes \in [Vms -> Boots \cup {NoBoot}]
    /\ boot \in [Boots -> Boot]
    /\ \A b \in Boots : boot[b] # Unused => boot[b].vm \in Vms
    /\ agent \in [Agents -> Agent]
    /\ \A a \in Agents : agent[a].pc # "idle" => agent[a].vm \in Vms
    /\ serving \in BOOLEAN

\* Boots that have marked their VM BOOTING and have yet to write the outcome.
Booting(v) == {b \in Boots : boot[b].vm = v /\
                    boot[b].pc \in {"launch", "poll", "register", "failed", "report"}}

\* Calls of Stop that have marked the VM STOPPING and have yet to write STOPPED.
Stopping(v) == {a \in Agents : agent[a].vm = v /\
                    agent[a].pc \in {"stopkill", "stopfwd", "stopdrop", "stopfinal"}}

\* No VM is left in BOOTING or STOPPING by itself: whatever the other writers
\* of the status do, and after restarts, the goroutine that will end the
\* transient state is still at work.
TransientsOwned ==
    \A v \in Vms : /\ status[v] = "BOOTING" => Booting(v) # {}
                   /\ status[v] = "STOPPING" => Stopping(v) # {}

\* "The resulting process is supervised" (realBoot): while the server serves, a
\* VM shown RUNNING has a supervisor at work that will find out when its process
\* dies, although Stop, crashes, false alarms and restarts all end supervisors.
RunningIsWatched ==
    serving => \A v \in Vms : status[v] = "RUNNING" =>
        \E b \in Boots : boot[b].vm = v /\ (boot[b].watch # "off" \/ boot[b].sup # "off")

\* A boot or a stop comes to an end whatever happens to the VM meanwhile: no VM shows
\* STOPPING for ever, and none BOOTING unless the command that a boot of it begins with
\* never returns.
TransientsResolve ==
    \A v \in Vms :
        /\ (\A b \in Boots : []<>~(boot[b].vm = v /\ boot[b].pc = "launch")) =>
               ((status[v] = "BOOTING") ~> (status[v] # "BOOTING"))
        /\ (status[v] = "STOPPING") ~> (status[v] # "STOPPING")

\* realBoot: "when it exits the VM is marked ERROR".  A RUNNING VM without a
\* process does not stay so, until Shutdown sends the supervisors home.
CrashNoticed ==
    \A v \in Vms : (status[v] = "RUNNING" /\ v \notin alive) ~>
                        (status[v] # "RUNNING" \/ v \in alive \/ ~serving)

-----------------------------------------------------------------------------
(* What documents and comments say of the lifecycle, and the code does not *)

\* docs/04-managing-vms.md: "Destroy stops the VM if running": when a deletion
\* that began with a running VM removes the row, the process has been stopped.
DestroyStops ==
    \A a \in Agents : agent[a].pc = "deleterow" /\ agent[a].wasUp => agent[a].vm \notin alive

=============================================================================
