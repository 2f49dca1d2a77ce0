----------------------------- MODULE PortBlocks -----------------------------
(***************************************************************************)
(* The host ports of virtual machines: the PortAllocator of                *)
(* src/internal/vm/ports.go, the operations of the VM manager that take    *)
(* and give back blocks (Create, Import, Delete, DeleteJob) and the        *)
(* start-up that rebuilds the allocator from the vms table (reconcile).    *)
(*                                                                         *)
(* Allocator calls run under its mutex and each SQL statement is atomic,   *)
(* but no operation holds anything across the two, and any number of       *)
(* deletions of one VM may be under way: DeleteJob reads the status and    *)
(* then writes DELETING, and other goroutines overwrite that status.       *)
(***************************************************************************)
EXTENDS Naturals, FiniteSets, FiniteSetsExt

CONSTANTS
    Vms,        \* the ids Create and Import may draw: each is used at most once
    Deleters,   \* deletions under way: HTTP handlers and vm_delete jobs
    Configs,    \* the [ports] sections the server may be started with
    TopPort     \* the last port of the host: 65535 in the code

\* block_size is at least 4 (Config.validate).
ASSUME ConfigsAssumption ==
    Configs \subseteq [base : Nat \ {0}, size : Nat \ 0..3]
ASSUME TopPortAssumption == TopPort \in Nat

offsetVNC == 0
offsetFrida == 4
Offsets == offsetVNC..offsetFrida

VARIABLES
    config,     \* the configuration of this process
    used,       \* PortAllocator.used
    stage,      \* what has become of a VM id
    block,      \* its port_block_base, from Allocate on
    under,      \* history: the configuration that its block was taken from
    deletion    \* where each deletion stands, and of which VM

vars == <<config, used, stage, block, under, deletion>>

NoVm == "novm"
Idle == [pc |-> "idle", vm |-> NoVm]

\* A block belongs to a VM from Allocate to the deletion of its row.
Held == {v \in Vms : stage[v] \in {"allocated", "listed"}}

Releasing == {d \in Deleters : deletion[d].pc = "release"}

\* blockFor, which scanVM applies to every row.  (Its column frida_port would replace the
\* last port, but nothing writes another value than 0 into it.)
PortsOf(v) == [k \in Offsets |-> block[v] + k]

Init ==
    /\ config \in Configs
    /\ used = {}
    /\ stage = [v \in Vms |-> "new"]
    /\ block = [v \in Vms |-> 0] /\ under = [v \in Vms |-> config]
    /\ deletion = [d \in Deleters |-> Idle]

-----------------------------------------------------------------------------
(* PortAllocator.Allocate scans base, base + size, ... for a free block    *)
(* that ends within the port space.                                        *)

Block(k) == config.base + k * config.size

Free == {k \in 0..TopPort : Block(k) + config.size - 1 <= TopPort /\ Block(k) \notin used}

-----------------------------------------------------------------------------
(* Create, Import and ImportBundle                                         *)

\* With no block left the caller gets an error and nothing changes.
Allocate(v) ==
    /\ stage[v] = "new"
    /\ Free # {}
    /\ LET base == Block(Min(Free)) IN
        /\ used' = used \cup {base}
        /\ block' = [block EXCEPT ![v] = base]
    /\ under' = [under EXCEPT ![v] = config]
    /\ stage' = [stage EXCEPT ![v] = "allocated"]
    /\ UNCHANGED <<config, deletion>>

Insert(v) ==
    /\ stage[v] = "allocated"
    /\ stage' = [stage EXCEPT ![v] = "listed"]
    /\ UNCHANGED <<config, used, block, under, deletion>>

\* Mutant: the error path keeps the block.
InsertFailsKeepingBlock(v) ==
    /\ stage[v] = "allocated"
    /\ stage' = [stage EXCEPT ![v] = "gone"]
    /\ UNCHANGED <<config, used, block, under, deletion>>

\* The directory cannot be made, or the INSERT fails (names are UNIQUE).
InsertFails(v) ==
    /\ stage[v] = "allocated"
    /\ stage' = [stage EXCEPT ![v] = "gone"]
    /\ used' = used \ {block[v]}
    /\ UNCHANGED <<config, block, under, deletion>>

-----------------------------------------------------------------------------
(* Delete and the job of DeleteJob                                         *)

\* Mutant: the job does not keep the VM it was given.
DeleteBeginForgetting(d, v) ==
    /\ deletion[d].pc = "idle"
    /\ stage[v] = "listed"
    /\ deletion' = [deletion EXCEPT ![d] = [pc |-> "remove", vm |-> NoVm]]
    /\ UNCHANGED <<config, used, stage, block, under>>

\* Both begin with the row and keep the snapshot they have read.
DeleteBegin(d, v) ==
    /\ deletion[d].pc = "idle"
    /\ stage[v] = "listed"
    /\ deletion' = [deletion EXCEPT ![d] = [pc |-> "remove", vm |-> v]]
    /\ UNCHANGED <<config, used, stage, block, under>>

\* Mutant: the error of the DELETE is ignored.
DeleteRowRegardless(d) ==
    /\ deletion[d].pc = "remove"
    /\ stage' = [stage EXCEPT ![deletion[d].vm] = "gone"]
    /\ deletion' = [deletion EXCEPT ![d].pc = "release"]
    /\ UNCHANGED <<config, used, block, under>>

\* store.delete reports ErrNotFound when another deletion was first: the
\* operation ends there and gives nothing back.
DeleteRow(d) ==
    /\ deletion[d].pc = "remove"
    /\ LET v == deletion[d].vm IN
        IF stage[v] = "listed"
        THEN /\ stage' = [stage EXCEPT ![v] = "gone"]
             /\ deletion' = [deletion EXCEPT ![d].pc = "release"]
        ELSE /\ deletion' = [deletion EXCEPT ![d] = Idle]
             /\ UNCHANGED stage
    /\ UNCHANGED <<config, used, block, under>>

Release(d) ==
    /\ deletion[d].pc = "release"
    /\ used' = used \ {block[deletion[d].vm]}
    /\ deletion' = [deletion EXCEPT ![d] = Idle]
    /\ UNCHANGED <<config, stage, block, under>>

-----------------------------------------------------------------------------
\* Mutant: start-up reserves nothing.
RestartUnreserved ==
    /\ config' \in Configs
    /\ used' = {}
    /\ stage' = [v \in Vms |-> IF stage[v] = "allocated" THEN "gone" ELSE stage[v]]
    /\ deletion' = [d \in Deleters |-> Idle]
    /\ UNCHANGED <<block, under>>

\* The process ends anywhere and starts again, perhaps with another [ports]
\* section: reconcile reserves the block of every row, and of nothing else.
Restart ==
    /\ config' \in Configs
    /\ used' = {block[v] : v \in {w \in Vms : stage[w] = "listed"}}
    /\ stage' = [v \in Vms |-> IF stage[v] = "allocated" THEN "gone" ELSE stage[v]]
    /\ deletion' = [d \in Deleters |-> Idle]
    /\ UNCHANGED <<block, under>>

Next ==
    \/ \E v \in Vms : Allocate(v) \/ Insert(v) \/ InsertFails(v)
    \/ \E d \in Deleters : DeleteRow(d) \/ Release(d) \/ \E v \in Vms : DeleteBegin(d, v)
    \/ Restart

Spec == Init /\ [][Next]_vars

-----------------------------------------------------------------------------
(* Properties                                                              *)

\* The variables stay in their types, and a VM that holds a block has a real one.
TypeOK ==
    /\ config \in Configs
    /\ used \subseteq Nat
    /\ stage \in [Vms -> {"new", "allocated", "listed", "gone"}]
    /\ block \in [Vms -> Nat] /\ under \in [Vms -> Configs]
    /\ deletion \in [Deleters -> {Idle} \cup [pc : {"remove", "release"}, vm : Vms]]

\* No block is issued twice: VMs that hold blocks hold different ones and the
\* allocator knows them all, although rows and allocator change separately, two
\* deletions of a VM may race, and a restart rebuilds the allocator.
BlocksAreExclusive ==
    /\ \A v \in Held : block[v] \in used
    /\ \A v, w \in Held : v # w => block[v] # block[w]

\* No block is lost: what the allocator keeps from others belongs to a VM or is
\* about to be given back by one deletion, also after failed creations.
NoBlockLeaks ==
    used = {block[v] : v \in Held} \cup {block[deletion[d].vm] : d \in Releasing}

\* "Hands out non-overlapping blocks" (ports.go, PortAllocator): VMs whose blocks were
\* taken from one [ports] section share no host port, though sections change with restarts
\* and blocks change hands.  At the smallest block_size, 4, they may share one: the VNC
\* port of a VM is then the Frida port of the one before it.
NoSharedPorts ==
    \A v, w \in Held : v # w /\ under[v] = under[w] =>
        \A i, j \in Offsets : PortsOf(v)[i] = PortsOf(w)[j] =>
            under[v].size = 4 /\ {i, j} = {offsetVNC, offsetFrida}
=============================================================================
