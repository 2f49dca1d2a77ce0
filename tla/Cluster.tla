------------------------------- MODULE Cluster -------------------------------
(***************************************************************************)
(* The controller of a cluster: src/internal/cluster (registry, health     *)
(* sweeps, VM and job caches) and the routing of requests for remote VMs   *)
(* and jobs in src/internal/api/proxy.go.                                  *)
(*                                                                         *)
(* A node is a row of the table `nodes`, written once by Register; only    *)
(* its health columns change afterwards.  A sweep works on the list it     *)
(* has read, one goroutine per node; Register, Delete and the requests run *)
(* beside it.  One step is one SQL statement, one hold of vmMu or jobMu or *)
(* one HTTP exchange with an agent.                                        *)
(*                                                                         *)
(* What is at an address may change: an agent goes down (or answers        *)
(* anything but 200, which counts the same), comes back, or is replaced by *)
(* another machine with another certificate.                               *)
(*                                                                         *)
(* An agent is the same program with a registry of its own: what it        *)
(* answers of VMs and jobs is its own and whatever its nodes, their nodes  *)
(* and so on have told it.                                                 *)
(***************************************************************************)
EXTENDS Naturals, FiniteSets

CONSTANTS
    Ids,            \* ids that Register may draw: each is used at most once
    TlsIds,         \* those of nodes registered with tls
    Addrs,          \* host:port of agents
    Machines,       \* agents; each has its own TLS certificate
    Vms, Jobs,      \* ids of VMs and jobs that agents may draw
    home,           \* the machine that draws an id: no id moves to another one
    Below,          \* those that the nodes of a machine ever lead to, through theirs too
    Reqs            \* bound: requests under way at one time

Nobody == "nobody"
NoId == "noid"
NoItem == "noitem"

Items == Vms \cup Jobs

ASSUME NamesAssumption ==
    Nobody \notin Machines /\ NoId \notin Ids /\ NoItem \notin Items /\ Vms \cap Jobs = {}
ASSUME HomeAssumption == home \in [Items -> Machines]
ASSUME TlsAssumption == TlsIds \subseteq Ids
ASSUME BelowAssumption == Below \in [Machines -> SUBSET Machines]

\* Whose VMs and jobs the machine m may answer for.
Under(m) == {m} \cup Below[m]

(***************************************************************************)
(* A request for a VM or a job at the controller, whose role gate it has   *)
(* passed.  get: the row of the node found in a cache is read; ask: the    *)
(* job is looked for at the nodes of todo; dial: the reverse proxy is      *)
(* about to send it to the node id.                                        *)
(***************************************************************************)
Request == [pc : {"idle", "get", "ask", "dial"}, item : Items \cup {NoItem},
            id : Ids \cup {NoId}, todo : SUBSET Ids]
NoRequest == [pc |-> "idle", item |-> NoItem, id |-> NoId, todo |-> {}]

VARIABLES
    server,     \* who answers at an address: a machine or nobody
    made,       \* VMs and jobs that have been made
    exists,     \* those of them that their machine still has
    status,     \* the status column; new, asked (409, fingerprint shown), gone
    addr,       \* address of a node, or of the form that was sent
    shown,      \* the certificate that the operator was shown and may accept
    pin,        \* cert_fingerprint
    check,      \* what the sweep does with a node
    vmCache,    \* m.vmCache: no entry and an empty list are one
    jobNode,    \* m.jobNodeCache
    req,        \* the requests, see above
    running     \* Stop has not been called: the context of the sweeps is live

agents == <<server, made, exists>>
nodes == <<status, addr, shown, pin>>
caches == <<vmCache, jobNode>>
vars == <<agents, nodes, check, caches, req, running>>

Init ==
    /\ server = [a \in Addrs |-> Nobody]
    /\ made = {} /\ exists = {}
    /\ status = [i \in Ids |-> "new"]
    /\ addr \in [Ids -> Addrs]
    /\ shown = [i \in Ids |-> Nobody] /\ pin = [i \in Ids |-> Nobody]
    /\ check = [i \in Ids |-> "idle"]
    /\ vmCache = [i \in Ids |-> {}] /\ jobNode = [j \in Jobs |-> NoId]
    /\ req = [r \in Reqs |-> NoRequest]
    /\ running = TRUE

Listed == {i \in Ids : status[i] \in {"ONLINE", "OFFLINE"}}

-----------------------------------------------------------------------------
(* The agents                                                              *)

ServerChanges(a) ==
    /\ \E m \in Machines \cup {Nobody} : m # server[a] /\ server' = [server EXCEPT ![a] = m]
    /\ UNCHANGED <<made, exists, nodes, check, caches, req, running>>

\* A machine makes a VM or a job.
ItemMade(x) ==
    /\ x \notin made
    /\ made' = made \cup {x} /\ exists' = exists \cup {x}
    /\ UNCHANGED <<server, nodes, check, caches, req, running>>

VmDeleted(v) ==
    /\ v \in exists
    /\ exists' = exists \ {v}
    /\ UNCHANGED <<server, made, nodes, check, caches, req, running>>

\* An exchange over the control link.  The TLS connection is made only if the
\* certificate is the pinned one; a plain node is whoever answers.
Pinned(m, i) == i \in TlsIds => m = pin[i]

\* Mutant: Transport gives every node the default transport.
AnyReached(i) == server[addr[i]] # Nobody

Reached(i) == server[addr[i]] # Nobody /\ Pinned(server[addr[i]], i)

-----------------------------------------------------------------------------
(* Register and Delete                                                     *)

\* First call, without trust_fingerprint.  A TLS agent's certificate goes back
\* to the operator (409); a plain agent is stored at once.  A call that fails
\* leaves nothing.
Register(i) ==
    /\ status[i] = "new"
    /\ server[addr[i]] # Nobody
    /\ IF i \in TlsIds
       THEN /\ status' = [status EXCEPT ![i] = "asked"]
            /\ shown' = [shown EXCEPT ![i] = server[addr[i]]]
       ELSE /\ status' = [status EXCEPT ![i] = "ONLINE"]
            /\ UNCHANGED shown
    /\ UNCHANGED <<agents, addr, pin, check, caches, req, running>>

\* Mutant: the certificate presented now is pinned, not the one accepted.
RegisterPresented(i) ==
    /\ status[i] = "asked"
    /\ server[addr[i]] # Nobody
    /\ pin' = [pin EXCEPT ![i] = server[addr[i]]]
    /\ status' = [status EXCEPT ![i] = "ONLINE"]
    /\ UNCHANGED <<agents, addr, shown, check, caches, req, running>>

\* Second call, with the fingerprint that was shown: the agent must present it.
RegisterTrusted(i) ==
    /\ status[i] = "asked"
    /\ server[addr[i]] = shown[i]
    /\ pin' = [pin EXCEPT ![i] = shown[i]]
    /\ status' = [status EXCEPT ![i] = "ONLINE"]
    /\ UNCHANGED <<agents, addr, shown, check, caches, req, running>>

\* The row only: the caches keep what they have of the node.
Delete(i) ==
    /\ i \in Listed
    /\ status' = [status EXCEPT ![i] = "gone"]
    /\ UNCHANGED <<agents, addr, shown, pin, check, caches, req, running>>

-----------------------------------------------------------------------------
(* Health sweeps.  check: probe; offline (failed, row to be written),      *)
(* clear; online, fetch                                                    *)

\* The next sweep begins when every goroutine of the last one has ended.
Sweep ==
    /\ \A i \in Ids : check[i] = "idle"
    /\ Listed # {}
    /\ check' = [i \in Ids |-> IF i \in Listed THEN "probe" ELSE "idle"]
    /\ UNCHANGED <<agents, nodes, caches, req, running>>

CheckGoes(i, from, to) ==
    /\ check[i] = from
    /\ check' = [check EXCEPT ![i] = to]

\* Without its context the request fails.
Probe(i) ==
    /\ CheckGoes(i, "probe", IF running /\ Reached(i) THEN "online" ELSE "offline")
    /\ UNCHANGED <<agents, nodes, caches, req, running>>

\* UPDATE ... WHERE id: a deleted node is not brought back.
UpdateHealth(i, s) ==
    status' = IF i \in Listed THEN [status EXCEPT ![i] = s] ELSE status

\* Mutant: the row is left as it is when a probe fails.
SilentOffline(i) ==
    /\ CheckGoes(i, "offline", "clear")
    /\ UNCHANGED <<agents, nodes, caches, req, running>>

MarkOffline(i) ==
    /\ CheckGoes(i, "offline", "clear")
    /\ UpdateHealth(i, "OFFLINE")
    /\ UNCHANGED <<agents, addr, shown, pin, caches, req, running>>

ClearCache(i) ==
    /\ CheckGoes(i, "clear", "idle")
    /\ vmCache' = [vmCache EXCEPT ![i] = {}]
    /\ UNCHANGED <<agents, nodes, jobNode, req, running>>

MarkOnline(i) ==
    /\ CheckGoes(i, "online", "fetch")
    /\ UpdateHealth(i, "ONLINE")
    /\ UNCHANGED <<agents, addr, shown, pin, caches, req, running>>

\* Mutant: its jobs count as VMs.
AllOf(m) == {x \in exists : home[x] = m}

\* The VMs that the machine m itself has.
VmsOf(m) == {v \in Vms \cap exists : home[v] = m}

\* What m may answer to GET /api/v1/vms: its own VMs, and what its caches hold of its
\* nodes', which may be deleted by now.
ListsOf(m) ==
    {VmsOf(m) \cup S : S \in SUBSET {v \in Vms \cap made : home[v] \in Below[m]}}

\* fetchVMs: the list replaces the entry; whatever fails removes it.
FetchVMs(i) ==
    /\ CheckGoes(i, "fetch", "idle")
    /\ \E S \in IF running /\ Reached(i) THEN ListsOf(server[addr[i]]) ELSE {{}} :
         vmCache' = [vmCache EXCEPT ![i] = S]
    /\ UNCHANGED <<agents, nodes, jobNode, req, running>>

Check(i) ==
    \/ Probe(i) \/ MarkOffline(i) \/ ClearCache(i) \/ MarkOnline(i) \/ FetchVMs(i)

-----------------------------------------------------------------------------
(* Requests: routeRemoteVM with NodeForVM, routeRemoteJob with FindJobNode *)

ReqBecomes(r, q) ==
    /\ req' = [req EXCEPT ![r] = q]
    /\ UNCHANGED <<agents, nodes, check, running>>

ReqEnds(r) == ReqBecomes(r, NoRequest)

Owners(v) == {i \in Ids : v \in vmCache[i]}

\* A request for a VM.  A map is iterated in any order: the first entry that has the
\* VM.  Without one the request is the controller's own, and no more of it is seen here.
ArrivesVM(r, v) ==
    /\ req[r] = NoRequest
    /\ \E i \in Owners(v) : ReqBecomes(r, [NoRequest EXCEPT !.pc = "get", !.item = v, !.id = i])
    /\ UNCHANGED caches

\* A request for a job that is not the controller's own.
ArrivesJob(r, j) ==
    /\ req[r] = NoRequest
    /\ ReqBecomes(r, [NoRequest EXCEPT !.pc = "get", !.item = j, !.id = jobNode[j]])
    /\ UNCHANGED caches

\* store.get: the row of the node, as it will be used.
GetNode(r) ==
    /\ req[r].pc = "get" /\ req[r].id \in Listed
    /\ ReqBecomes(r, [req[r] EXCEPT !.pc = "dial"])
    /\ UNCHANGED caches

\* The node is gone: the VM counts as local, and the controller answers that there is none.
CountsAsLocal(r) ==
    /\ req[r].pc = "get" /\ req[r].id \notin Listed /\ req[r].item \in Vms
    /\ ReqEnds(r)
    /\ UNCHANGED caches

\* The job is in no entry of the cache, or its node is gone.
ListOnline(r) ==
    /\ req[r].pc = "get" /\ req[r].id \notin Listed /\ req[r].item \in Jobs
    /\ ReqBecomes(r, [req[r] EXCEPT !.pc = "ask", !.id = NoId,
                         !.todo = {i \in Listed : status[i] = "ONLINE"}])
    /\ UNCHANGED caches

\* GET /api/v1/jobs/{id} over the control link.  routeRemoteJob of the agent answers for
\* its own jobs, and proxies the request for a job that it finds at its nodes.
HasJob(i, j) ==
    Reached(i) /\ j \in exists /\ home[j] = server[addr[i]]

MayHaveJob(i, j) ==
    Reached(i) /\ j \in exists /\ home[j] \in Under(server[addr[i]])

\* One node of the list after the other (by name, here in any order).
AskNode(r, i) ==
    /\ req[r].pc = "ask" /\ i \in req[r].todo
    /\ \/ /\ MayHaveJob(i, req[r].item)
          /\ jobNode' = [jobNode EXCEPT ![req[r].item] = i]
          /\ ReqBecomes(r, [req[r] EXCEPT !.pc = "dial", !.id = i, !.todo = {}])
       \/ /\ ~HasJob(i, req[r].item)
          /\ ReqBecomes(r, [req[r] EXCEPT !.todo = @ \ {i}])
          /\ UNCHANGED jobNode
    /\ UNCHANGED vmCache

AskedAll(r) ==
    /\ req[r].pc = "ask" /\ req[r].todo = {}
    /\ ReqEnds(r)
    /\ UNCHANGED caches

\* proxyToNode: what is at the address may have changed since the row was read.
Dial(r) ==
    /\ req[r].pc = "dial" /\ Reached(req[r].id)
    /\ ReqEnds(r)
    /\ UNCHANGED caches

\* 502, node unreachable.
DialFails(r) ==
    /\ req[r].pc = "dial" /\ ~Reached(req[r].id)
    /\ ReqEnds(r)
    /\ UNCHANGED caches

Serve(r) ==
    \/ GetNode(r) \/ CountsAsLocal(r) \/ ListOnline(r)
    \/ AskedAll(r) \/ Dial(r) \/ DialFails(r)
    \/ \E i \in Ids : AskNode(r, i)

-----------------------------------------------------------------------------
Stop ==
    /\ running
    /\ running' = FALSE
    /\ UNCHANGED <<agents, nodes, check, caches, req>>

\* The process ends and another one starts: the caches are lost.  (A crash is a
\* Stop and a Restart in one.)
Restart ==
    /\ ~running
    /\ running' = TRUE
    /\ check' = [i \in Ids |-> "idle"]
    /\ vmCache' = [i \in Ids |-> {}] /\ jobNode' = [j \in Jobs |-> NoId]
    /\ req' = [r \in Reqs |-> NoRequest]
    /\ UNCHANGED <<agents, nodes>>

Next ==
    \/ \E a \in Addrs : ServerChanges(a)
    \/ \E x \in Items : ItemMade(x)
    \/ \E v \in Vms : VmDeleted(v)
    \/ \E i \in Ids : Register(i) \/ RegisterTrusted(i) \/ Delete(i)
    \/ Sweep
    \/ \E i \in Ids : Check(i)
    \/ \E r \in Reqs, v \in Vms : ArrivesVM(r, v)
    \/ \E r \in Reqs, j \in Jobs : ArrivesJob(r, j)
    \/ \E r \in Reqs : Serve(r)
    \/ Stop
    \/ Restart

\* The timer of the health loop and the goroutines of a sweep: every exchange has a
\* timeout.
Fairness == WF_vars(Sweep) /\ \A i \in Ids : WF_vars(Check(i))

Spec == Init /\ [][Next]_vars /\ Fairness

-----------------------------------------------------------------------------
(* Properties                                                              *)

TypeOK ==
    /\ server \in [Addrs -> Machines \cup {Nobody}]
    /\ made \in SUBSET Items /\ exists \in SUBSET made
    /\ status \in [Ids -> {"new", "asked", "ONLINE", "OFFLINE", "gone"}]
    /\ addr \in [Ids -> Addrs]
    /\ shown \in [Ids -> Machines \cup {Nobody}] /\ pin \in [Ids -> Machines \cup {Nobody}]
    /\ check \in [Ids -> {"idle", "probe", "offline", "clear", "online", "fetch"}]
    /\ vmCache \in [Ids -> SUBSET Vms] /\ jobNode \in [Jobs -> Ids \cup {NoId}]
    /\ req \in [Reqs -> Request]
    /\ running \in BOOLEAN

\* Whatever the caches say of a TLS node was said by the machine whose certificate the
\* operator accepted: it made the VM or job, or a machine that it answers for, however
\* often the machine at the address changes between the 409 and the second Register,
\* during a sweep or later.
CachesFromAccepted ==
    \A i \in TlsIds :
        /\ \A v \in vmCache[i] : home[v] \in Under(shown[i])
        /\ \A j \in Jobs : jobNode[j] = i => home[j] \in Under(shown[i])

\* A request that is sent to a TLS node goes to the accepted machine, and that one made
\* the VM or the job, or has nodes that lead to the one that did, although the cache, the
\* row and the server at the address are read at three different times.
DeliveredToOwner ==
    [][\A r \in Reqs : Dial(r) /\ req[r].id \in TlsIds =>
         /\ server[addr[req[r].id]] = shown[req[r].id]
         /\ home[req[r].item] \in Under(server[addr[req[r].id]])]_vars

Down(i) == i \in Listed /\ ~Reached(i) /\ running
Up(i, m) == i \in Listed /\ Reached(i) /\ server[addr[i]] = m /\ running

\* A node that stays unreachable, or keeps another certificate, is in the end OFFLINE
\* and none of its VMs advertised; one whose agent stays reachable is in the end ONLINE,
\* with every VM that the agent has and nothing else but VMs of its nodes.  (Those may
\* stay listed after they are deleted: two machines that are nodes of one another go on
\* telling each other of them.)  Answers of earlier sweeps, of machines that were there
\* before, and restarts do not prevent it.
SweepsConverge ==
    \A i \in Ids :
        /\ <>[]Down(i) => <>[](status[i] = "OFFLINE" /\ vmCache[i] = {})
        /\ \A m \in Machines :
             <>[]Up(i, m) => <>[](/\ status[i] = "ONLINE"
                                  /\ VmsOf(m) \subseteq vmCache[i]
                                  /\ \A v \in vmCache[i] \ VmsOf(m) : home[v] \in Below[m])
=============================================================================
