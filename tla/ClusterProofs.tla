---------------------------- MODULE ClusterProofs ----------------------------
(***************************************************************************)
(* Proofs about Cluster for any number of nodes, machines, VMs, jobs and   *)
(* requests.                                                               *)
(*                                                                         *)
(* A request acts on what three steps have read at three times.  What      *)
(* makes that safe is that a cache entry, a check or a request of a node   *)
(* exists only when the node has been accepted (Rows, Caches, Requests),   *)
(* and that the accepted certificate never changes afterwards.             *)
(***************************************************************************)
EXTENDS Cluster, TLAPS

\* Registered at some time.
Accepted(i) == status[i] \in {"ONLINE", "OFFLINE", "gone"}

\* What a request knows.
Well(q) ==
    /\ q \in Request
    /\ q.pc # "idle" => q.item \in Items
    /\ q.pc = "dial" => q.id \in Ids
    /\ q.id \in Ids => Accepted(q.id)
    /\ q.id \in TlsIds => home[q.item] \in Under(shown[q.id])
    /\ \A i \in q.todo : Accepted(i)

Rows ==
    /\ status \in [Ids -> {"new", "asked", "ONLINE", "OFFLINE", "gone"}]
    /\ addr \in [Ids -> Addrs]
    /\ shown \in [Ids -> Machines \cup {Nobody}] /\ pin \in [Ids -> Machines \cup {Nobody}]
    /\ check \in [Ids -> {"idle", "probe", "offline", "clear", "online", "fetch"}]
    /\ \A i \in Ids : check[i] # "idle" => Accepted(i)
    /\ \A i \in TlsIds : Accepted(i) => pin[i] = shown[i]

Caches ==
    /\ vmCache \in [Ids -> SUBSET Vms] /\ jobNode \in [Jobs -> Ids \cup {NoId}]
    /\ \A i \in Ids : vmCache[i] # {} => Accepted(i)
    /\ \A j \in Jobs : jobNode[j] \in Ids => Accepted(jobNode[j])
    /\ CachesFromAccepted

Requests ==
    /\ req \in [Reqs -> Request]
    /\ \A r \in Reqs : Well(req[r])

Agents ==
    /\ server \in [Addrs -> Machines \cup {Nobody}]
    /\ made \in SUBSET Items /\ exists \in SUBSET made
    /\ running \in BOOLEAN

IInv == Agents /\ Rows /\ Caches /\ Requests

-----------------------------------------------------------------------------
(* What a step must keep                                                   *)

\* A node that has been accepted stays so, with the certificate that was shown.
Keeps == \A i \in Ids : Accepted(i) => Accepted(i)' /\ shown'[i] = shown[i]

\* Nodes that do not change keep what they have.
LEMMA SameNodesKeep ==
    ASSUME UNCHANGED nodes
    PROVE  Keeps
  BY DEF nodes, Keeps, Accepted

\* Entries stay right while the caches are not written and nodes keep their certificates.
LEMMA CachesKept ==
    ASSUME IInv, Keeps, UNCHANGED caches
    PROVE  Caches'
  <1>1. vmCache' = vmCache /\ jobNode' = jobNode
    BY DEF caches
  <1>2. CachesFromAccepted'
    <2>1. ASSUME NEW i \in TlsIds
          PROVE  /\ \A v \in vmCache'[i] : home[v] \in Under(shown'[i])
                 /\ \A j \in Jobs : jobNode'[j] = i => home[j] \in Under(shown'[i])
      BY <1>1, TlsAssumption DEF IInv, Caches, CachesFromAccepted, Keeps
    <2> QED
      BY <2>1 DEF CachesFromAccepted, Under
  <1>3. \A i \in Ids : vmCache'[i] # {} => Accepted(i)'
    BY <1>1 DEF IInv, Caches, Keeps
  <1>4. \A j \in Jobs : jobNode'[j] \in Ids => status'[jobNode'[j]] \in {"ONLINE", "OFFLINE", "gone"}
    BY <1>1 DEF IInv, Caches, Keeps, Accepted
  <1> QED
    BY <1>1, <1>2, <1>3, <1>4 DEF IInv, Caches, Accepted

\* What a request knows stays true.
LEMMA WellKept ==
    ASSUME Keeps, NEW q, Well(q)
    PROVE  Well(q)'
  <1>1. q \in Request /\ q.todo \in SUBSET Ids
    BY DEF Well, Request
  <1>2. q.id \in Ids => status'[q.id] \in {"ONLINE", "OFFLINE", "gone"}
    BY DEF Well, Keeps, Accepted
  <1>3. q.id \in TlsIds => home[q.item] \in Under(shown'[q.id])
    BY TlsAssumption DEF Well, Keeps
  <1>4. \A i \in q.todo : status'[i] \in {"ONLINE", "OFFLINE", "gone"}
    BY <1>1 DEF Well, Keeps, Accepted
  <1> QED
    BY <1>1, <1>2, <1>3, <1>4 DEF Well, Accepted, Under

\* So does what a request under way has looked up.
LEMMA RequestsKept ==
    ASSUME IInv, Keeps, req' = req
    PROVE  Requests'
  <1>1. ASSUME NEW r \in Reqs
        PROVE  Well(req[r])'
    <2>1. Well(req[r])
      BY DEF IInv, Requests
    <2>2. PICK q : q = req[r]
      OBVIOUS
    <2>3. Well(q)'
      BY <2>1, <2>2, WellKept
    <2> QED
      BY <2>2, <2>3 DEF Well, Accepted, Under
  <1> QED
    BY <1>1 DEF IInv, Requests

\* A request becomes q.
LEMMA RequestStep ==
    ASSUME IInv, NEW r \in Reqs, NEW q, Well(q), ReqBecomes(r, q)
    PROVE  Agents' /\ Rows' /\ Requests'
  <1>1. /\ req' = [req EXCEPT ![r] = q]
        /\ UNCHANGED <<server, made, exists, running, status, addr, shown, pin, check>>
    BY DEF ReqBecomes, agents, nodes
  <1>2. Agents'
    BY <1>1 DEF IInv, Agents
  <1>3. Rows'
    BY <1>1 DEF IInv, Rows, Accepted
  <1>4. q \in Request
    BY DEF Well
  <1>5. \A s \in Reqs : req'[s] = IF s = r THEN q ELSE req[s]
    BY <1>1 DEF IInv, Requests
  <1>6. req' \in [Reqs -> Request]
    BY <1>1, <1>4 DEF IInv, Requests
  <1>7. ASSUME NEW s \in Reqs
        PROVE  Well(req'[s])
    BY <1>5 DEF IInv, Requests
  <1>8. Requests'
    BY <1>1, <1>6, <1>7 DEF Requests, Well, Accepted, Under
  <1> QED
    BY <1>2, <1>3, <1>8

\* A request that is over needs nothing.
LEMMA NoRequestWell == Well(NoRequest)
  BY NamesAssumption, TlsAssumption DEF Well, NoRequest, Request

\* A request moves and the caches stay.
LEMMA RequestOnly ==
    ASSUME IInv, NEW r \in Reqs, NEW q, Well(q), ReqBecomes(r, q), UNCHANGED caches
    PROVE  IInv'
  <1>1. UNCHANGED nodes
    BY DEF ReqBecomes
  <1> QED
    BY <1>1, RequestStep, SameNodesKeep, CachesKept DEF IInv

-----------------------------------------------------------------------------
(* Agents, registration                                                    *)

\* Machines, what they have, and the end of the controller.
LEMMA AgentsStep ==
    ASSUME IInv,
           \/ \E a \in Addrs : ServerChanges(a)
           \/ \E x \in Items : ItemMade(x)
           \/ \E v \in Vms : VmDeleted(v)
           \/ Stop
    PROVE  IInv'
  <1>1. UNCHANGED <<nodes, check, caches, req>>
    BY DEF ServerChanges, ItemMade, VmDeleted, Stop
  <1>2. Rows'
    BY <1>1 DEF nodes, IInv, Rows, Accepted
  <1>3. Caches' /\ Requests'
    BY <1>1, SameNodesKeep, CachesKept, RequestsKept
  <1>4. ASSUME NEW a \in Addrs, ServerChanges(a)
        PROVE  Agents'
    BY <1>4 DEF ServerChanges, IInv, Agents
  <1>5. ASSUME NEW x \in Items, ItemMade(x)
        PROVE  Agents'
    BY <1>5 DEF ItemMade, IInv, Agents
  <1>6. ASSUME NEW v \in Vms, VmDeleted(v)
        PROVE  Agents'
    BY <1>6 DEF VmDeleted, IInv, Agents
  <1>7. ASSUME Stop
        PROVE  Agents'
    <2>1. running' \in BOOLEAN
      BY <1>7, Zenon DEF Stop
    <2>2. UNCHANGED <<server, made, exists>>
      BY <1>7 DEF Stop, agents
    <2>3. /\ server' \in [Addrs -> Machines \cup {Nobody}]
          /\ made' \in SUBSET Items /\ exists' \in SUBSET made'
      BY <2>2 DEF IInv, Agents
    <2> QED
      BY <2>1, <2>3 DEF Agents
  <1> QED
    BY <1>2, <1>3, <1>4, <1>5, <1>6, <1>7 DEF IInv

\* A step of the table only, that keeps what was accepted.
LEMMA RowsOnly ==
    ASSUME IInv, Keeps, Rows', UNCHANGED <<agents, caches, req, running>>
    PROVE  IInv'
  <1>1. Agents'
    BY DEF agents, IInv, Agents
  <1> QED
    BY <1>1, CachesKept, RequestsKept DEF IInv

\* Register: without TLS at once, with it up to the 409 that shows the certificate.
LEMMA RegisterStep ==
    ASSUME IInv, NEW i \in Ids, Register(i)
    PROVE  IInv'
  <1>1. /\ status[i] = "new" /\ server[addr[i]] # Nobody
        /\ UNCHANGED <<addr, pin, check, caches, req, running, agents>>
    BY DEF Register
  <1>2. server[addr[i]] \in Machines \cup {Nobody}
    BY DEF IInv, Agents, Rows
  <1>3. CASE i \in TlsIds
    <2>1. /\ status' = [status EXCEPT ![i] = "asked"]
          /\ shown' = [shown EXCEPT ![i] = server[addr[i]]]
      BY <1>3 DEF Register
    <2>2. Keeps
      BY <1>1, <2>1 DEF IInv, Rows, Keeps, Accepted
    <2>3. Rows'
      BY <1>1, <1>2, <2>1, TlsAssumption DEF IInv, Rows, Accepted
    <2> QED
      BY <1>1, <2>2, <2>3, RowsOnly
  <1>4. CASE i \notin TlsIds
    <2>1. status' = [status EXCEPT ![i] = "ONLINE"] /\ shown' = shown
      BY <1>4 DEF Register
    <2>2. Keeps
      BY <1>1, <2>1 DEF IInv, Rows, Keeps, Accepted
    <2>3. Rows'
      BY <1>1, <1>4, <2>1, TlsAssumption DEF IInv, Rows, Accepted
    <2> QED
      BY <1>1, <2>2, <2>3, RowsOnly
  <1> QED
    BY <1>3, <1>4

\* Register with the fingerprint that was shown.
LEMMA RegisterTrustedStep ==
    ASSUME IInv, NEW i \in Ids, RegisterTrusted(i)
    PROVE  IInv'
  <1>1. /\ status[i] = "asked"
        /\ pin' = [pin EXCEPT ![i] = shown[i]] /\ status' = [status EXCEPT ![i] = "ONLINE"]
        /\ UNCHANGED <<agents, addr, shown, check, caches, req, running>>
    BY DEF RegisterTrusted
  <1>2. Keeps
    BY <1>1 DEF IInv, Rows, Keeps, Accepted
  <1>3. Rows'
    BY <1>1, TlsAssumption DEF IInv, Rows, Accepted
  <1> QED
    BY <1>1, <1>2, <1>3, RowsOnly

\* Delete and the health columns: from one state of an accepted node to another one.
LEMMA StatusStep ==
    ASSUME IInv, NEW i \in Ids, NEW s \in {"ONLINE", "OFFLINE", "gone"},
           status' = IF i \in Listed THEN [status EXCEPT ![i] = s] ELSE status,
           UNCHANGED <<agents, addr, shown, pin, caches, req, running>>,
           check' = check \/ \E to \in {"clear", "fetch"} : CheckGoes(i, check[i], to) /\ check[i] # "idle"
    PROVE  IInv'
  <1>1. Keeps
    BY DEF IInv, Rows, Keeps, Accepted
  <1>2. \A k \in Ids : Accepted(k)' <=> Accepted(k)
    BY DEF IInv, Rows, Listed, Accepted
  <1>3. status' \in [Ids -> {"new", "asked", "ONLINE", "OFFLINE", "gone"}]
    BY DEF IInv, Rows
  <1>4. /\ check' \in [Ids -> {"idle", "probe", "offline", "clear", "online", "fetch"}]
        /\ \A k \in Ids : check'[k] # "idle" => check[k] # "idle"
    BY DEF CheckGoes, IInv, Rows
  <1>5. Rows'
    BY <1>2, <1>3, <1>4, TlsAssumption DEF IInv, Rows
  <1> QED
    BY <1>1, <1>5, RowsOnly

\* Delete of a node.
LEMMA DeleteStep ==
    ASSUME IInv, NEW i \in Ids, Delete(i)
    PROVE  IInv'
  <1>1. /\ status' = IF i \in Listed THEN [status EXCEPT ![i] = "gone"] ELSE status
        /\ UNCHANGED <<agents, addr, shown, pin, caches, req, running>> /\ check' = check
    BY DEF Delete
  <1> QED
    BY <1>1, StatusStep

-----------------------------------------------------------------------------
(* Sweeps                                                                  *)

\* A sweep reads the nodes.
LEMMA SweepStep ==
    ASSUME IInv, Sweep
    PROVE  IInv'
  <1>1. /\ check' = [i \in Ids |-> IF i \in Listed THEN "probe" ELSE "idle"]
        /\ UNCHANGED <<agents, nodes, caches, req, running>>
    BY DEF Sweep
  <1>2. Rows'
    BY <1>1 DEF IInv, Rows, nodes, Accepted, Listed
  <1> QED
    BY <1>1, <1>2, SameNodesKeep, RowsOnly

\* A goroutine of a sweep goes on, and the table stays.
LEMMA CheckRows ==
    ASSUME IInv, NEW i \in Ids, NEW from \in {"probe", "offline", "clear", "online", "fetch"},
           NEW to \in {"idle", "offline", "clear", "online", "fetch"}, CheckGoes(i, from, to),
           UNCHANGED nodes
    PROVE  Rows'
  <1>1. /\ check[i] # "idle" /\ check' = [check EXCEPT ![i] = to]
        /\ UNCHANGED <<status, addr, shown, pin>>
    BY DEF CheckGoes, nodes
  <1>2. /\ check' \in [Ids -> {"idle", "probe", "offline", "clear", "online", "fetch"}]
        /\ \A k \in Ids : check'[k] # "idle" => check[k] # "idle"
    BY <1>1 DEF IInv, Rows
  <1> QED
    BY <1>1, <1>2 DEF IInv, Rows, Accepted

\* The entry of an accepted node becomes the set S, of VMs that the accepted machine made
\* or answers for.
LEMMA EntryStep ==
    ASSUME IInv, NEW i \in Ids, NEW S \in SUBSET Vms, Accepted(i), UNCHANGED nodes,
           i \in TlsIds => \A v \in S : home[v] \in Under(shown[i]),
           vmCache' = [vmCache EXCEPT ![i] = S], jobNode' = jobNode
    PROVE  Caches'
  <1>1. UNCHANGED <<status, addr, shown, pin>>
    BY DEF nodes
  <1>2. \A k \in Ids : vmCache'[k] = IF k = i THEN S ELSE vmCache[k]
    BY DEF IInv, Caches
  <1>3. vmCache' \in [Ids -> SUBSET Vms]
    BY DEF IInv, Caches
  <1>4. CachesFromAccepted'
    <2>1. ASSUME NEW k \in TlsIds
          PROVE  \A v \in vmCache'[k] : home[v] \in Under(shown[k])
      BY <1>2, TlsAssumption DEF IInv, Caches, CachesFromAccepted
    <2> QED
      BY <1>1, <2>1 DEF IInv, Caches, CachesFromAccepted, Under
  <1> QED
    BY <1>1, <1>2, <1>3, <1>4 DEF IInv, Caches, Accepted

\* An exchange over the control link of an accepted TLS node is with the accepted machine.
LEMMA ReachedIsShown ==
    ASSUME IInv, NEW i \in TlsIds, Accepted(i), Reached(i)
    PROVE  server[addr[i]] = shown[i]
  BY DEF IInv, Rows, Reached, Pinned

\* The goroutine of a sweep for one node: an entry comes from the machine it pinned.
LEMMA CheckStep ==
    ASSUME IInv, NEW i \in Ids, Check(i)
    PROVE  IInv'
  <1>1. CASE Probe(i)
    <2>1. PICK to \in {"online", "offline"} : CheckGoes(i, "probe", to)
      BY <1>1 DEF Probe
    <2>2. UNCHANGED <<agents, nodes, caches, req, running>>
      BY <1>1 DEF Probe
    <2>3. Rows'
      BY <2>1, <2>2, CheckRows
    <2> QED
      BY <2>2, <2>3, SameNodesKeep, RowsOnly
  <1>2. CASE MarkOffline(i)
    <2>1. /\ status' = IF i \in Listed THEN [status EXCEPT ![i] = "OFFLINE"] ELSE status
          /\ UNCHANGED <<agents, addr, shown, pin, caches, req, running>>
          /\ CheckGoes(i, check[i], "clear") /\ check[i] # "idle"
      BY <1>2 DEF MarkOffline, UpdateHealth, CheckGoes
    <2> QED
      BY <2>1, StatusStep
  <1>3. CASE MarkOnline(i)
    <2>1. /\ status' = IF i \in Listed THEN [status EXCEPT ![i] = "ONLINE"] ELSE status
          /\ UNCHANGED <<agents, addr, shown, pin, caches, req, running>>
          /\ CheckGoes(i, check[i], "fetch") /\ check[i] # "idle"
      BY <1>3 DEF MarkOnline, UpdateHealth, CheckGoes
    <2> QED
      BY <2>1, StatusStep
  <1>4. ASSUME ClearCache(i) \/ FetchVMs(i)
        PROVE  IInv'
    <2>1. /\ UNCHANGED <<agents, nodes, jobNode, req, running>>
          /\ \E from \in {"clear", "fetch"} : CheckGoes(i, from, "idle")
      BY <1>4 DEF ClearCache, FetchVMs
    <2>2. Rows'
      BY <2>1, CheckRows
    <2>3. Accepted(i)
      BY <2>1 DEF CheckGoes, IInv, Rows
    <2>4. PICK S \in SUBSET Vms : /\ vmCache' = [vmCache EXCEPT ![i] = S]
                                  /\ i \in TlsIds => \A v \in S : home[v] \in Under(shown[i])
      <3>1. CASE vmCache' = [vmCache EXCEPT ![i] = {}]
        <4>1. {} \in SUBSET Vms /\ \A v \in {} : home[v] \in Under(shown[i])
          OBVIOUS
        <4> QED
          BY <3>1, <4>1, Zenon
      <3>2. ASSUME Reached(i), NEW S \in ListsOf(server[addr[i]]), vmCache' = [vmCache EXCEPT ![i] = S]
            PROVE  S \in SUBSET Vms /\ (i \in TlsIds => \A v \in S : home[v] \in Under(shown[i]))
        <4>1. S \in SUBSET Vms /\ \A v \in S : home[v] \in Under(server[addr[i]])
          BY <3>2 DEF ListsOf, VmsOf, Under
        <4>2. i \in TlsIds => server[addr[i]] = shown[i]
          BY <2>3, <3>2, ReachedIsShown
        <4> QED
          BY <4>1, <4>2
      <3>3. CASE \E S \in ListsOf(server[addr[i]]) : Reached(i) /\ vmCache' = [vmCache EXCEPT ![i] = S]
        BY <3>2, <3>3
      <3> QED
        BY <1>4, <3>1, <3>3 DEF ClearCache, FetchVMs
    <2>5. Caches'
      BY <2>1, <2>3, <2>4, EntryStep
    <2>6. Requests'
      BY <2>1, SameNodesKeep, RequestsKept
    <2>7. Agents'
      BY <2>1 DEF agents, IInv, Agents
    <2> QED
      BY <2>2, <2>5, <2>6, <2>7 DEF IInv
  <1> QED
    BY <1>1, <1>2, <1>3, <1>4 DEF Check

-----------------------------------------------------------------------------
(* Requests                                                                *)

\* A request for a VM is routed by vmCache.
LEMMA ArrivesVMStep ==
    ASSUME IInv, NEW r \in Reqs, NEW v \in Vms, ArrivesVM(r, v)
    PROVE  IInv'
  <1>1. PICK i \in Owners(v) : /\ ReqBecomes(r, [NoRequest EXCEPT !.pc = "get", !.item = v, !.id = i])
                               /\ UNCHANGED caches
    BY DEF ArrivesVM
  <1> DEFINE q == [NoRequest EXCEPT !.pc = "get", !.item = v, !.id = i]
  <1>2. i \in Ids /\ v \in vmCache[i]
    BY DEF Owners
  <1>3. Accepted(i) /\ (i \in TlsIds => home[v] \in Under(shown[i]))
    BY <1>2 DEF IInv, Caches, CachesFromAccepted
  <1>4. Well(q)
    BY <1>2, <1>3, NamesAssumption DEF Well, NoRequest, Request, Items
  <1> QED
    BY <1>1, <1>4, RequestOnly

\* A request for a job is routed by jobNode.
LEMMA ArrivesJobStep ==
    ASSUME IInv, NEW r \in Reqs, NEW j \in Jobs, ArrivesJob(r, j)
    PROVE  IInv'
  <1> DEFINE q == [NoRequest EXCEPT !.pc = "get", !.item = j, !.id = jobNode[j]]
  <1>1. jobNode[j] \in Ids \cup {NoId}
    BY DEF IInv, Caches
  <1>2. jobNode[j] \in Ids => Accepted(jobNode[j])
    BY DEF IInv, Caches
  <1>3. jobNode[j] \in TlsIds => home[j] \in Under(shown[jobNode[j]])
    BY DEF IInv, Caches, CachesFromAccepted
  <1>4. Well(q)
    BY <1>1, <1>2, <1>3, NamesAssumption DEF Well, NoRequest, Request, Items
  <1> QED
    BY <1>4, RequestOnly DEF ArrivesJob

\* The row of the node is read.
LEMMA GetNodeStep ==
    ASSUME IInv, NEW r \in Reqs, GetNode(r)
    PROVE  IInv'
  <1> DEFINE q == [req[r] EXCEPT !.pc = "dial"]
  <1>1. Well(req[r]) /\ req[r].pc = "get" /\ req[r].id \in Ids
    BY DEF IInv, Requests, GetNode, Listed
  <1>2. Well(q)
    BY <1>1 DEF Well, Request
  <1> QED
    BY <1>2, RequestOnly DEF GetNode

\* FindJobNode lists the nodes that are ONLINE.
LEMMA ListOnlineStep ==
    ASSUME IInv, NEW r \in Reqs, ListOnline(r)
    PROVE  IInv'
  <1> DEFINE T == {i \in Listed : status[i] = "ONLINE"}
  <1> DEFINE q == [req[r] EXCEPT !.pc = "ask", !.id = NoId, !.todo = T]
  <1>1. Well(req[r]) /\ req[r].pc = "get"
    BY DEF IInv, Requests, ListOnline
  <1>2. T \in SUBSET Ids /\ \A i \in T : Accepted(i)
    BY DEF Listed, Accepted
  <1>3. CASE ReqBecomes(r, q) /\ UNCHANGED caches
    <2> HIDE DEF T
    <2>1. Well(q)
      BY <1>1, <1>2, NamesAssumption, TlsAssumption DEF Well, Request
    <2> QED
      BY <1>3, <2>1, RequestOnly
  <1> QED
    BY <1>3 DEF ListOnline

\* FindJobNode asks a node, and caches its answer.
LEMMA AskNodeStep ==
    ASSUME IInv, NEW r \in Reqs, NEW i \in Ids, AskNode(r, i)
    PROVE  IInv'
  <1> DEFINE j == req[r].item
  <1>1. /\ Well(req[r]) /\ req[r].pc = "ask" /\ i \in req[r].todo
        /\ UNCHANGED vmCache
    BY DEF IInv, Requests, AskNode
  <1>2. Accepted(i) /\ req[r] \in Request
    BY <1>1 DEF Well
  <1>3. CASE MayHaveJob(i, j) /\ jobNode' = [jobNode EXCEPT ![j] = i]
            /\ ReqBecomes(r, [req[r] EXCEPT !.pc = "dial", !.id = i, !.todo = {}])
    <2> DEFINE q == [req[r] EXCEPT !.pc = "dial", !.id = i, !.todo = {}]
    <2>1. jobNode' = [jobNode EXCEPT ![j] = i] /\ ReqBecomes(r, q)
      BY <1>3
    <2>2. i \in TlsIds => home[j] \in Under(shown[i])
      BY <1>2, <1>3, ReachedIsShown DEF MayHaveJob
    <2>3. Well(q)
      BY <1>1, <1>2, <2>2 DEF Well, Request
    <2>4. UNCHANGED <<status, addr, shown, pin>>
      BY <2>1 DEF ReqBecomes, nodes
    <2>5. jobNode' \in [Jobs -> Ids \cup {NoId}]
      BY <2>1 DEF IInv, Caches
    <2>6. \A k \in Jobs : jobNode'[k] = IF k = j THEN i ELSE jobNode[k]
      BY <2>1 DEF IInv, Caches
    <2>7. CachesFromAccepted'
      <3>1. ASSUME NEW n \in TlsIds, NEW k \in Jobs, jobNode'[k] = n
            PROVE  home[k] \in Under(shown[n])
        BY <2>2, <2>6, <3>1 DEF IInv, Caches, CachesFromAccepted
      <3> QED
        BY <1>1, <2>4, <3>1 DEF IInv, Caches, CachesFromAccepted, Under
    <2>8. \A k \in Jobs : jobNode'[k] \in Ids => Accepted(jobNode'[k])
      BY <1>2, <2>6 DEF IInv, Caches
    <2>9. Caches'
      BY <1>1, <2>4, <2>5, <2>7, <2>8 DEF IInv, Caches, Accepted
    <2> HIDE DEF q
    <2> QED
      BY <2>1, <2>3, <2>9, RequestStep DEF IInv
  <1>4. CASE ReqBecomes(r, [req[r] EXCEPT !.todo = @ \ {i}]) /\ UNCHANGED jobNode
    <2> DEFINE q == [req[r] EXCEPT !.todo = @ \ {i}]
    <2>1. ReqBecomes(r, q) /\ UNCHANGED caches
      BY <1>1, <1>4 DEF caches
    <2>2. Well(q)
      BY <1>1, <1>2 DEF Well, Request
    <2> HIDE DEF q
    <2> QED
      BY <2>1, <2>2, RequestOnly
  <1> QED
    BY <1>3, <1>4 DEF AskNode

\* A request, whichever step it is at.
LEMMA ServeStep ==
    ASSUME IInv, NEW r \in Reqs, Serve(r)
    PROVE  IInv'
  <1>1. CASE CountsAsLocal(r) \/ AskedAll(r) \/ Dial(r) \/ DialFails(r)
    BY <1>1, NoRequestWell, RequestOnly DEF CountsAsLocal, AskedAll, Dial, DialFails, ReqEnds
  <1> QED
    BY <1>1, GetNodeStep, ListOnlineStep, AskNodeStep DEF Serve

\* A restart empties the caches and keeps the nodes.
LEMMA RestartStep ==
    ASSUME IInv, Restart
    PROVE  IInv'
  <1>1. /\ running' = TRUE /\ check' = [i \in Ids |-> "idle"]
        /\ vmCache' = [i \in Ids |-> {}] /\ jobNode' = [j \in Jobs |-> NoId]
        /\ req' = [r \in Reqs |-> NoRequest]
        /\ UNCHANGED <<server, made, exists, status, addr, shown, pin>>
    BY DEF Restart, agents, nodes
  <1>2. Agents'
    <2>1. running' \in BOOLEAN
      BY <1>1, Zenon
    <2>2. /\ server' \in [Addrs -> Machines \cup {Nobody}]
          /\ made' \in SUBSET Items /\ exists' \in SUBSET made'
      BY <1>1 DEF IInv, Agents
    <2> QED
      BY <2>1, <2>2, Zenon DEF Agents
  <1>3. Rows'
    BY <1>1 DEF IInv, Rows, Accepted
  <1>4. Caches'
    BY <1>1, NamesAssumption, TlsAssumption DEF Caches, CachesFromAccepted
  <1>5. Requests'
    BY <1>1, NamesAssumption, TlsAssumption DEF Requests, Well, NoRequest, Request
  <1> QED
    BY <1>2, <1>3, <1>4, <1>5 DEF IInv

-----------------------------------------------------------------------------
(* The invariant                                                           *)

\* The invariant holds of an empty registry.
LEMMA InitIInv == Init => IInv
  <1> SUFFICES ASSUME Init
               PROVE  IInv
    OBVIOUS
  <1>1. Agents
    <2>1. running \in BOOLEAN
      BY Zenon DEF Init
    <2>2. /\ server \in [Addrs -> Machines \cup {Nobody}]
          /\ made \in SUBSET Items /\ exists \in SUBSET made
      BY DEF Init
    <2> QED
      BY <2>1, <2>2, Zenon DEF Agents
  <1>2. Rows
    BY TlsAssumption DEF Init, Rows, Accepted
  <1>3. Caches
    BY NamesAssumption, TlsAssumption DEF Init, Caches, CachesFromAccepted
  <1>4. Requests
    BY NoRequestWell, NamesAssumption, TlsAssumption DEF Init, Requests, Well
  <1> QED
    BY <1>1, <1>2, <1>3, <1>4 DEF IInv

\* Every step keeps the invariant.
LEMMA NextIInv ==
    ASSUME IInv, [Next]_vars
    PROVE  IInv'
  <1>1. CASE UNCHANGED vars
    <2>1. UNCHANGED <<agents, nodes, check, caches, req, running>>
      BY <1>1 DEF vars
    <2>2. Rows'
      BY <2>1 DEF nodes, IInv, Rows, Accepted
    <2> QED
      BY <2>1, <2>2, SameNodesKeep, RowsOnly
  <1> QED
    BY <1>1, AgentsStep, RegisterStep, RegisterTrustedStep, DeleteStep, SweepStep, CheckStep,
       ArrivesVMStep, ArrivesJobStep, ServeStep, RestartStep DEF Next

\* The invariant always holds.
LEMMA Invariance == Spec => []IInv
  BY InitIInv, NextIInv, PTL DEF Spec

-----------------------------------------------------------------------------
(* The theorems                                                            *)

\* The registry, the caches and the requests keep their types.
THEOREM TypeCorrect == Spec => []TypeOK
  <1>1. IInv => TypeOK
    BY DEF IInv, TypeOK, Agents, Rows, Caches, Requests
  <1> QED
    BY <1>1, Invariance, PTL

\* Whatever machine answers at the address of a TLS node during registration, sweeps and
\* job searches, the caches hold only VMs and jobs of the machine that the operator
\* accepted and of those that it answers for.
THEOREM CachesAreFromAccepted == Spec => []CachesFromAccepted
  <1>1. IInv => CachesFromAccepted
    BY DEF IInv, Caches
  <1> QED
    BY <1>1, Invariance, PTL

\* A request sent to a TLS node arrives at the accepted machine, which made the VM or the
\* job or answers for the one that did, however old the cache entry and the row are that
\* it was routed by.
THEOREM RequestsReachTheOwner == Spec => DeliveredToOwner
  <1>1. ASSUME IInv, NEW r \in Reqs, Dial(r), req[r].id \in TlsIds
        PROVE  /\ server[addr[req[r].id]] = shown[req[r].id]
               /\ home[req[r].item] \in Under(server[addr[req[r].id]])
    <2>1. Well(req[r]) /\ Reached(req[r].id)
      BY <1>1 DEF IInv, Requests, Dial
    <2>2. Accepted(req[r].id) /\ home[req[r].item] \in Under(shown[req[r].id])
      BY <1>1, <2>1, TlsAssumption DEF Well
    <2>3. server[addr[req[r].id]] = shown[req[r].id]
      BY <1>1, <2>1, <2>2, ReachedIsShown
    <2> QED
      BY <2>2, <2>3
  <1>2. IInv => [\A r \in Reqs : Dial(r) /\ req[r].id \in TlsIds =>
                   /\ server[addr[req[r].id]] = shown[req[r].id]
                   /\ home[req[r].item] \in Under(server[addr[req[r].id]])]_vars
    BY <1>1
  <1> QED
    BY <1>2, Invariance, PTL DEF DeliveredToOwner
=============================================================================
