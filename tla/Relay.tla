-------------------------------- MODULE Relay --------------------------------
(***************************************************************************)
(* Bridges between a client and a guest: the TCP forwards of               *)
(* src/internal/proxy/tcpforward.go, and the WebSocket bridges of display, *)
(* terminal and port tunnel (wsbridge.go, terminal.go, display.go,         *)
(* porttunnel.go).                                                         *)
(*                                                                         *)
(* A bridge has two loops, one per direction, each reading one socket and  *)
(* writing the other.  A WebSocket bridge closes both sockets when a loop  *)
(* ends.  A TCP forward waits for both loops, or for Close.  What is       *)
(* carried is left out; reads and writes block for as long as a peer likes *)
(* and there is no deadline on any of them, nor on the dialling.           *)
(***************************************************************************)
EXTENDS Naturals

CONSTANTS
    Addrs,          \* listen addresses of one PortForwarder
    Fwds,           \* TCPForward objects: each is made at most once
    TcpConns,       \* connections accepted by a forward
    WsConns         \* WebSocket requests

None == "none"
Conns == TcpConns \cup WsConns
Sides == {"client", "guest"}
Dirs == {"up", "down"}          \* client to guest, guest to client

ASSUME NamesAssumption == None \notin Fwds /\ TcpConns \cap WsConns = {}

Source(d) == IF d = "up" THEN "client" ELSE "guest"
Target(d) == IF d = "up" THEN "guest" ELSE "client"

VARIABLES
    fwd,        \* new; open: listening; deaf: listening, but acceptLoop has returned; closed
    forwards,   \* pf.forwards
    owner,      \* the forward that accepted a connection
    pc,         \* the handler: idle, dial, upgrade, bridge, returned
    sock,       \* none, open, ended by the peer (or half closed), closed
    loop        \* a loop: none, read, write, end

handler == <<owner, pc, sock, loop>>
relayVars == <<fwd, forwards, handler>>

RelayInit ==
    /\ fwd = [f \in Fwds |-> "new"]
    /\ forwards = [a \in Addrs |-> None]
    /\ owner = [c \in TcpConns |-> None]
    /\ pc = [c \in Conns |-> "idle"]
    /\ sock = [c \in Conns |-> [s \in Sides |-> "none"]]
    /\ loop = [c \in Conns |-> [d \in Dirs |-> "none"]]

-----------------------------------------------------------------------------
(* PortForwarder, every operation under pf.mu                              *)

Closed(S) == [f \in Fwds |-> IF f \in S THEN "closed" ELSE fwd[f]]
At(A) == {forwards[a] : a \in A} \ {None}

\* The forward that was there is closed first, whether or not Listen then succeeds.
Start(a, f) ==
    /\ fwd[f] = "new"
    /\ \/ /\ fwd' = [Closed(At({a})) EXCEPT ![f] = "open"]
          /\ forwards' = [forwards EXCEPT ![a] = f]
       \/ /\ fwd' = Closed(At({a}))
          /\ forwards' = [forwards EXCEPT ![a] = None]
    /\ UNCHANGED handler

Stop(a) ==
    /\ forwards[a] # None
    /\ fwd' = Closed(At({a}))
    /\ forwards' = [forwards EXCEPT ![a] = None]
    /\ UNCHANGED handler

StopAll ==
    /\ At(Addrs) # {}
    /\ fwd' = Closed(At(Addrs))
    /\ forwards' = [a \in Addrs |-> None]
    /\ UNCHANGED handler

\* Any error of Accept ends the loop: the forward stays where it is.
AcceptFails(f) ==
    /\ fwd[f] = "open"
    /\ fwd' = [fwd EXCEPT ![f] = "deaf"]
    /\ UNCHANGED <<forwards, handler>>

-----------------------------------------------------------------------------
(* A handler up to the bridge                                              *)

Accept(f, c) ==
    /\ fwd[f] = "open" /\ pc[c] = "idle"
    /\ owner' = [owner EXCEPT ![c] = f]
    /\ pc' = [pc EXCEPT ![c] = "dial"]
    /\ sock' = [sock EXCEPT ![c]["client"] = "open"]
    /\ UNCHANGED <<fwd, forwards, loop>>

\* displayWS, terminalWS, portTunnelWS: the VM is RUNNING and has an API.
Arrive(c) ==
    /\ pc[c] = "idle"
    /\ pc' = [pc EXCEPT ![c] = "dial"]
    /\ UNCHANGED <<fwd, forwards, owner, sock, loop>>

Bridge(c) ==
    /\ pc' = [pc EXCEPT ![c] = "bridge"]
    /\ loop' = [loop EXCEPT ![c] = [d \in Dirs |-> "read"]]

Dial(c) ==
    /\ pc[c] = "dial"
    /\ sock' = [sock EXCEPT ![c]["guest"] = "open"]
    /\ IF c \in TcpConns THEN Bridge(c)
       ELSE pc' = [pc EXCEPT ![c] = "upgrade"] /\ UNCHANGED loop
    /\ UNCHANGED <<fwd, forwards, owner>>

\* The handler returns, with what it has deferred: sockets that it has are closed.
Returns(c) ==
    /\ pc' = [pc EXCEPT ![c] = "returned"]
    /\ sock' = [sock EXCEPT ![c] = [s \in Sides |-> IF @[s] = "none" THEN "none" ELSE "closed"]]

DialFails(c) ==
    /\ pc[c] = "dial"
    /\ Returns(c)
    /\ UNCHANGED <<fwd, forwards, owner, loop>>

Upgrade(c) ==
    /\ pc[c] = "upgrade"
    /\ sock' = [sock EXCEPT ![c]["client"] = "open"]
    /\ Bridge(c)
    /\ UNCHANGED <<fwd, forwards, owner>>

\* Mutant: the guest's socket is not closed.
UpgradeLeaks(c) ==
    /\ pc[c] = "upgrade"
    /\ pc' = [pc EXCEPT ![c] = "returned"]
    /\ UNCHANGED <<fwd, forwards, owner, sock, loop>>

UpgradeFails(c) ==
    /\ pc[c] = "upgrade"
    /\ Returns(c)
    /\ UNCHANGED <<fwd, forwards, owner, loop>>

-----------------------------------------------------------------------------
(* The two loops                                                           *)

PeerEnds(c, s) ==
    /\ sock[c][s] = "open"
    /\ sock' = [sock EXCEPT ![c][s] = "ended"]
    /\ UNCHANGED <<fwd, forwards, owner, pc, loop>>

Read(c, d) ==
    /\ loop[c][d] = "read" /\ sock[c][Source(d)] = "open"
    /\ loop' = [loop EXCEPT ![c][d] = "write"]
    /\ UNCHANGED <<fwd, forwards, owner, pc, sock>>

\* A peer that has closed, or half closed, its socket may still take it.
Written(c, d) ==
    /\ loop[c][d] = "write" /\ sock[c][Target(d)] # "closed"
    /\ loop' = [loop EXCEPT ![c][d] = "read"]
    /\ UNCHANGED <<fwd, forwards, owner, pc, sock>>

\* Mutant: the loop is recorded as the handler is.
EndsAsHandler(c, d) ==
    /\ loop' = [loop EXCEPT ![c][d] = "returned"]
    /\ sock' = IF c \in WsConns THEN [sock EXCEPT ![c] = [s \in Sides |-> "closed"]] ELSE sock
    /\ UNCHANGED <<fwd, forwards, owner, pc>>

\* The loop is left; in a WebSocket bridge it closes both sockets.
Ends(c, d) ==
    /\ loop' = [loop EXCEPT ![c][d] = "end"]
    /\ sock' = IF c \in WsConns THEN [sock EXCEPT ![c] = [s \in Sides |-> "closed"]] ELSE sock
    /\ UNCHANGED <<fwd, forwards, owner, pc>>

ReadFails(c, d) ==
    /\ loop[c][d] = "read" /\ sock[c][Source(d)] # "open"
    /\ Ends(c, d)

WriteFails(c, d) ==
    /\ loop[c][d] = "write" /\ sock[c][Target(d)] # "open"
    /\ Ends(c, d)

BothEnded(c) == \A d \in Dirs : loop[c][d] = "end"

\* Both loops have ended.
Return(c) ==
    /\ pc[c] = "bridge" /\ BothEnded(c)
    /\ Returns(c)
    /\ UNCHANGED <<fwd, forwards, owner, loop>>

\* Mutant: the handler waits for its loops only.
NeverStopped(c) == FALSE /\ UNCHANGED relayVars

\* <-f.done: the sockets are closed under the loops.
Stopped(c) ==
    /\ pc[c] = "bridge" /\ fwd[owner[c]] = "closed"
    /\ Returns(c)
    /\ UNCHANGED <<fwd, forwards, owner, loop>>

-----------------------------------------------------------------------------
RelayNext ==
    \/ \E a \in Addrs, f \in Fwds : Start(a, f)
    \/ \E a \in Addrs : Stop(a)
    \/ StopAll
    \/ \E f \in Fwds : AcceptFails(f)
    \/ \E f \in Fwds, c \in TcpConns : Accept(f, c)
    \/ \E c \in WsConns : Arrive(c) \/ Upgrade(c) \/ UpgradeFails(c)
    \/ \E c \in Conns : Dial(c) \/ DialFails(c) \/ Return(c)
    \/ \E c \in TcpConns : Stopped(c)
    \/ \E c \in Conns, s \in Sides : PeerEnds(c, s)
    \/ \E c \in Conns, d \in Dirs : Read(c, d) \/ Written(c, d) \/ ReadFails(c, d) \/ WriteFails(c, d)

\* A read of a socket that is at its end, or closed here, returns; so does a write to a
\* socket that is closed here.  Nothing else is sure to return.
WriteToClosed(c, d) == sock[c][Target(d)] = "closed" /\ WriteFails(c, d)

RelayFairness ==
    /\ \A c \in Conns : WF_relayVars(Return(c))
    /\ \A c \in TcpConns : WF_relayVars(Stopped(c))
    /\ \A c \in Conns, d \in Dirs : WF_relayVars(ReadFails(c, d)) /\ WF_relayVars(WriteToClosed(c, d))

RelaySpec == RelayInit /\ [][RelayNext]_relayVars /\ RelayFairness

-----------------------------------------------------------------------------
(* Properties                                                              *)

RelayTypeOK ==
    /\ fwd \in [Fwds -> {"new", "open", "deaf", "closed"}]
    /\ forwards \in [Addrs -> Fwds \cup {None}]
    /\ owner \in [TcpConns -> Fwds \cup {None}]
    /\ pc \in [Conns -> {"idle", "dial", "upgrade", "bridge", "returned"}]
    /\ sock \in [Conns -> [Sides -> {"none", "open", "ended", "closed"}]]
    /\ loop \in [Conns -> [Dirs -> {"none", "read", "write", "end"}]]

\* Nothing is left open that nobody will close: a handler that has returned, on
\* whatever path, leaves no socket, and a listener that is open is found by the next
\* Start, Stop or StopAll, at one address.
NothingStray ==
    /\ \A c \in Conns, s \in Sides : pc[c] = "returned" => sock[c][s] \in {"none", "closed"}
    /\ \A f \in Fwds : fwd[f] \in {"open", "deaf"} <=> \E a \in Addrs : forwards[a] = f
    /\ \A a, b \in Addrs : forwards[a] = forwards[b] /\ forwards[a] # None => a = b

\* A bridge comes down as a whole: one of WebSockets when it loses one direction, with
\* the other one blocked in a read or in a write to a peer that does not read; one of a
\* forward that is closed, those for which it was still dialling included.
BridgesComeDown ==
    /\ \A c \in WsConns : (\E d \in Dirs : loop[c][d] = "end") ~> pc[c] = "returned"
    /\ \A c \in TcpConns :
         pc[c] = "bridge" /\ fwd[owner[c]] = "closed" ~> pc[c] = "returned" /\ BothEnded(c)
=============================================================================
