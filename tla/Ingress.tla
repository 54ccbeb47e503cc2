------------------------------ MODULE Ingress ------------------------------
(***************************************************************************)
(* From the public ports to a backend, on one node: the hub's register and *)
(* unregister with the pools and the UDP idle timeouts they keep           *)
(* (src/internal/hub/hub.go), the TCP listener with its gate on concurrent *)
(* peeks and the proxy client it starts (src/internal/proxy/{listener,     *)
(* client}.go), the UDP listener of one port with its flow table and its   *)
(* reaper (src/internal/proxy/udp_listener.go), and the client map of each *)
(* backend (src/internal/hub/backend.go).                                  *)
(*                                                                         *)
(* A pool is the set of its backends: which one Select takes is            *)
(* LoadBalancer's matter.  A backend is one session: its id does not come  *)
(* back.  Credits, data and the buffered connections are BufferedConn's    *)
(* and ForwardCredits'; SendData here takes the frame or returns an error. *)
(***************************************************************************)
EXTENDS Integers, Sequences, FiniteSets

CONSTANTS
  Backends,
  Tokens,       \* what the backends' tokens may claim: functions to sets of keys
  Idle,         \* flow idle timeout of its UDP route, in whole ticks
  DefaultIdle,  \* UDPFlowIdleTimeoutDefault
  Conns,        \* TCP connections; the next user reuses the name
  PeekSlots,    \* MaxConcurrentPeeksLimit
  Users,        \* UDP client addresses
  MaxFlows      \* UDPMaxFlowsOrDefault

\* A hostname, the wildcard pattern that covers it, and two port routes.
Keys == {"host", "wild", "tcp", "udp"}
None == "none"

VARIABLES
  claims,      \* backend -> the route keys of its token
  phase,       \* backend: "off", "join", "on", "close", "leave", "gone"
  todo,        \* keys it has still to join or leave
  range,       \* clients that the Range of its Close has to visit
  pool, made,  \* members of each pool; keys that have a pool
  sources, idleByPort,  \* udpFlowIdleSources and its effective timeout (-1: none)
  clients,     \* Backend.clients
  tpc, tkey, tb,        \* TCP connection: control point, route key, backend
  slots,       \* peekSem: who holds a slot
  upc, user, ub,        \* UDP reader: control point, datagram's sender, backend
  table, idle, \* udpFlowTable: flows, front first, and idleTimeout
  rpc          \* the reaper

hubVars == <<claims, phase, todo, range, pool, made, sources, idleByPort>>
tcpVars == <<tpc, tkey, tb, slots>>
udpVars == <<upc, user, ub, table, idle, rpc>>
vars == <<hubVars, clients, tcpVars, udpVars>>

Init ==
  /\ claims \in Tokens
  /\ phase = [b \in Backends |-> "off"] /\ todo = [b \in Backends |-> {}]
  /\ range = [b \in Backends |-> {}]
  /\ pool = [k \in Keys |-> {}] /\ made = {} /\ sources = {} /\ idleByPort = -1
  /\ clients = [b \in Backends |-> {}]
  /\ tpc = [c \in Conns |-> "idle"] /\ tkey = [c \in Conns |-> None]
  /\ tb = [c \in Conns |-> None] /\ slots = {}
  /\ upc = "read" /\ user = None /\ ub = None
  /\ table = <<>> /\ idle = DefaultIdle /\ rpc = "sleep"

Closed(b) == phase[b] \in {"close", "leave", "gone"}

-----------------------------------------------------------------------------
(* The hub: register, unregister and the lookup *)

hubElse == <<claims, clients, tcpVars, udpVars>>

Connects(b) ==
  /\ phase[b] = "off"
  /\ phase' = [phase EXCEPT ![b] = "join"] /\ todo' = [todo EXCEPT ![b] = claims[b]]
  /\ UNCHANGED <<hubElse, range, pool, made, sources, idleByPort>>

register(b) ==
  \E k \in todo[b] :
    /\ phase[b] = "join"
    /\ made' = made \cup {k} /\ pool' = [pool EXCEPT ![k] = @ \cup {b}]
    /\ todo' = [todo EXCEPT ![b] = @ \ {k}]
    /\ UNCHANGED <<hubElse, phase, range, sources, idleByPort>>

\* The largest of the timeouts that registered backends ask for.
recomputeUDPFlowIdleTimeout(S) ==
  IF S = {} THEN -1 ELSE CHOOSE t \in {Idle[b] : b \in S} : \A b \in S : t >= Idle[b]

trackUDPFlowIdleTimeout(b) ==
  /\ phase[b] = "join" /\ todo[b] = {}
  /\ sources' = IF "udp" \in claims[b] THEN sources \cup {b} ELSE sources
  /\ idleByPort' = recomputeUDPFlowIdleTimeout(sources')
  /\ phase' = [phase EXCEPT ![b] = "on"]
  /\ UNCHANGED <<hubElse, todo, range, pool, made>>

\* Backend.Close: closed first, then a Range over the clients; a client stored
\* while it runs may be missed.
Close(b) ==
  /\ phase[b] = "on"
  /\ phase' = [phase EXCEPT ![b] = "close"]
  /\ range' = [range EXCEPT ![b] = clients[b]]
  /\ UNCHANGED <<hubElse, todo, pool, made, sources, idleByPort>>

RangeClient(b) ==
  \E x \in clients[b] :
    /\ phase[b] = "close"
    /\ clients' = [clients EXCEPT ![b] = @ \ {x}]
    /\ range' = [range EXCEPT ![b] = @ \ {x}]
    /\ UNCHANGED <<claims, phase, todo, pool, made, sources, idleByPort, tcpVars, udpVars>>

\* Only then does unregister take it out of the pools.
RangeEnds(b) ==
  /\ phase[b] = "close" /\ range[b] \cap clients[b] = {}
  /\ phase' = [phase EXCEPT ![b] = "leave"] /\ todo' = [todo EXCEPT ![b] = claims[b]]
  /\ range' = [range EXCEPT ![b] = {}]
  /\ UNCHANGED <<hubElse, pool, made, sources, idleByPort>>

unregister(b) ==
  \E k \in todo[b] :
    /\ phase[b] = "leave"
    /\ pool' = [pool EXCEPT ![k] = @ \ {b}]
    /\ todo' = [todo EXCEPT ![b] = @ \ {k}]
    /\ UNCHANGED <<hubElse, phase, range, made, sources, idleByPort>>

untrackUDPFlowIdleTimeout(b) ==
  /\ phase[b] = "leave" /\ todo[b] = {}
  /\ sources' = sources \ {b} /\ idleByPort' = recomputeUDPFlowIdleTimeout(sources')
  /\ phase' = [phase EXCEPT ![b] = "gone"]
  /\ UNCHANGED <<hubElse, todo, range, pool, made>>

\* EventDisconnect of the backend, or the readPump finds the buffer full.
HandleDisconnect(b) ==
  \E x \in clients[b] :
    /\ phase[b] = "on"
    /\ clients' = [clients EXCEPT ![b] = @ \ {x}]
    /\ UNCHANGED <<hubVars, tcpVars, udpVars>>

Hub(b) == register(b) \/ trackUDPFlowIdleTimeout(b) \/ RangeClient(b) \/ RangeEnds(b)
            \/ unregister(b) \/ untrackUDPFlowIdleTimeout(b)

\* The exact key first, also when its pool has run empty; then the wildcard.
SelectBackend(k) == pool[IF k = "host" /\ k \notin made THEN "wild" ELSE k]

\* SendControlMessage may find the lane full at any time.
AddClientSends(b) == ~Closed(b)

\* SendData takes the frame only from a client in the map of an open backend,
\* and may fail at any time.
SendDataTakes(b, x) == ~Closed(b) /\ x \in clients[b]

-----------------------------------------------------------------------------
(* The TCP listener: gatedHandle and handleConnection *)

tcpElse == <<hubVars, udpVars>>
Goto(c, l) == tpc' = [tpc EXCEPT ![c] = l]

\* At the limit the connection is closed at once.
gatedHandle(c) ==
  /\ tpc[c] = "idle" /\ Cardinality(slots) < PeekSlots
  /\ slots' = slots \cup {c} /\ Goto(c, "tls")
  /\ UNCHANGED <<tcpElse, clients, tkey, tb>>

\* Returns and dispatches give the slot back.
Release(c) == slots' = slots \ {c}

Routed(c, k) == Goto(c, "route") /\ tkey' = [tkey EXCEPT ![c] = k] /\ UNCHANGED slots
Dispatched(c, l) == Goto(c, l) /\ tkey' = [tkey EXCEPT ![c] = None] /\ Release(c)

\* PeekSNIAndPrelude: a server name, a hello too long to replay, or no TLS
\* (or no name) within the deadline.
PeekSNI(c) ==
  /\ tpc[c] = "tls"
  /\ \/ Routed(c, "host")
     \/ Dispatched(c, "idle")
     \/ Goto(c, "http") /\ UNCHANGED <<slots, tkey>>
  /\ UNCHANGED <<tcpElse, clients, tb>>

\* PeekHTTPHostAndPrelude: a Host, the node's own ACME challenge (served
\* without the slot) or a prelude that is too large, or the port's route.
PeekHTTP(c) ==
  /\ tpc[c] = "http"
  /\ \/ Routed(c, "host")
     \/ Dispatched(c, "idle")
     \/ Routed(c, "tcp")
  /\ UNCHANGED <<tcpElse, clients, tb>>

\* A local backend, or else a peer's tunnel (PeerTunnel) or the end.
Dispatch(c) ==
  /\ tpc[c] = "route"
  /\ \/ \E b \in SelectBackend(tkey[c]) : Dispatched(c, "add") /\ tb' = [tb EXCEPT ![c] = b]
     \/ SelectBackend(tkey[c]) = {} /\ Dispatched(c, "idle") /\ UNCHANGED tb
  /\ UNCHANGED <<tcpElse, clients>>

-----------------------------------------------------------------------------
(* Client.Start *)

startElse == <<tcpElse, tkey, slots>>

\* AddClient queues the connect message and then stores the client.
AddClient(c) ==
  /\ tpc[c] = "add"
  /\ \/ AddClientSends(tb[c]) /\ Goto(c, "store") /\ UNCHANGED tb
     \/ Goto(c, "idle") /\ tb' = [tb EXCEPT ![c] = None]
  /\ UNCHANGED <<startElse, clients>>

StoreClient(c) ==
  /\ tpc[c] = "store"
  /\ clients' = [clients EXCEPT ![tb[c]] = @ \cup {c}]
  /\ \/ Goto(c, "send")
     \/ Goto(c, "read")
  /\ UNCHANGED <<startElse, tb>>

\* The captured prelude, or what was read; any error ends the client.
SendData(c) ==
  /\ tpc[c] = "send"
  /\ \/ SendDataTakes(tb[c], c) /\ Goto(c, "read")
     \/ Goto(c, "remove")
  /\ UNCHANGED <<startElse, clients, tb>>

ReadData(c) ==
  /\ tpc[c] = "read" /\ c \in clients[tb[c]]
  /\ Goto(c, "send")
  /\ UNCHANGED <<startElse, clients, tb>>

\* EOF, an error, or an idle timeout with no recent write of the backend.
ReadEnds(c) ==
  /\ tpc[c] = "read"
  /\ Goto(c, "remove")
  /\ UNCHANGED <<startElse, clients, tb>>

RemoveClient(c) ==
  /\ tpc[c] = "remove"
  /\ clients' = [clients EXCEPT ![tb[c]] = @ \ {c}]
  /\ Goto(c, "idle") /\ tb' = [tb EXCEPT ![c] = None]
  /\ UNCHANGED startElse

Start(c) == PeekSNI(c) \/ PeekHTTP(c) \/ Dispatch(c) \/ AddClient(c) \/ StoreClient(c)
              \/ SendData(c) \/ RemoveClient(c)

-----------------------------------------------------------------------------
(* The UDP listener: reader, table and reaper *)

udpElse == <<hubVars, tcpVars>>

Flow(u, b) == [user |-> u, backend |-> b, age |-> 0]
Has(u) == {i \in DOMAIN table : table[i].user = u}
CutAt(s, i) == SubSeq(s, 1, i - 1) \o SubSeq(s, i + 1, Len(s))
Without(u) == IF Has(u) = {} THEN table ELSE CutAt(table, CHOOSE i \in Has(u) : TRUE)

\* evictLocked on list s: idle flows from the tail (the n in front are fresh),
\* then those over the limit.
Fresh(s) == {n \in 0 .. Len(s) : /\ n = 0 \/ s[n].age <= idle
                                 /\ \A i \in n + 1 .. Len(s) : s[i].age > idle}
Kept(n) == IF n > MaxFlows THEN MaxFlows ELSE n

\* Mutant: a flow over the limit is forgotten and its client left behind.
evictForgets(s) ==
  \E n \in Fresh(s) :
    /\ table' = SubSeq(s, 1, Kept(n))
    /\ UNCHANGED clients

\* Each is removed from its backend.
evictLocked(s) ==
  \E n \in Fresh(s) :
    /\ table' = SubSeq(s, 1, Kept(n))
    /\ clients' = [b \in Backends |->
         clients[b] \ {s[i].user : i \in {j \in Kept(n) + 1 .. Len(s) : s[j].backend = b}}]

NextDatagram == upc' = "read" /\ user' = None /\ ub' = None

\* A datagram: table.get touches its flow, or SelectBackend looks for a
\* backend; with none the datagram goes to ForwardUDP (UDPOutbound) or nowhere.
ReadFrom(u) ==
  /\ upc = "read" /\ user' = u
  /\ \/ \E i \in Has(u) :
          /\ table' = <<Flow(u, table[i].backend)>> \o Without(u)
          /\ upc' = "send" /\ ub' = table[i].backend
     \/ /\ Has(u) = {} /\ UNCHANGED table
        /\ \E b \in SelectBackend("udp") : upc' = "add" /\ ub' = b
  /\ UNCHANGED <<udpElse, clients, idle, rpc>>

\* Mutant: an error of SendData only loses the datagram.
SendDropsDatagram ==
  /\ upc = "send"
  /\ NextDatagram
  /\ UNCHANGED <<udpElse, clients, table, idle, rpc>>

\* Any error of SendData ends the flow.
SendDatagram ==
  /\ upc = "send"
  /\ \/ SendDataTakes(ub, user) /\ NextDatagram /\ UNCHANGED table
     \/ upc' = "drop" /\ table' = Without(user) /\ UNCHANGED <<user, ub>>
  /\ UNCHANGED <<udpElse, clients, idle, rpc>>

DropFlow ==
  /\ upc = "drop"
  /\ clients' = [clients EXCEPT ![ub] = @ \ {user}]
  /\ NextDatagram
  /\ UNCHANGED <<udpElse, table, idle, rpc>>

AddFlowClient ==
  /\ upc = "add"
  /\ NextDatagram \/ (AddClientSends(ub) /\ upc' = "store" /\ UNCHANGED <<user, ub>>)
  /\ UNCHANGED <<udpElse, clients, table, idle, rpc>>

StoreFlowClient ==
  /\ upc = "store"
  /\ clients' = [clients EXCEPT ![ub] = @ \cup {user}]
  /\ upc' = "table"
  /\ UNCHANGED <<udpElse, user, ub, table, idle, rpc>>

\* table.add, and on to the first SendData.
AddFlow ==
  /\ upc = "table"
  /\ evictLocked(<<Flow(user, ub)>> \o Without(user))
  /\ upc' = "send"
  /\ UNCHANGED <<udpElse, user, ub, idle, rpc>>

UDPReader == SendDatagram \/ DropFlow \/ AddFlowClient \/ StoreFlowClient \/ AddFlow

\* The reaper: the effective timeout, then evict.
RefreshIdle ==
  /\ rpc = "sleep"
  /\ idle' = IF idleByPort # -1 THEN idleByPort ELSE DefaultIdle
  /\ rpc' = "evict"
  /\ UNCHANGED <<udpElse, clients, upc, user, ub, table>>

evict ==
  /\ rpc = "evict"
  /\ evictLocked(table)
  /\ rpc' = "sleep"
  /\ UNCHANGED <<udpElse, upc, user, ub, idle>>

MaxAge == 1 + CHOOSE t \in {DefaultIdle} \cup {Idle[b] : b \in Backends} :
                \A b \in Backends : t >= Idle[b] /\ t >= DefaultIdle

\* Time passes for all flows.
Tick ==
  /\ \E i \in DOMAIN table : table[i].age < MaxAge
  /\ table' = [i \in DOMAIN table |->
                 [table[i] EXCEPT !.age = IF @ < MaxAge THEN @ + 1 ELSE @]]
  /\ UNCHANGED <<udpElse, clients, upc, user, ub, idle, rpc>>

-----------------------------------------------------------------------------

Next ==
  \/ \E b \in Backends : Connects(b) \/ Hub(b) \/ Close(b) \/ HandleDisconnect(b)
  \/ \E c \in Conns : gatedHandle(c) \/ Start(c) \/ ReadData(c) \/ ReadEnds(c)
  \/ \E u \in Users : ReadFrom(u)
  \/ UDPReader \/ RefreshIdle \/ evict \/ Tick

Spec == Init /\ [][Next]_vars

\* Reads end: the connection is closed when its client leaves the map, and a
\* read that sees neither data nor writes of the backend times out.
IdleRead(c) == tpc[c] = "read" /\ (Closed(tb[c]) \/ c \notin clients[tb[c]]) /\ ReadEnds(c)

\* A peek has an absolute deadline, SendData does not block for ever, and the
\* reaper's ticker and the clock go on; users and backends owe nothing.
Fairness ==
  /\ \A b \in Backends : WF_vars(Hub(b))
  /\ \A c \in Conns : WF_vars(Start(c) \/ IdleRead(c))
  /\ WF_vars(UDPReader) /\ WF_vars(table # <<>> /\ (RefreshIdle \/ evict)) /\ WF_vars(Tick)

FairSpec == Spec /\ Fairness

-----------------------------------------------------------------------------

\* Who will remove client x of backend b: the goroutine of its connection, its
\* flow's entry in the table, or the reader that has the flow in hand.
Held(b, x) ==
  \/ x \in Conns /\ tb[x] = b /\ tpc[x] \in {"read", "send", "remove"}
  \/ \E i \in Has(x) : table[i].backend = b
  \/ user = x /\ ub = b /\ upc \in {"table", "drop"}

(***************************************************************************)
(* No client of a backend is ever forgotten: whatever a Range misses, an   *)
(* eviction removes or a failed send interrupts, somebody still has it in  *)
(* hand who will remove it.                                                *)
(***************************************************************************)
EveryClientHeld == \A b \in Backends : \A x \in clients[b] : Held(b, x)

(***************************************************************************)
(* AddClient may store a client after Close has ranged over the map; it    *)
(* does not stay: the next send, the idle timeout or the reaper removes    *)
(* it.                                                                     *)
(***************************************************************************)
Remains == {b \in Backends : phase[b] = "gone" /\ clients[b] # {}}
DeadBackendDrained == Remains # {} ~> Remains = {}

=============================================================================
