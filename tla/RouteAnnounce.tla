---------------------------- MODULE RouteAnnounce ----------------------------
(***************************************************************************)
(* How a node tells a peer which routes it serves: backends join and leave *)
(* the pools of the hub (src/internal/hub/hub.go), every change is         *)
(* announced with a version number (src/internal/peer/peer-manager.go),    *)
(* and the announcement travels through the peer's send channel, which     *)
(* outlives the connection (src/internal/peer/peer.go), to a table that    *)
(* ignores old versions (src/internal/routing/table.go).                   *)
(*                                                                         *)
(* Every backend's handler and the connection's handler is a goroutine     *)
(* that may announce; GetLocalRoutes looks at one pool at a time.  The     *)
(* link may drop and come back, and the announcing node may restart.       *)
(***************************************************************************)
EXTENDS Naturals, Sequences

CONSTANTS Hosts,        \* route keys: hostnames, wildcard patterns, ports
          Backends,
          Claims,       \* the route keys a backend's token grants
          QueueCap,     \* capacity of the peer's send channel (256)
          MaxVersion    \* bound: no new change once so many were announced

ASSUME AnnounceConstants ==
  /\ Claims \in [Backends -> SUBSET Hosts]
  /\ QueueCap \in Nat \ {0} /\ MaxVersion \in Nat
  /\ "conn" \notin Backends

VARIABLES
  pool,     \* host -> the backends of its LoadBalancerPool
  version,  \* Manager.localVersion
  pc,       \* announcing goroutine -> where it is
  left,     \* announcing goroutine -> hosts it has still to visit
  mine,     \* announcing goroutine -> the announcement it is building
  queue,    \* peerImpl.send
  link,     \* the connection: "down", "greet" (handler started), "up" (pumps run)
  wire,     \* written and not yet read by the peer
  remote    \* the peer's peerState for this connection

vars == <<pool, version, pc, left, mine, queue, link, wire, remote>>

Announcers == Backends \cup {"conn"}
Nothing == [ver |-> 0, hosts |-> {}]
LocalRoutes == {h \in Hosts : pool[h] # {}}

Init ==
  /\ pool = [h \in Hosts |-> {}]
  /\ version = 0
  /\ pc = [a \in Announcers |-> "off"]
  /\ left = [a \in Announcers |-> {}]
  /\ mine = [a \in Announcers |-> Nothing]
  /\ queue = <<>> /\ link = "down" /\ wire = <<>>
  /\ remote = Nothing

-----------------------------------------------------------------------------
(* The hub: register and unregister *)

\* handleBackendConnect, after the handshake.
BackendConnects(b) ==
  /\ pc[b] = "off" /\ version < MaxVersion
  /\ pc' = [pc EXCEPT ![b] = "register"] /\ left' = [left EXCEPT ![b] = Claims[b]]
  /\ UNCHANGED <<pool, version, mine, queue, link, wire, remote>>

register(b, h) ==
  /\ pc[b] = "register" /\ h \in left[b]
  /\ pool' = [pool EXCEPT ![h] = @ \cup {b}]
  /\ left' = [left EXCEPT ![b] = @ \ {h}]
  /\ UNCHANGED <<version, pc, mine, queue, link, wire, remote>>

BackendLeaves(b) ==
  /\ pc[b] = "on" /\ version < MaxVersion
  /\ pc' = [pc EXCEPT ![b] = "unregister"] /\ left' = [left EXCEPT ![b] = Claims[b]]
  /\ UNCHANGED <<pool, version, mine, queue, link, wire, remote>>

unregister(b, h) ==
  /\ pc[b] = "unregister" /\ h \in left[b]
  /\ pool' = [pool EXCEPT ![h] = @ \ {b}]
  /\ left' = [left EXCEPT ![b] = @ \ {h}]
  /\ UNCHANGED <<version, pc, mine, queue, link, wire, remote>>

-----------------------------------------------------------------------------
(* AnnounceLocalRoutes *)

\* Where an announcing goroutine reads the pools, and where it goes on.
Reading == [register |-> "readOn", unregister |-> "readOff", greet |-> "readConn"]
After == [readOn |-> "on", readOff |-> "off", readConn |-> "off"]

\* localVersion.Add(1), before GetLocalRoutes looks at any pool.
TakeVersion(a) ==
  /\ pc[a] \in DOMAIN Reading /\ left[a] = {}
  /\ version' = version + 1
  /\ mine' = [mine EXCEPT ![a] = [ver |-> version + 1, hosts |-> {}]]
  /\ pc' = [pc EXCEPT ![a] = Reading[@]] /\ left' = [left EXCEPT ![a] = Hosts]
  /\ UNCHANGED <<pool, queue, link, wire, remote>>

\* GetLocalRoutes: Range visits the pools one by one, HasBackends locks each.
HasBackends(a, h) ==
  /\ pc[a] \in DOMAIN After /\ h \in left[a]
  /\ mine' = [mine EXCEPT ![a].hosts = IF pool[h] # {} THEN @ \cup {h} ELSE @]
  /\ left' = [left EXCEPT ![a] = @ \ {h}]
  /\ UNCHANGED <<pool, version, pc, queue, link, wire, remote>>

\* Mutant: the version is taken when the announcement is sent, after the reads.
BroadcastLateVersion(a) ==
  /\ pc[a] \in DOMAIN After /\ left[a] = {}
  /\ version' = version + 1
  /\ queue' = IF Len(queue) < QueueCap
              THEN Append(queue, [mine[a] EXCEPT !.ver = version + 1]) ELSE queue
  /\ mine' = [mine EXCEPT ![a] = Nothing]
  /\ pc' = [pc EXCEPT ![a] = After[@]]
  /\ link' = IF pc[a] = "readConn" THEN "up" ELSE link
  /\ UNCHANGED <<pool, left, wire, remote>>

\* Mutant: the announcement of a reconnect is skipped while others are queued.
BroadcastIfEmpty(a) ==
  /\ pc[a] \in DOMAIN After /\ left[a] = {}
  /\ queue' = IF queue = <<>> THEN Append(queue, mine[a]) ELSE queue
  /\ mine' = [mine EXCEPT ![a] = Nothing]
  /\ pc' = [pc EXCEPT ![a] = After[@]]
  /\ link' = IF pc[a] = "readConn" THEN "up" ELSE link
  /\ UNCHANGED <<pool, version, left, wire, remote>>

\* broadcastToPeers: Send drops the message when the channel is full.  The
\* connection's handler then starts the pumps.
Broadcast(a) ==
  /\ pc[a] \in DOMAIN After /\ left[a] = {}
  /\ queue' = IF Len(queue) < QueueCap THEN Append(queue, mine[a]) ELSE queue
  /\ mine' = [mine EXCEPT ![a] = Nothing]
  /\ pc' = [pc EXCEPT ![a] = After[@]]
  /\ link' = IF pc[a] = "readConn" THEN "up" ELSE link
  /\ UNCHANGED <<pool, version, left, wire, remote>>

-----------------------------------------------------------------------------
(* The connection *)

\* Connect dials; handleConnection announces before it starts the pumps.
Connect ==
  /\ link = "down" /\ version < MaxVersion
  /\ link' = "greet"
  /\ pc' = [pc EXCEPT !["conn"] = "greet"]
  /\ UNCHANGED <<pool, version, left, mine, queue, wire, remote>>

writePump ==
  /\ link = "up" /\ queue # <<>>
  /\ wire' = Append(wire, Head(queue)) /\ queue' = Tail(queue)
  /\ UNCHANGED <<pool, version, pc, left, mine, link, remote>>

\* The peer's readPump: UpdateRoutesForPeer ignores a version it has seen.
UpdateRoutesForPeer ==
  /\ wire # <<>>
  /\ remote' = IF Head(wire).ver > remote.ver THEN Head(wire) ELSE remote
  /\ wire' = Tail(wire)
  /\ UNCHANGED <<pool, version, pc, left, mine, queue, link>>

\* The connection ends on both sides: what was written is lost, the peer's
\* ClearRoutesForPeer forgets us; our send channel keeps what it holds.
Disconnect ==
  /\ link = "up"
  /\ link' = "down" /\ wire' = <<>> /\ remote' = Nothing
  /\ UNCHANGED <<pool, version, pc, left, mine, queue>>

\* Our process restarts: versions begin at zero again.
Restart ==
  /\ pool' = [h \in Hosts |-> {}] /\ version' = 0
  /\ pc' = [a \in Announcers |-> "off"] /\ left' = [a \in Announcers |-> {}]
  /\ mine' = [a \in Announcers |-> Nothing]
  /\ queue' = <<>> /\ link' = "down" /\ wire' = <<>> /\ remote' = Nothing

Handler(a) ==
  \/ TakeVersion(a) \/ Broadcast(a)
  \/ \E h \in Hosts : HasBackends(a, h)

Hub(b) == \E h \in Hosts : register(b, h) \/ unregister(b, h)

Next ==
  \/ \E b \in Backends : BackendConnects(b) \/ BackendLeaves(b) \/ Hub(b)
  \/ \E a \in Announcers : Handler(a)
  \/ Connect \/ writePump \/ UpdateRoutesForPeer \/ Disconnect \/ Restart

Spec == Init /\ [][Next]_vars

\* Goroutines that can run do run, and the dialer retries; backends, the link
\* and the process owe nothing.
FairSpec ==
  /\ Spec
  /\ \A b \in Backends : WF_vars(Hub(b))
  /\ \A a \in Announcers : WF_vars(Handler(a))
  /\ WF_vars(writePump) /\ WF_vars(UpdateRoutesForPeer) /\ WF_vars(Connect)

-----------------------------------------------------------------------------
(* Properties *)

Announcement == [ver : Nat, hosts : SUBSET Hosts]

TypeOK ==
  /\ pool \in [Hosts -> SUBSET Backends] /\ version \in Nat
  /\ pc \in [Announcers -> {"off", "register", "on", "unregister", "greet"} \cup DOMAIN After]
  /\ left \in [Announcers -> SUBSET Hosts] /\ mine \in [Announcers -> Announcement]
  /\ queue \in Seq(Announcement) /\ Len(queue) <= QueueCap
  /\ link \in {"down", "greet", "up"} /\ wire \in Seq(Announcement)
  /\ remote \in Announcement

\* No backend's handler is between a change of the pools and its announcement.
Settled == \A b \in Backends : pc[b] \in {"off", "on"}

\* A version number vouches for its content: announcements built at the same
\* time read different moments of the pools and reach the peer in any order,
\* and still the one with the newest version tells the whole truth.
NewestIsTrue ==
  Settled /\ link # "down" /\ remote.ver = version => remote.hosts = LocalRoutes

\* The peer never goes back to an older announcement within a connection.
NeverBackwards ==
  [][link' = link => remote'.ver >= remote.ver]_vars

\* A route is announced only while some backend serves it: a backend that has
\* joined and not begun to leave keeps its pools non-empty.
ServedIsPooled ==
  \A b \in Backends : pc[b] \in {"readOn", "on"} => Claims[b] \subseteq LocalRoutes

\* While the link stays up and the pools do not change, the peer's table ends
\* up with our routes and keeps them.
RoutesConverge ==
  <>[](link = "up") /\ <>[][UNCHANGED pool]_pool => <>[](remote.hosts = LocalRoutes)

=============================================================================
