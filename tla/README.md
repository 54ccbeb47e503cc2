# Verification of nexus-proxy-server

TLA+ specifications of the concurrent core of nexus-proxy-server, TLC models
that check them on small instances, and TLAPS proofs of the properties that
matter most.  Every definition that models code names its lines in
`PROJECT.json` ("map"); every property has a mutant there, a plausible bug of
the code that makes TLC find the property violated.

## 1. The system

A *nexus* node accepts connections of end users on public ports, finds out
which hostname they ask for, and relays them over one WebSocket to a *backend
client* that runs beside the service.  Nodes form a mesh: a node that has no
backend for a hostname tunnels the connection to a peer that announced it.

| Part | Source (under `src/`) | Modelled in |
|---|---|---|
| Reverse credits (service to user), client side | `client/credit_ledger.go`, `client/client.go` | `CreditLedger` |
| Reverse credits, hub side: the buffered client connection | `internal/hub/{buffered_conn,backend}.go`, `internal/netutil/graceful.go` | `BufferedConn` |
| Forward credits and pause/resume (user to service) | `internal/hub/backend.go`, `internal/proxy/client.go`, `pausable_conn.go`, `client/client.go` | `ForwardCredits` |
| What a credit-limited direction promises | (abstract) | `CreditWindow` |
| TCP tunnels between peers | `internal/peer/{peer,peer-manager,tunnel}.go` | `PeerTunnel` |
| UDP flows to a peer, origin | `internal/peer/peer-manager.go` | `UDPOutbound` |
| UDP flows from a peer, destination | `internal/peer/{udp_tunnel,peer-manager}.go`, `internal/hub/*` | `UDPInbound` |
| Bandwidth scheduler | `internal/bandwidth/scheduler.go` | `BandwidthScheduler` |
| Pools, route announcements, routing table | `internal/hub/hub.go`, `loadbalancer.go`, `internal/peer/*`, `internal/routing/table.go` | `RouteAnnounce` |
| Weighted round robin | `internal/hub/loadbalancer.go` | `LoadBalancer` |
| Public TCP and UDP listeners, backend selection, registration | `internal/proxy/{listener,udp_listener,client}.go`, `internal/hub/{hub,backend}.go` | `Ingress` |
| Handshake, claims, connecting and reconnecting | `internal/hub/{hub,backend}.go`, `client/client.go` | `SessionSetup` |
| Backend session: re-authentication, pumps, close | `internal/hub/backend.go` | `BackendReauth` |
| Health checks of idle connections | `client/client.go`, `internal/hub/backend.go` | `HealthCheck` |
| Outbound connections: SOCKS5, session teardown, hub dial | `client/client.go`, `internal/hub/backend.go` | `OutboundConnect` |
| The rest | see section 7 | not modelled |

How the parts meet.  A frame of the service passes CreditLedger, the WebSocket
and BufferedConn; the credits it spent come back the same way.  A frame of the
user passes `Client.Start` (Ingress), `Backend.SendData` (ForwardCredits), which
takes a credit, then asks the scheduler (BandwidthScheduler), and the client's
local writer.  A `TunneledConn` (PeerTunnel) is, to the destination's
proxy client, an ordinary connection, and a `tunneledUDPConn` (UDPInbound) sits
under a `bufferedConn` of its own.  `Hub.register` (RouteAnnounce, Ingress) runs
after the handshake (SessionSetup) and `unregister` after `StartPumps`
(BackendReauth) has returned.  A successful outbound connection
(OutboundConnect) is a client connection with its own ledger.  Each module
models the neighbour it needs as an environment that may do whatever the
neighbour's interface allows: `Send` may drop at any time, a lane may be full,
a scheduler may refuse.  Where two neighbours make one promise together they
are in one module: BufferedConn contains the sender's ledger (reduced to its
count, its probe and its teardown), PeerTunnel both ends of a tunnel, ForwardCredits and
SessionSetup both the hub and the client.

## 2. The modules

Atomicity is that of the Go code: a step is one atomic operation, one critical
section or one channel operation, unless the module's header says why two may
be taken together.  Payloads are counted, not carried.

**CreditLedger** - one connection of the client.  `Producer` is
`copyLocalToNexus` with `enqueueData` and `NotifyEnqueue`; `Drainer` is
`writePump` with `drainConnectionQueue` and `DrainYielded`; `Reader` handles
`EventResumeStream` and `EventOutboundResult`; `Closer` is
`transitionToClosed` with `KickstartAndClose`; `Probe` is the body of
`time.AfterFunc`.  `AddOne` keeps the 64-bit width of an unlimited ledger.
History variables count credits by origin.

**CreditWindow** - the abstract promise: the credits a sender holds and those
that are away (in frames, in counts, on their way back) never exceed the window
and the exceptions the code makes on purpose, and equal them while the
direction is `open`.  BufferedConn and both directions of PeerTunnel implement
it (`ImplementsWindow`, `ImplementsWindows`).

**BufferedConn** - one client of a backend on the hub.  The sender spends
credits and may probe; at its teardown it gets a bonus batch
(`KickstartAndClose`) and may send a last frame past the credits (`RacedFrame`).
`HandleData`/`Enqueue` are the shared readPump and
`bufferedConn.Write`; `Drain` is `drain` with the bandwidth gate, the batch, the
failed replenishment with its timer and back-off, and `flushRemaining`; the four
`Closers` are the proxy client's and the readPump's `RemoveClient`, the handler
of `EventDisconnect` (with `GracefulCloseConn`) and `Backend.Close`.

**ForwardCredits** - one client connection, both ends.  `Sender` is the loop of
`proxy.Client.Start` with `AddClient`, `SendData` and `RemoveClient`;
`HubReader` handles pause, resume and disconnect; `ClientReader` handles
connect, data and disconnect; `LocalWriter` is `writeToLocal` with
`flushForwardCredits` and its retry.

**PeerTunnel** - one tunnel.  The origin (the side that dialled the peer link)
runs `StartTunnel`, the destination `HandleTunnelRequest` and a
`TunneledConn`.  Messages of the shared link may be dropped at any `Send`.

**UDPInbound** - one UDP tunnel at its destination.  Closing it is a cycle of
calls (the tunnel's `onClose` removes the client, whose `bufferedConn` closes
the tunnel), so each of the four goroutines that may begin it (the peer's read
pump, the backend's, `Backend.Close`, and drain) is the stack of calls it is in.
`once` is the `sync.Once` of `tunneledUDPConn.Close`.

**UDPOutbound** - `ForwardUDP` as run by concurrent callers, `DataLookup`,
`CloseLookup` and what follows them on a peer's read pump, and `ReapExpired`.
`lru` stands for `byKey`, `byID` and the list, which change only together.

**BandwidthScheduler** - one backend id.  `Sending` is `RequestSend` with the
reservation loop, `RecordSent` and `RefundSend`; `Sharing` is
`RegisterShared`/`UnregisterShared`; `Owner` is the hub's `Unregister`; `Idler`
is `checkIdleBackends`.  Objects are numbered so that a goroutine can hold one
that left the map.

**RouteAnnounce** - `register`, `unregister` and the greeting of a new peer
connection, each a goroutine that takes a version, reads the pools one by one
and sends; the peer's queue, which outlives the connection; link loss, restart
of the node, and `UpdateRoutesForPeer`.

**LoadBalancer** - `AddBackend`, `RemoveBackend` (the last backend takes the
place of the removed one) and `Select`, with the position and weight that
survive changes of the pool.  `picks` remembers one round of selections.

**Ingress** - `register`/`unregister` with the pools and the idle timeouts of
UDP routes, `Close` with its `Range`; for TCP `gatedHandle`, the two peeks,
`Dispatch` and `Client.Start`; for UDP the read loop, the flow table
(`evictLocked`), its reaper and the refresh of its timeout.

**SessionSetup** - `Start` with `connectAndAuthenticate`, permanent failures and
the two pumps, against `performHandshake` and a re-authentication.  The claims
are records, and their normalisation and comparison
(`validateStage0Claims`, `buildMetadataFromClaims`, `applyClaims`) are operators.
`weather` says whether network and token provider may fail.

**BackendReauth** - one session: `reauthLoop` with `performReauth`,
`deferForMaintenance` and `sendPolicyClose`, `writePump`, `readPump`.  Ticks
pass while `reauthLoop` sleeps, asks the authorizer, waits for an answer and has
it validated.  `Close` is one step: that it may hang on a client behind a UDP
tunnel is UDPInbound's.  Comparing claims is a verdict the model
leaves open; SessionSetup has the comparison.

**HealthCheck** - one connection: `healthCheckPump` between its steps, the pong
timer and its function, the three lines of the pong handler, and the hub, which
may have lost the client and its disconnect message.

**OutboundConnect** - `handleSocks5Conn` of each request, the session with its
pumps and the teardown in `Start`, and the hub's `handleOutboundConnect`,
`AddOutboundClient`, `RemoveClient`, `EventDisconnect` and `Close`.

**ClientSession** - the three views of the client's sessions in one state:
OutboundConnect, which takes sessions as given, SessionSetup and HealthCheck.

**HubRoutes** - the backends of a hub as RouteAnnounce and Ingress see them, in
one state.

The modules `MCBandwidth`, `MCBufferedConn`, `MCClientSession` and `MCHubRoutes`
give constants their values and put specifications of neighbouring parts side
by side in one run: a variable `side` is chosen initially, and a behaviour
follows the module it names.  The modules on the other sides keep their initial
state, so each invariant is checked on the states of its own.

## 3. What TLC checks

| Run | Properties | Bounds and why they are enough |
|---|---|---|
| `credit_ledger` | NoMissedWakeup, SendsCovered; FramesMove, TeardownDrains | two frames, a queue of one, a cap of two, initial grant 0 (unlimited, old server) or 1: stall, probe, replenishment, teardown and full queue all occur, in every order |
| `reverse_window` | DropsOnlyInflated, FlushedBeforeFin; ImplementsWindow, CreditsReturn, CloseEnds, TeardownEnds | a window and a batch of two, so that a batch is the whole window; a probe, the teardown's batch and its last frame together inflate it past the buffer; the UDP side has a buffer of two and all four closers |
| `udp_inbound` | CloseReturns (violated) | a buffer of two |
| `forward_credits` | CreditsCirculate, TailDelivered, PausedHasTrigger; SenderServed | three frames against a grant of two, so that credits must come back; watermarks 2 and 1; a control lane of two that fills up; both transports |
| `forward_credits_udp` | EverySenderServed (violated) | four datagrams against a grant of three |
| `peer_tunnel` | BatchCirculates, PauseMirrored; ImplementsWindows, PipeFreed, StartTunnelEnds | capacity and batch two, two events (frames, pauses, lost links) beside any number of drops |
| `bandwidth` | CountMatchesFlags, SharedEntryLives, FlowInOnePlace, OvershootBounded | scheduler: two clients, two tunnels, sizes 1 and 2 against a cap of 2, two objects, so that one is held after it left the map; flow table: two callers of one port, a table of one, three addresses and ids; symmetric in addresses and ids |
| `bandwidth_drift` | NoPermanentDrift (violated) | two goroutines |
| `hub_routes` | NewestIsTrue, FairShare, EveryClientHeld; RoutesConverge, DeadBackendDrained | two backends that share one of two hosts, two announcements before changes stop, a queue that holds every announcement of the run; weights 1, 2, 4 and 6, with different divisors; one TCP connection and one peek slot with an exact name, a port and a wildcard, or two UDP users, a table of one and different timeouts |
| `backend_reauth` | NoFrameAfterClose, SessionBounded; FreshAnswer, PumpsEnd | interval two, jitter, grace, a health check and the validation one tick each, two rounds, two answers per challenge; a cap of three, so that two deferrals and three checks fit and the second deferral is cut |
| `client_session` | SessionLeavesNothing, ReaderNeverBlocks, ClosedBackendRelaysNothing, SlotsCoverRelays, NoWidening; Reconnects, OrphanClosed | one request over two sessions, so that a handler of the first meets the second (two requests over two sessions exceed what TLC can finish here); three configurations of the hub and claims with empty and reserved hosts, filtered ports, clamped timeouts and weights -1 to 2; two reads of the local service after the hub lost the client |
| `outbound_limit` | WithinLimit (violated) | two requests, a limit of one |

What the newer properties say, in one line each; the comments in the modules
say more.

* `ImplementsWindow(s)`: no credit is multiplied or lost on the way, except
  where the code allows it (probes, dropped messages, a closed direction).
* `DropsOnlyInflated`: a frame is dropped at a full `writeCh` only if stall
  probes, the teardown's batch and its last frame have together added more than a
  second window: a buffer of two windows takes all that a sender can hold.
* `FlushedBeforeFin`: after `EventDisconnect` what was buffered reaches the user
  before the FIN, unless a write failed or drain took longer than the 50 ms it
  is given.
* `CloseEnds`: `bufferedConn.Close` returns over TCP, also for a user who never
  reads, so the shared readPump is not lost to one client.  `TeardownEnds` is
  the same for a UDP tunnel as long as no write of drain fails.
* `FairShare`: from two rounds after a change of the pool on, each round's worth
  of selections picks each backend as often as its weight, divided by the common
  divisor, whatever position and weight the change left behind.
* `EveryClientHeld`: each client in a backend's map has a goroutine or a flow
  that will remove it.  `DeadBackendDrained`: those of a closed backend are
  removed, also those added after its `Range` passed.
* `NoWidening`: a session serves and dials nothing one of its tokens did not ask
  for.
* `SessionBounded`: the session of a backend is extended or refused within the
  interval, its jitter, the maintenance cap, one health check per deferral and
  one more, the grace and the validation.
* `SlotsCoverRelays`: no outbound slot is released twice.  It says nothing of the
  limit itself, which `outbound_limit` shows exceeded, nor of leaked slots.
* `Reconnects`: in calm weather the client has a session again.
* `OrphanClosed`: a connection the hub no longer has is closed by the health
  check, though every disconnect message may be lost.

`CHECK_DEADLOCK FALSE` is set where the modelled part really ends: a session,
connection or tunnel that is over (`backend_reauth`, `client_session`,
`outbound_limit`, `peer_tunnel`, `reverse_window`, `udp_inbound`), and where no
object or id is left to allocate (`bandwidth`, `bandwidth_drift`).

**Fairness.**  Weak fairness is assumed of goroutines that can take a step
(the Go scheduler is preemptive and fair), of an armed timer, of a dial (it has
a timeout), of the reconnect loop and of the passing of time.  None is assumed
of the end user, the local service's output, the backend, a link loss or a
restart.  Idle timeouts count only where a property is about them (`Ingress`:
an idle TCP read ends and the reaper runs); nowhere else may they or drain
timeouts rescue a stalled party.  In `ForwardCredits` the local service takes
what is written to it.
Strong fairness is assumed twice: of `QuitSeen` in `BufferedConn`, since a
`select` does not pass over a ready `quit` for ever, and of `SendPing` in
`HealthCheck`, since the write pump keeps emptying the control lane.
`CreditsReturn` states its own conditions: the user reads, the gate opens, and
the control lane is not full at every retry.

## 4. Disagreements between code and text

Each of the four violation runs checks what the repository itself says.

* **UDP forward credits** (`forward_credits_udp`).  The comment on the
  replenishment in `client.go` speaks of "both TCP and UDP", but a datagram of
  an active UDP connection is written in `handleDataMessage` and never counted.
  When the initial grant is spent the hub's sender waits until the flow's idle
  timeout.
* **Drift of activeCount** (`bandwidth_drift`).  The re-check in `RequestSend`
  is there "to prevent permanent drift", but `Unregister` looks at `isActive`
  before it deletes: marked, counted and re-checked in between, the backend
  stays counted for ever.
* **Outbound limit** (`outbound_limit`).  `max_outbound_conns_per_backend` is
  documented as a maximum; the in-flight slot is returned before the
  connection is counted, and a request checked in between is admitted.
* **Close over a UDP tunnel** (`udp_inbound`).  The comment on
  `bufferedConn.Close` says that it waits for drain to exit and is "safe to call
  multiple times".  When a write of drain fails over a `tunneledUDPConn` (a full
  send queue of the peer is enough), drain closes the tunnel itself; `onClose`,
  inside the tunnel's `sync.Once`, removes the client, and `bufferedConn.Close`
  enters the same `sync.Once` again on the drain goroutine.  The call never
  returns, and a peer's read pump that then closes the tunnel waits with it.

Behaviour met while modelling and recorded as hazards or in comments rather
than as runs:

* `writeCh` holds 64 frames whatever `MaxBuffer` grants, and stall probes can
  inflate a window past it;
* a forward-credit semaphore may be stored for a client that has just been
  removed, and `EventDisconnect` deletes none;
* a frame that arrives before `AddClient` has stored the connection is dropped
  with its credit;
* `reapExpired` looks at the tail of the LRU list only, so a port with a long
  timeout can hide expired flows of another; the destination of UDP tunnels has
  no reaper;
* `ForwardUDP` may overshoot `udpMaxFlows` by one flow per concurrent caller;
* an announcement can be dropped behind old messages when a link comes back;
* `Close` of a `TunneledConn` does not notice a dropped `PeerTunnelClose`;
* the stale-token drain can discard a very fast answer;
* a disconnect between two stores of `AddOutboundClient` leaks an outbound slot;
* the maintenance cap, "maximum cumulative extension" in
  `docs/tpm-attestation-architecture.md:79`, counts the sleeps alone: every health
  check adds up to 5 s, and past the cap the backend is challenged, where line 93
  says that the connection is dropped;
* a negative weight counts as 1 at the handshake and as a change at the next
  re-authentication;
* the pong timer is set also when the ping could not be queued, so it may close
  a live connection.

## 5. What is proved

TLAPS proves the following for every value of the constants, from the named
assumptions of the modules (`LedgerConstants`, `SchedulerConstants`,
`AnnounceConstants`, `ReauthConstants`, `ConnConstants`, `TunnelConstants`,
`OutboundAssumption`), which say no more than
that capacities are positive and in order (a batch fits the window, the window
the buffer), sets of goroutines finite and sizes within the cap.  The theorems
on `Ingress` and `SessionSetup` state what they need of the constants as
hypotheses.

* `CreditLedgerProofs`: type correctness, NoMissedWakeup and SendsCovered, and
  five invariants no run repeats: OneWakeup (at most one token for a
  connection), CapRespected, ProbeOncePerCycle, StallIsProbed and
  RacedAtMostOnce.  `IInv` adds to them where every wakeup token is
  (`WakeInv`), an account of credits by control point (`AccountInv`), the state
  of the probe under its mutex (`ProbeInv`), who is bound to arm the probe
  (`StallInv`) and why the deferred select cannot run twice (`RacedInv`).
* `BufferedConnProofs`: the hub's connection implements CreditWindow
  (`Refinement`, for safety: initial states and steps), so its credits never
  exceed the window and the exceptions (a probe's credit, the teardown's batch and
  its last frame), and equal them while it is open (`WindowKept`); a frame finds
  the buffer full only after the exceptions exceed a second window
  (`HonestSendersFit`), and the flush comes before the FIN (`FlushHolds`).  The
  inductive invariant is the type of the state, who
  may have set `quit` at which control point (`QuitInv`), and the invariant of
  the window under the refinement mapping, which bounds the frames in `writeCh`.
* `BandwidthSchedulerProofs`: type correctness, CountMatchesFlags,
  NeverOverdrawn, SharedEntryLives.  The count needs an invariant that relates
  activeCount to the set of active objects and the goroutines between a CAS
  and its addition; it is carried through by lemmas on cardinality.
* `HubRoutesProofs`, on announcements: type correctness, NewestIsTrue,
  ServedIsPooled, NeverBackwards.  The argument: a handler takes its version after
  it changed the pools and reads the pools after it took the version, so while no
  handler is in between (`Calm`) whatever carries the newest version agrees with
  the pools (`AgreeInv`).  On the public side: EveryClientHeld, for any backends,
  tokens, connections, users and sizes of the flow table.  `FlowInv` is needed
  because a failed send takes the flow out of the table before its client is
  removed: a user has one flow at most, and the backend the reader has in hand is
  that flow's.
* `PeerTunnelSteps` and `PeerTunnelProofs`: PauseMirrored, BatchCirculates, and
  that both directions of a tunnel implement CreditWindow
  (`ImplementsWindowsHolds`, for safety), so that the credits of a direction never
  exceed the initial grant and the frames sent before flow control was active
  (`CreditsBounded`).  The inductive invariant `TunnelInv` adds what orders the two
  ends: the destination does nothing before the one request (`RequestFirst`), the
  origin counts and grants nothing before it stored the tunnel's state
  (`StateFirst`, without which a late grant would add a second window), and every
  pause on the link is still in force or followed by a resume (`PauseInv`).  The
  credits on the link are the size of a set of units of its messages; the steps
  assume what that size becomes when a message is sent, received or lost
  (`Counting`), and `ChannelCounting` proves it from the library's facts on finite
  sets.
* `ClientSessionProofs`: SessionLeavesNothing, ReaderNeverBlocks,
  ClosedBackendRelaysNothing and SlotsCoverRelays, for any requests, sessions and
  limit; NoWidening, for every configuration of the hub and every set of claims,
  negative weights included.  `ClientInv` says, for each step of `handleSocks5Conn`, where its
  connection is stored and which goroutine still has to answer it; `HubInv` counts
  the connections between their store and their slot; `ClaimsInv` says that the
  metadata of a session are those of its first token and that its latest token
  asks for the same routes and the same kind of port list.
* `BackendReauthProofs`: NoFrameAfterClose, SessionBounded, FreshAnswer.
  `TimeInv` bounds, at each control point, the time passed plus what the timer
  may add.  During the maintenance it counts the deferrals behind: each of them
  slept for the interval or for all that was left of the cap, so `maintenanceUsed`
  divided by the interval bounds their number, and with it the health checks.
  `CloseInv` ties the mutex to the control points and the close frame
  to `closed`; `FreshInv` says that at most one challenge is on its way, that
  it is the newest, and that no token runs ahead of what the backend has read.

Only model-checked: all liveness (FramesMove, TeardownDrains, SenderServed,
CreditsReturn, CloseEnds, TeardownEnds, RoutesConverge, DeadBackendDrained,
PipeFreed, StartTunnelEnds, PumpsEnd, Reconnects, OrphanClosed), which is out
of the prover's reach; the modules that compute recursively, `ForwardCredits`
(it sums the credits of a lane) and `LoadBalancer` (the loop of
`Select`); and `UDPOutbound` (FlowInOnePlace, OvershootBounded), `UDPInbound` and
`HealthCheck`.

## 6. Abstractions

Logging, statistics, metrics and message formats are left out.  Time is ticks
(`UDPOutbound`, `BackendReauth`, `Ingress`) or a timeout that may fire at any
time.  `UDPOutbound` models callers of one port; the limit and the LRU order do
not depend on the port.  `RouteAnnounce` follows one peer.  `PeerTunnel` follows
a tunnel opened by the node that dialled the link; on the other side the peer
object dies with its connection.  `BufferedConn` counts frames, and its sender
is the ledger reduced to a count, its probe and its teardown, which may send one
frame past the credits (`RacedAtMostOnce` of `CreditLedger`), forgotten when the entry of its
client is removed; `CreditLedger` has the ledger's own interleavings.  `HealthCheck` assumes a hub that grants credits, so the
local service can be read a bounded number of times for a client the hub has
lost; against an old server, whose grant is unlimited, a talkative service
would keep such a connection fresh.  `SessionSetup` follows one client, and a
token is either refused by the validator or yields its claims.  Each named
bound (`Max...`) appears in a guard of the event it limits and nowhere else.

## 7. Not modelled

* Token providers, attestation and client options: HTTP, a command or a
  signature per token, with no state shared between goroutines.
* Signatures, nonces and the age of tokens: the validator's verdict is a choice.
* The bytes of TLS ClientHello, HTTP headers, SOCKS5 and STUN, and the ACME
  challenge handler: sequential parsing of one input, better served by tests.
* The network watcher of the client: it only shortens a back-off, whose length
  the model leaves open.  Back-off lengths, events and statistics likewise.
* The registration client: one goroutine with HTTP, back-off and a ticker.
* How long the close frame of a failed re-authentication takes, up to a write
  deadline for the frame under way and one for its own.
* In `BandwidthScheduler` a tunnel releases only the reference it took.  A UDP
  flow removed before its caller reaches `RegisterShared`
  (`peer-manager.go:445-469`) releases first, perhaps another flow's reference:
  `UDPOutbound` has these steps, SharedEntryLives does not speak of them.
* The round robin among the peers of a route: an index modulo a length under one
  lock; which peers a route has is `RouteAnnounce`'s.
* Configuration, hostname normalisation, protocol constants and types, the main
  programs and the stress tool.
* Compositions larger than those of section 1 (a whole path from user to
  service over two nodes) exceed what TLC can explore; the interfaces between
  the modules are the environments described there.
