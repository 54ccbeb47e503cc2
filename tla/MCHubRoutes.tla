---------------------------- MODULE MCHubRoutes -----------------------------
(***************************************************************************)
(* Who serves a route key: the two sides of HubRoutes, and which member a  *)
(* pool selects (LoadBalancer).  A behaviour follows one side, `side';     *)
(* those of Ingress with users of one transport.                           *)
(***************************************************************************)
EXTENDS HubRoutes, TLC

CONSTANTS b1, b2, h1, h2, c1, u1, u2

SharedHost == (b1 :> {h1, h2}) @@ (b2 :> {h1})

VARIABLES
  side,
  backends, currentIndex, currentWeight, greatestCommonDiv, picks, settling

Members == {"a", "b", "c", "d"}

L == INSTANCE LoadBalancer WITH
  Backends <- Members,
  Weight <- [a |-> 1, b |-> 2, c |-> 4, d |-> 6]

\* b1 serves the exact name and the port, b2 the wildcard; or both serve the
\* UDP port, with different timeouts.
TCPTokens == (b1 :> {"host", "tcp"}) @@ (b2 :> {"wild"})
UDPTokens == (b1 :> {"udp"}) @@ (b2 :> {"udp"})

AnyTokens == {TCPTokens, UDPTokens}
Timeouts == (b1 :> 0) @@ (b2 :> 1)

selectVars ==
  <<backends, currentIndex, currentWeight, greatestCommonDiv, picks, settling>>
MCVars == <<side, vars, selectVars, ingressVars>>

MCInit ==
  /\ Init /\ L!Init /\ I!Init
  /\ side \in {"announce", "select", "tcp", "udp"}
  /\ claims = IF side = "udp" THEN UDPTokens ELSE TCPTokens

\* An action of one side leaves the variables of the others alone.
Announce(A) == side = "announce" /\ A /\ UNCHANGED <<side, selectVars, ingressVars>>
Pool(A) == side = "select" /\ A /\ UNCHANGED <<side, vars, ingressVars>>
Serve(A) == side \in {"tcp", "udp"} /\ A /\ UNCHANGED <<side, vars, selectVars>>

MCNext ==
  \/ \E b \in Backends :
       \/ Announce(BackendConnects(b))
       \/ Announce(BackendLeaves(b))
       \/ \E h \in Hosts :
            \/ Announce(register(b, h))
            \/ Announce(unregister(b, h))
       \/ Serve(I!Connects(b))
       \/ Serve(I!register(b))
       \/ Serve(I!trackUDPFlowIdleTimeout(b))
       \/ Serve(I!Close(b))
       \/ Serve(I!RangeClient(b))
       \/ Serve(I!RangeEnds(b))
       \/ Serve(I!unregister(b))
       \/ Serve(I!untrackUDPFlowIdleTimeout(b))
       \/ Serve(I!HandleDisconnect(b))
  \/ \E a \in Announcers :
       \/ Announce(TakeVersion(a))
       \/ \E h \in Hosts : Announce(HasBackends(a, h))
       \/ Announce(Broadcast(a))
  \/ Announce(Connect)
  \/ Announce(writePump)
  \/ Announce(UpdateRoutesForPeer)
  \/ Announce(Disconnect)
  \/ Announce(Restart)
  \/ Pool(L!Select)
  \/ \E b \in Members :
       \/ Pool(L!AddBackend(b))
       \/ Pool(L!RemoveBackend(b))
  \/ \E c \in {c1} :
       \/ side = "tcp" /\ Serve(I!gatedHandle(c))
       \/ Serve(I!PeekSNI(c))
       \/ Serve(I!PeekHTTP(c))
       \/ Serve(I!Dispatch(c))
       \/ Serve(I!AddClient(c))
       \/ Serve(I!StoreClient(c))
       \/ Serve(I!SendData(c))
       \/ Serve(I!ReadData(c))
       \/ Serve(I!ReadEnds(c))
       \/ Serve(I!RemoveClient(c))
  \/ \E u \in {u1, u2} : side = "udp" /\ Serve(I!ReadFrom(u))
  \/ Serve(I!SendDatagram)
  \/ Serve(I!DropFlow)
  \/ Serve(I!AddFlowClient)
  \/ Serve(I!StoreFlowClient)
  \/ Serve(I!AddFlow)
  \/ Serve(I!RefreshIdle)
  \/ Serve(I!evict)
  \/ Serve(I!Tick)

\* A backend's handler is one goroutine: pools first, then the announcement.
Goroutine(a) == Handler(a) \/ (a \in Backends /\ Hub(a))

\* The fairness of RouteAnnounce and of Ingress, each on its own side.
MCSpec ==
  /\ MCInit /\ [][MCNext]_MCVars
  /\ \A a \in Announcers : WF_vars(side = "announce" /\ Goroutine(a))
  /\ WF_vars(side = "announce" /\ writePump)
  /\ WF_vars(side = "announce" /\ UpdateRoutesForPeer)
  /\ WF_vars(side = "announce" /\ Connect)
  /\ I!Fairness

\* The pool's selections follow the weights (LoadBalancer.FairShare).
FairShare == L!FairShare

\* What a closed backend still holds is removed (Ingress.DeadBackendDrained).
DeadBackendDrained == I!DeadBackendDrained

=============================================================================
