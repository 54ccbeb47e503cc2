----------------------------- MODULE MCBandwidth ----------------------------
(***************************************************************************)
(* The scheduler and the flows that share its ids: the scheduler with the  *)
(* goroutines that use one id (BandwidthScheduler), and the table of       *)
(* outbound UDP flows, each of which registers its port's id once          *)
(* (UDPOutbound).  A behaviour follows one of the two, `side'.             *)
(***************************************************************************)
EXTENDS BandwidthScheduler, TLC

CONSTANTS r1, r2, p1, Addrs, Ids

VARIABLES
  side,
  lru, key, age, refs, fpc, dst, cur, todo, opened, registered, cleaned

F == INSTANCE UDPOutbound WITH
  pc <- fpc, Callers <- {r1, r2}, Ports <- {p1}, PortOf <- (r1 :> p1) @@ (r2 :> p1),
  MaxFlows <- 1, MaxRefs <- 2, Idle <- (p1 :> 1)

flowVars == <<lru, key, age, refs, fpc, dst, cur, todo, opened, registered, cleaned>>
MCVars == <<side, vars, flowVars>>

\* Which client address or flow id is which makes no difference.
Symmetry == Permutations(Ids) \cup Permutations(Addrs)

MCInit ==
  /\ Init /\ F!Init
  /\ \/ side = "scheduler"
     \/ side = "flows" /\ entry = 0

\* An action of one side leaves the variables of the other alone.
Schedule(A) == side = "scheduler" /\ A /\ UNCHANGED <<side, flowVars>>
Forward(A) == side = "flows" /\ A /\ UNCHANGED <<side, vars>>

MCNext ==
  \/ \E p \in Procs :
       \/ Schedule(RegisterShared(p))
       \/ Schedule(StoreShared(p))
       \/ Schedule(UnregisterShared(p))
       \/ Schedule(UnregisterCAS(p))
       \/ Schedule(UnregisterSub(p))
       \/ Schedule(UnregisterDelete(p))
       \/ Schedule(RequestSend(p))
       \/ Schedule(MarkActive(p))
       \/ Schedule(IncActive(p))
       \/ Schedule(StillThere(p))
       \/ Schedule(UndoActive(p))
       \/ Schedule(replenishDeficit(p))
       \/ Schedule(Reserve(p))
       \/ Schedule(RecordSent(p))
       \/ Schedule(RefundSend(p))
  \/ Schedule(Unregister)
  \/ Schedule(OwnerSub)
  \/ Schedule(OwnerDelete)
  \/ Schedule(checkIdleBackends)
  \/ Schedule(IdleSub)
  \/ Schedule(IdleReset)
  \/ \E c \in {r1, r2} :
       \/ \E a \in Addrs : Forward(F!Receive(c, a))
       \/ Forward(F!FastSend(c))
       \/ Forward(F!NoPeer(c))
       \/ Forward(F!CheckFull(c))
       \/ Forward(F!EvictOldest(c))
       \/ Forward(F!AddIfAbsent(c))
       \/ Forward(F!RacedSend(c))
       \/ Forward(F!Register(c))
       \/ Forward(F!SendOpen(c))
       \/ Forward(F!SendFirst(c))
  \/ \E g \in F!Goroutines : Forward(F!Cleanup(g))
  \/ \E i \in Ids :
       \/ Forward(F!DataLookup(i))
       \/ Forward(F!CloseLookup(i))
  \/ Forward(F!DataWrite)
  \/ Forward(F!CloseRemove)
  \/ Forward(F!ReapExpired)
  \/ Forward(F!Tick)

MCSpec == MCInit /\ [][MCNext]_MCVars

\* A flow is in the table, in order, or cleaned up by one goroutine, once
\* (UDPOutbound.FlowInOnePlace).
FlowInOnePlace == F!FlowInOnePlace

\* The table outgrows its limit by the racing callers at most
\* (UDPOutbound.OvershootBounded).
OvershootBounded == F!OvershootBounded

=============================================================================
