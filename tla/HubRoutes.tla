----------------------------- MODULE HubRoutes ------------------------------
(***************************************************************************)
(* The backends of a hub from two sides that share no state but the        *)
(* membership of the pools: what the peers are told (RouteAnnounce), and   *)
(* what happens to users of the public ports while backends come and go    *)
(* (Ingress, whose pools are `members' here).                              *)
(***************************************************************************)
EXTENDS RouteAnnounce

CONSTANTS
  Tokens, Idle, DefaultIdle, Conns, PeekSlots, Users, MaxFlows   \* of Ingress

VARIABLES
  claims, phase, todo, range, members, made, sources, idleByPort, clients,
  tpc, tkey, tb, slots, upc, user, ub, table, idle, rpc

I == INSTANCE Ingress WITH pool <- members

ingressVars ==
  <<claims, phase, todo, range, members, made, sources, idleByPort, clients,
    tpc, tkey, tb, slots, upc, user, ub, table, idle, rpc>>

\* No client of a backend is forgotten (Ingress.EveryClientHeld).
EveryClientHeld == I!EveryClientHeld

=============================================================================
