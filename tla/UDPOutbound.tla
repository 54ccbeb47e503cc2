----------------------------- MODULE UDPOutbound -----------------------------
(***************************************************************************)
(* Forwarding of UDP datagrams to a peer node (src/internal/peer/          *)
(* peer-manager.go): the LRU table of outbound flows, ForwardUDP, the      *)
(* reaper, and the peer's read pump that delivers responses and closes.    *)
(*                                                                         *)
(* Every critical section of udpOutboundFlowTable.mu is one step.  byKey,  *)
(* byID and the list change only together inside those sections, so `lru'  *)
(* (front first) stands for the three.  A caller of ForwardUDP is a        *)
(* goroutine; between its steps the others run.  Time is the age of each   *)
(* flow since its last touch.  A uuid is a member of Ids that nobody still *)
(* refers to.  Sends to the peer may fail (queue full) at any time, and    *)
(* the bandwidth scheduler may refuse a datagram at any time.              *)
(***************************************************************************)
EXTENDS Integers, FiniteSets, SequencesExt

CONSTANTS Callers,      \* goroutines that call ForwardUDP
          Ports,        \* UDP relay ports; a port is also its route key
          PortOf,       \* the port a caller reads
          Addrs,        \* client addresses
          Ids,          \* uuids
          MaxFlows,     \* udpMaxFlows
          MaxRefs,      \* bound: no new datagram once a port has so many references
          Idle          \* idle timeout of each port's flows, in ticks

VARIABLES
  lru,         \* the table: flow ids, most recently touched first
  key,         \* id -> <<port, address>> of the flow
  age,         \* id -> ticks since lastSeen
  refs,        \* port -> refCounts["tunnel:<port>"] of the scheduler
  pc,          \* goroutine -> where it is
  dst,         \* goroutine -> the key of the datagram in hand
  cur,         \* goroutine -> the flow it holds a pointer to
  todo,        \* goroutine -> removed flows it has still to clean up
  opened,      \* flows whose tunnel request was handed to the peer
  registered,  \* flows whose RegisterShared was called
  cleaned      \* flows whose cleanupOutboundUDPFlow was called

vars == <<lru, key, age, refs, pc, dst, cur, todo, opened, registered, cleaned>>

Goroutines == Callers \cup {"pump", "reaper"}
Keys == Ports \X Addrs
NoFlow == "none"
NoKey == <<>>
MaxAge == 1 + Max({Idle[p] : p \in Ports})
Table == ToSet(lru)

\* The flow of key k, if the table has one (byKey).
FlowsOf(k) == {i \in Table : key[i] = k}

Without(s, i) == SelectSeq(s, LAMBDA j : j # i)

Init ==
  /\ lru = <<>>
  /\ key = [i \in Ids |-> NoKey]
  /\ age = [i \in Ids |-> 0]
  /\ refs = [p \in Ports |-> 0]
  /\ pc = [g \in Goroutines |-> "idle"]
  /\ dst = [g \in Goroutines |-> NoKey]
  /\ cur = [g \in Goroutines |-> NoFlow]
  /\ todo = [g \in Goroutines |-> <<>>]
  /\ opened = {} /\ registered = {} /\ cleaned = {}

-----------------------------------------------------------------------------
(* The table *)

\* flow.touch() and MoveToFront, as one critical section does them.
Touch(i) ==
  /\ lru' = <<i>> \o Without(lru, i)
  /\ age' = [age EXCEPT ![i] = 0]

\* Mutant: the result of remove is ignored, the caller always cleans up.
RemoveAlways(g, i) ==
  /\ lru' = Without(lru, i)
  /\ todo' = [todo EXCEPT ![g] = Append(@, i)]

\* remove(flow): only the goroutine that finds the flow in the table gets TRUE
\* and has to clean it up.
RemoveFlow(g, i) ==
  /\ lru' = Without(lru, i)
  /\ todo' = [todo EXCEPT ![g] = IF i \in Table THEN Append(@, i) ELSE @]

IsFull == Len(lru) >= MaxFlows

Expired(i) == Idle[key[i][1]] > 0 /\ age[i] > Idle[key[i][1]]

\* What reapExpired leaves: it pops the tail as long as the tail has expired.
Unexpired == Max({n \in 0 .. Len(lru) : n = 0 \/ ~Expired(lru[n])})

\* A uuid nobody refers to any more.
Fresh(i) ==
  /\ i \notin Table
  /\ \A g \in Goroutines : cur[g] # i /\ i \notin ToSet(todo[g])

-----------------------------------------------------------------------------
(* ForwardUDP *)

Ready(g, l) == pc[g] = l /\ todo[g] = <<>>
Goto(g, l) == pc' = [pc EXCEPT ![g] = l]

Return(g) ==
  /\ Goto(g, "idle")
  /\ cur' = [cur EXCEPT ![g] = NoFlow] /\ dst' = [dst EXCEPT ![g] = NoKey]

\* A datagram arrives; getByKey.
Receive(c, a) ==
  LET k == <<PortOf[c], a>> IN
  /\ Ready(c, "idle")
  /\ refs[PortOf[c]] < MaxRefs
  /\ dst' = [dst EXCEPT ![c] = k]
  /\ \/ \E i \in FlowsOf(k) : Touch(i) /\ cur' = [cur EXCEPT ![c] = i] /\ Goto(c, "fast")
     \/ FlowsOf(k) = {} /\ Goto(c, "slow") /\ UNCHANGED <<lru, age, cur>>
  /\ UNCHANGED <<key, refs, todo, opened, registered, cleaned>>

\* The datagram was handed to the peer, or the scheduler refused it.
Sent(c) == Return(c) /\ UNCHANGED <<lru, todo>>

\* Send failed: the flow is removed and, if this goroutine removed it, cleaned.
SendFails(c) == Return(c) /\ RemoveFlow(c, cur[c])

FastSend(c) ==
  /\ Ready(c, "fast")
  /\ \/ Sent(c)
     \/ /\ Goto(c, "slow") /\ cur' = [cur EXCEPT ![c] = NoFlow] /\ UNCHANGED dst
        /\ RemoveFlow(c, cur[c])
  /\ UNCHANGED <<key, age, refs, opened, registered, cleaned>>

\* GetPeerForHostname finds no peer for the route.
NoPeer(c) ==
  /\ Ready(c, "slow")
  /\ Return(c)
  /\ UNCHANGED <<lru, key, age, refs, todo, opened, registered, cleaned>>

\* Mutant: the capacity is checked one flow late.
CheckFullLate(c) ==
  /\ Ready(c, "slow")
  /\ Goto(c, IF Len(lru) > MaxFlows THEN "evict" ELSE "add")
  /\ UNCHANGED <<lru, key, age, refs, dst, cur, todo, opened, registered, cleaned>>

CheckFull(c) ==
  /\ Ready(c, "slow")
  /\ Goto(c, IF IsFull THEN "evict" ELSE "add")
  /\ UNCHANGED <<lru, key, age, refs, dst, cur, todo, opened, registered, cleaned>>

EvictOldest(c) ==
  /\ Ready(c, "evict")
  /\ Goto(c, "add")
  /\ IF lru = <<>> THEN UNCHANGED <<lru, todo>> ELSE RemoveFlow(c, Last(lru))
  /\ UNCHANGED <<key, age, refs, dst, cur, opened, registered, cleaned>>

\* addIfAbsent: the flow of a caller that came first is used, or ours is added.
AddIfAbsent(c) ==
  /\ Ready(c, "add")
  /\ \/ \E i \in FlowsOf(dst[c]) :
          /\ Touch(i)
          /\ cur' = [cur EXCEPT ![c] = i]
          /\ Goto(c, "raced")
          /\ UNCHANGED <<key, opened, registered, cleaned>>
     \/ /\ FlowsOf(dst[c]) = {}
        /\ \E i \in Ids :
             /\ Fresh(i)
             /\ Touch(i)
             /\ key' = [key EXCEPT ![i] = dst[c]]
             /\ cur' = [cur EXCEPT ![c] = i]
             /\ opened' = opened \ {i} /\ registered' = registered \ {i} /\ cleaned' = cleaned \ {i}
        /\ Goto(c, "register")
  /\ UNCHANGED <<refs, dst, todo>>

\* The datagram goes out on the flow that won the race.
RacedSend(c) ==
  /\ Ready(c, "raced")
  /\ Sent(c) \/ SendFails(c)
  /\ UNCHANGED <<key, age, refs, opened, registered, cleaned>>

\* RegisterShared(bandwidthID), after the flow is already in the table.
Register(c) ==
  /\ Ready(c, "register")
  /\ refs' = [refs EXCEPT ![dst[c][1]] = @ + 1]
  /\ registered' = registered \cup {cur[c]}
  /\ Goto(c, "open")
  /\ UNCHANGED <<lru, key, age, dst, cur, todo, opened, cleaned>>

SendOpen(c) ==
  /\ Ready(c, "open")
  /\ \/ /\ opened' = opened \cup {cur[c]}
        /\ Goto(c, "first")
        /\ UNCHANGED <<lru, todo, cur, dst>>
     \/ SendFails(c) /\ UNCHANGED opened
  /\ UNCHANGED <<key, age, refs, registered, cleaned>>

SendFirst(c) ==
  /\ Ready(c, "first")
  /\ Sent(c) \/ SendFails(c)
  /\ UNCHANGED <<key, age, refs, opened, registered, cleaned>>

\* cleanupOutboundUDPFlow: UnregisterShared does nothing for an id without
\* references; the close message is best effort.  Nobody reads the flow's
\* fields afterwards.
Cleanup(g) ==
  /\ todo[g] # <<>>
  /\ LET i == Head(todo[g]) p == key[i][1] IN
       /\ refs' = [refs EXCEPT ![p] = IF @ = 0 THEN 0 ELSE @ - 1]
       /\ cleaned' = cleaned \cup {i}
       /\ key' = [key EXCEPT ![i] = NoKey] /\ age' = [age EXCEPT ![i] = 0]
       /\ opened' = opened \ {i} /\ registered' = registered \ {i}
  /\ todo' = [todo EXCEPT ![g] = Tail(@)]
  /\ UNCHANGED <<lru, pc, dst, cur>>

-----------------------------------------------------------------------------
(* The read pump of the peer connection, and the reaper *)

\* HandleOutboundUDPData looks the flow up (getByID touches it) ...
DataLookup(i) ==
  /\ Ready("pump", "idle")
  /\ i \in Table \cap opened
  /\ Touch(i)
  /\ cur' = [cur EXCEPT !["pump"] = i] /\ Goto("pump", "write")
  /\ UNCHANGED <<key, refs, dst, todo, opened, registered, cleaned>>

\* ... and writes to the client; a write error removes the flow.
DataWrite ==
  /\ Ready("pump", "write")
  /\ Sent("pump") \/ SendFails("pump")
  /\ UNCHANGED <<key, age, refs, opened, registered, cleaned>>

\* HandleOutboundUDPClose: peekByID, then remove.
CloseLookup(i) ==
  /\ Ready("pump", "idle")
  /\ i \in Table \cap opened
  /\ cur' = [cur EXCEPT !["pump"] = i] /\ Goto("pump", "close")
  /\ UNCHANGED <<lru, key, age, refs, dst, todo, opened, registered, cleaned>>

CloseRemove ==
  /\ Ready("pump", "close")
  /\ SendFails("pump")
  /\ UNCHANGED <<key, age, refs, opened, registered, cleaned>>

ReapExpired ==
  /\ Ready("reaper", "idle")
  /\ Unexpired < Len(lru)
  /\ lru' = SubSeq(lru, 1, Unexpired)
  /\ todo' = [todo EXCEPT !["reaper"] = Reverse(SubSeq(lru, Unexpired + 1, Len(lru)))]
  /\ UNCHANGED <<key, age, refs, pc, dst, cur, opened, registered, cleaned>>

\* A tick of the clock; ages saturate above every timeout.
Tick ==
  /\ age' = [i \in Ids |-> IF i \in Table /\ age[i] < MaxAge THEN age[i] + 1 ELSE age[i]]
  /\ UNCHANGED <<lru, key, refs, pc, dst, cur, todo, opened, registered, cleaned>>

ForwardUDP(c) ==
  \/ \E a \in Addrs : Receive(c, a)
  \/ FastSend(c) \/ NoPeer(c) \/ CheckFull(c) \/ EvictOldest(c) \/ AddIfAbsent(c)
  \/ RacedSend(c) \/ Register(c) \/ SendOpen(c) \/ SendFirst(c)

Next ==
  \/ \E c \in Callers : ForwardUDP(c)
  \/ \E g \in Goroutines : Cleanup(g)
  \/ \E i \in Ids : DataLookup(i) \/ CloseLookup(i)
  \/ DataWrite \/ CloseRemove \/ ReapExpired \/ Tick

Spec == Init /\ [][Next]_vars

-----------------------------------------------------------------------------
(* Properties *)

\* Callers, pump, evictions and the reaper all add, touch and remove flows, and
\* evictOldest and reapExpired look only at the tail of the list.  A flow is in
\* one place at a time: in the table, which stays ordered by lastSeen with one
\* flow for a (client, port) key, in the hands of the one goroutine that cleans
\* it up (unregisters and closes it), or cleaned up.
Occurrences(s, i) == Cardinality({n \in DOMAIN s : s[n] = i})

FlowInOnePlace ==
  /\ \A m, n \in DOMAIN lru :
       m < n => age[lru[m]] <= age[lru[n]] /\ key[lru[m]] # key[lru[n]]
  /\ \A i \in Ids :
       LET Holders == {g \in Goroutines : i \in ToSet(todo[g])} IN
         /\ \A g \in Goroutines : Occurrences(todo[g], i) <= 1
         /\ Cardinality(Holders) <= 1
         /\ Holders # {} => i \notin Table \cup cleaned
         /\ i \in Table => i \notin cleaned

\* isFull, evictOldest and addIfAbsent are three critical sections: the table
\* can outgrow udpMaxFlows, but by no more than one flow per further caller.
OvershootBounded == Len(lru) <= MaxFlows + Cardinality(Callers) - 1

=============================================================================
