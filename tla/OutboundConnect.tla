--------------------------- MODULE OutboundConnect ---------------------------
(***************************************************************************)
(* Outbound connections: a SOCKS5 request accepted by the backend client   *)
(* (client.go, handleSocks5Conn) becomes an outbound_connect message, the  *)
(* hub dials the target for it (backend.go, handleOutboundConnect), and    *)
(* the hub's result lets the request go on.  The model follows every       *)
(* request through                                                         *)
(*   - its handler in the client, which registers the connection, asks,    *)
(*     and waits for the result with a timer;                              *)
(*   - the client's session: the two pumps, and the teardown Start runs    *)
(*     when both have ended, before it connects again;                     *)
(*   - the hub's Backend of that session: the limit on outbound            *)
(*     connections, the dialling goroutine, disconnects and Close.         *)
(* Data on an established connection is left out: ForwardCredits and       *)
(* CreditLedger follow it.  The order of messages is kept for each         *)
(* request; requests are concurrent, so every order between two of them    *)
(* can happen.                                                             *)
(***************************************************************************)
EXTENDS Integers, Sequences, FiniteSets

CONSTANTS
  Conns,          \* the SOCKS5 requests, one client ID each
  MaxOutbound,    \* maxOutboundConnsPerBackend
  MaxSessions     \* bound: sessions the client opens

ASSUME OutboundAssumption ==
  IsFiniteSet(Conns) /\ MaxOutbound \in Nat \ {0} /\ MaxSessions \in Nat \ {0}

VARIABLES
  sess,        \* the newest session
  connected,   \* Session.connected of that session
  link,        \* its websocket
  pumps,       \* which of "read" and "write" still run
  mgr,         \* Start: "run", "close" (closeAllLocalConns), "drain", "connect"
  todo,        \* what the current Range of the teardown has still to visit
  pc,          \* handleSocks5Conn of each request
  bound,       \* the session its handler captured (0: none yet)
  conn,        \* clientConn.state
  fin,         \* transitionToClosed: "check" the session, "send" the disconnect
  local,       \* localConns
  pending,     \* outboundPending
  result,      \* resultCh, of capacity one
  rd,          \* the send on a resultCh the reader is about to make
  up, down,    \* messages of each request, to the hub and to the client
  bstate,      \* Backend of each session: "open", "closing", "ranged", "closed"
  count,       \* outboundConnCount
  inFlight,    \* inFlightDials
  dial,        \* the dialling goroutine of each request
  hs,          \* the session whose Backend runs it
  clients,     \* outbound entries of the Backends' clients maps
  ids,         \* outboundIDs
  open         \* target connections not closed by the hub

sessionVars == <<sess, connected, link, pumps, mgr, todo>>
handlerVars == <<pc, bound, conn, fin, local, pending, result, rd>>
hubVars == <<bstate, count, inFlight, dial, hs, clients, ids, open>>
vars == <<sessionVars, handlerVars, up, down, hubVars>>

Sessions == 1..MaxSessions

\* A session that has been torn down completely.
Over(s) == s < sess \/ mgr = "connect"

IsConnected(s) == s = sess /\ connected

Init ==
  /\ sess = 1 /\ connected = TRUE /\ link = TRUE
  /\ pumps = {"read", "write"} /\ mgr = "run" /\ todo = {}
  /\ pc = [c \in Conns |-> "idle"] /\ bound = [c \in Conns |-> 0]
  /\ conn = [c \in Conns |-> "none"] /\ fin = [c \in Conns |-> "no"]
  /\ local = {} /\ pending = {}
  /\ result = [c \in Conns |-> "none"] /\ rd = <<>>
  /\ up = [c \in Conns |-> <<>>] /\ down = [c \in Conns |-> <<>>]
  /\ bstate = [s \in Sessions |-> "open"]
  /\ count = [s \in Sessions |-> 0] /\ inFlight = [s \in Sessions |-> 0]
  /\ dial = [c \in Conns |-> "none"] /\ hs = [c \in Conns |-> 0]
  /\ clients = {} /\ ids = {} /\ open = {}

-----------------------------------------------------------------------------
(* handleSocks5Conn *)

Step(c, from, to) == pc[c] = from /\ pc' = [pc EXCEPT ![c] = to]

\* The session is captured once; without one the request is refused.
Capture(c) ==
  /\ Step(c, "idle", "store") /\ connected
  /\ bound' = [bound EXCEPT ![c] = sess]
  /\ UNCHANGED <<sessionVars, conn, fin, local, pending, result, rd, up, down, hubVars>>

Rejected(c) ==
  /\ Step(c, "idle", "end") /\ ~connected
  /\ UNCHANGED <<sessionVars, bound, conn, fin, local, pending, result, rd, up, down, hubVars>>

StoreConn(c) ==
  /\ Step(c, "store", "pend")
  /\ conn' = [conn EXCEPT ![c] = "pending"]
  /\ local' = local \cup {c}
  /\ UNCHANGED <<sessionVars, bound, fin, pending, result, rd, up, down, hubVars>>

StorePending(c) ==
  /\ Step(c, "pend", "enqueue")
  /\ pending' = pending \cup {c}
  /\ UNCHANGED <<sessionVars, bound, conn, fin, local, result, rd, up, down, hubVars>>

\* enqueue loads the session that is active now, not the captured one.
Enqueue(c) ==
  /\ \/ connected /\ Step(c, "enqueue", "push")
     \/ ~connected /\ Step(c, "enqueue", "fail")
  /\ UNCHANGED <<sessionVars, bound, conn, fin, local, pending, result, rd, up, down, hubVars>>

\* Its select finds room in controlSend even when that session has ended since.
Push(c) ==
  /\ Step(c, "push", "check")
  /\ up' = [up EXCEPT ![c] = Append(@, "connect")]
  /\ UNCHANGED <<sessionVars, bound, conn, fin, local, pending, result, rd, down, hubVars>>

\* The enqueue times out, or the session it loaded ends first.
PushFails(c) ==
  /\ Step(c, "push", "fail")
  /\ UNCHANGED <<sessionVars, bound, conn, fin, local, pending, result, rd, up, down, hubVars>>

\* Defective form: the captured session is not looked at again.
CheckNothing(c) ==
  /\ Step(c, "check", "wait")
  /\ UNCHANGED <<sessionVars, bound, conn, fin, local, pending, result, rd, up, down, hubVars>>

\* The captured session must still be connected after the request is queued.
CheckSession(c) ==
  /\ \/ IsConnected(bound[c]) /\ Step(c, "check", "wait")
     \/ ~IsConnected(bound[c]) /\ Step(c, "check", "fail")
  /\ UNCHANGED <<sessionVars, bound, conn, fin, local, pending, result, rd, up, down, hubVars>>

TakeResult(c) ==
  /\ result[c] # "none"
  /\ \/ result[c] = "ok" /\ Step(c, "wait", "reply")
     \/ result[c] = "err" /\ Step(c, "wait", "fail")
  /\ result' = [result EXCEPT ![c] = "none"]
  /\ UNCHANGED <<sessionVars, bound, conn, fin, local, pending, rd, up, down, hubVars>>

\* outboundConnectTimeout passes, or the success reply cannot be written.
GivesUp(c) ==
  /\ Step(c, "wait", "fail") \/ Step(c, "reply", "fail")
  /\ UNCHANGED <<sessionVars, bound, conn, fin, local, pending, result, rd, up, down, hubVars>>

\* The relay starts only if the connection is still pending.
Activate(c) ==
  /\ Step(c, "reply", "end")
  /\ conn' = [conn EXCEPT ![c] = IF @ = "pending" THEN "active" ELSE @]
  /\ UNCHANGED <<sessionVars, bound, fin, local, pending, result, rd, up, down, hubVars>>

Fail(c) ==
  /\ Step(c, "fail", "close")
  /\ pending' = pending \ {c}
  /\ UNCHANGED <<sessionVars, bound, conn, fin, local, result, rd, up, down, hubVars>>

(* transitionToClosed *)

\* The compare-and-swap to Closed: one caller closes the connection.
Closed(c) ==
  LET wins == conn[c] \in {"pending", "active"}
  IN  /\ conn' = [conn EXCEPT ![c] = IF wins THEN "closed" ELSE @]
      /\ fin' = [fin EXCEPT ![c] = IF wins THEN "check" ELSE @]

FailClose(c) ==
  /\ Step(c, "close", "end") /\ Closed(c)
  /\ UNCHANGED <<sessionVars, bound, local, pending, result, rd, up, down, hubVars>>

\* The SOCKS5 client closes, or the relay of an active connection ends.
LocalEnds(c) ==
  /\ conn[c] = "active" /\ Closed(c)
  /\ UNCHANGED <<sessionVars, pc, bound, local, pending, result, rd, up, down, hubVars>>

\* finalize: a disconnect is due only if the connection's own session lives.
Finalize(c) ==
  /\ fin[c] = "check"
  /\ local' = local \ {c}
  /\ fin' = [fin EXCEPT ![c] = IF IsConnected(bound[c]) THEN "send" ELSE "no"]
  /\ UNCHANGED <<sessionVars, pc, bound, conn, pending, result, rd, up, down, hubVars>>

SendDisconnect(c) ==
  /\ fin[c] = "send" /\ fin' = [fin EXCEPT ![c] = "no"]
  /\ \/ connected /\ up' = [up EXCEPT ![c] = Append(@, "bye")]
     \/ UNCHANGED up
  /\ UNCHANGED <<sessionVars, pc, bound, conn, local, pending, result, rd, down, hubVars>>

Handler(c) ==
  \/ Capture(c) \/ Rejected(c) \/ StoreConn(c) \/ StorePending(c) \/ Enqueue(c) \/ Push(c) \/ PushFails(c)
  \/ CheckSession(c) \/ TakeResult(c) \/ GivesUp(c) \/ Activate(c) \/ Fail(c) \/ FailClose(c)
  \/ LocalEnds(c) \/ Finalize(c) \/ SendDisconnect(c)

-----------------------------------------------------------------------------
(* The client's session *)

LinkLost ==
  /\ link /\ link' = FALSE
  /\ UNCHANGED <<sess, connected, pumps, mgr, todo, handlerVars, up, down, hubVars>>

\* writePump's exit: Session.Close, and clearSendQueues.
WritePumpExits ==
  /\ "write" \in pumps /\ ~link
  /\ pumps' = pumps \ {"write"} /\ connected' = FALSE
  /\ up' = [c \in Conns |-> <<>>]
  /\ UNCHANGED <<sess, link, mgr, todo, handlerVars, down, hubVars>>

ReadPumpExits ==
  /\ "read" \in pumps /\ ~link /\ rd = <<>>
  /\ pumps' = pumps \ {"read"}
  /\ UNCHANGED <<sess, connected, link, mgr, todo, handlerVars, up, down, hubVars>>

\* handleControlMessage, EventOutboundResult: LoadAndDelete from outboundPending.
\* Messages received before the link was lost may still be read after it.
EventOutboundResult(c) ==
  /\ "read" \in pumps /\ rd = <<>>
  /\ down[c] # <<>> /\ Head(down[c]) \in {"ok", "err"}
  /\ down' = [down EXCEPT ![c] = Tail(@)]
  /\ pending' = pending \ {c}
  /\ rd' = IF c \in pending THEN <<c, Head(down[c])>> ELSE <<>>
  /\ UNCHANGED <<sessionVars, pc, bound, conn, fin, local, result, up, hubVars>>

\* "ch <- nil": blocks the shared reader while the channel is full.
SendResultToHandler ==
  /\ rd # <<>> /\ result[rd[1]] = "none"
  /\ result' = [result EXCEPT ![rd[1]] = rd[2]]
  /\ rd' = <<>>
  /\ UNCHANGED <<sessionVars, pc, bound, conn, fin, local, pending, up, down, hubVars>>

EventDisconnect(c) ==
  /\ "read" \in pumps /\ rd = <<>>
  /\ down[c] # <<>> /\ Head(down[c]) = "bye"
  /\ down' = [down EXCEPT ![c] = Tail(@)]
  /\ IF c \in local THEN Closed(c) ELSE UNCHANGED <<conn, fin>>
  /\ UNCHANGED <<sessionVars, pc, bound, local, pending, result, rd, up, hubVars>>

\* Defective form: Start does not wait for the reader.
TeardownEarly ==
  /\ mgr = "run" /\ "write" \notin pumps
  /\ mgr' = "close" /\ todo' = local
  /\ up' = [c \in Conns |-> <<>>]
  /\ UNCHANGED <<sess, connected, link, pumps, handlerVars, down, hubVars>>

\* Start, after wg.Wait: clearSendQueues, then closeAllLocalConns begins.
Teardown ==
  /\ mgr = "run" /\ pumps = {}
  /\ mgr' = "close" /\ todo' = local
  /\ up' = [c \in Conns |-> <<>>]
  /\ UNCHANGED <<sess, connected, link, pumps, handlerVars, down, hubVars>>

CloseLocal(c) ==
  /\ mgr = "close" /\ c \in todo
  /\ todo' = todo \ {c} /\ Closed(c)
  /\ UNCHANGED <<sess, connected, link, pumps, mgr, pc, bound, local, pending, result, rd,
                 up, down, hubVars>>

BeginDrain ==
  /\ mgr = "close" /\ todo = {}
  /\ mgr' = "drain" /\ todo' = pending
  /\ UNCHANGED <<sess, connected, link, pumps, handlerVars, up, down, hubVars>>

\* drainOutboundPending: delete the entry, and fail its handler if there is room.
DrainPending(c) ==
  /\ mgr = "drain" /\ c \in todo
  /\ todo' = todo \ {c}
  /\ pending' = pending \ {c}
  /\ result' = [result EXCEPT ![c] = IF @ = "none" THEN "err" ELSE @]
  /\ UNCHANGED <<sess, connected, link, pumps, mgr, pc, bound, conn, fin, local, rd,
                 up, down, hubVars>>

TeardownDone ==
  /\ mgr = "drain" /\ todo = {} /\ mgr' = "connect"
  /\ UNCHANGED <<sess, connected, link, pumps, todo, handlerVars, up, down, hubVars>>

Connect ==
  /\ mgr = "connect" /\ sess < MaxSessions
  /\ sess' = sess + 1 /\ connected' = TRUE /\ link' = TRUE
  /\ pumps' = {"read", "write"} /\ mgr' = "run"
  /\ down' = [c \in Conns |-> <<>>]
  /\ UNCHANGED <<todo, handlerVars, up, hubVars>>

Session ==
  \/ LinkLost \/ WritePumpExits \/ ReadPumpExits \/ SendResultToHandler
  \/ Teardown \/ BeginDrain \/ TeardownDone \/ Connect
  \/ \E c \in Conns : EventOutboundResult(c) \/ EventDisconnect(c) \/ CloseLocal(c)
                      \/ DrainPending(c)

-----------------------------------------------------------------------------
(* The hub's Backend *)

\* SendControlMessage: an open Backend takes the message; a dead link loses it.
Sent(c, s, m) ==
  /\ bstate[s] = "open"
  /\ down' = IF s = sess /\ link THEN [down EXCEPT ![c] = Append(@, m)] ELSE down

\* The reply may also be lost: the lane is full or the Backend is closing.
TrySend(c, s, m) == Sent(c, s, m) \/ UNCHANGED down

Goes(c, from, to) == dial[c] = from /\ dial' = [dial EXCEPT ![c] = to]

Arrives(c, m) ==
  /\ link /\ bstate[sess] = "open"
  /\ up[c] # <<>> /\ Head(up[c]) = m
  /\ up' = [up EXCEPT ![c] = Tail(@)]

\* handleOutboundConnect refuses: not allowed, a bad address, or the limit.
OutboundRefused(c) ==
  /\ Arrives(c, "connect")
  /\ TrySend(c, sess, "err")
  /\ UNCHANGED <<sessionVars, handlerVars, hubVars>>

HasSlot(s) == count[s] + inFlight[s] < MaxOutbound

OutboundConnect(c) ==
  /\ Arrives(c, "connect") /\ HasSlot(sess)
  /\ Goes(c, "none", "dial")
  /\ hs' = [hs EXCEPT ![c] = sess]
  /\ inFlight' = [inFlight EXCEPT ![sess] = @ + 1]
  /\ UNCHANGED <<sessionVars, handlerVars, down, bstate, count, clients, ids, open>>

DialFails(c) ==
  /\ Goes(c, "dial", "gone")
  /\ inFlight' = [inFlight EXCEPT ![hs[c]] = @ - 1]
  /\ TrySend(c, hs[c], "err")
  /\ UNCHANGED <<sessionVars, handlerVars, up, bstate, count, hs, clients, ids, open>>

\* The in-flight slot is given back before the connection is counted.
DialSucceeds(c) ==
  /\ Goes(c, "dial", "add")
  /\ inFlight' = [inFlight EXCEPT ![hs[c]] = @ - 1]
  /\ open' = open \cup {c}
  /\ UNCHANGED <<sessionVars, handlerVars, up, down, bstate, count, hs, clients, ids>>

\* AddOutboundClient
AddCheck(c) ==
  /\ \/ Goes(c, "add", "store") /\ bstate[hs[c]] = "open" /\ UNCHANGED open
     \/ Goes(c, "add", "gone") /\ bstate[hs[c]] # "open" /\ open' = open \ {c}
  /\ UNCHANGED <<sessionVars, handlerVars, up, down, bstate, count, inFlight, hs, clients, ids>>

AddStore(c) ==
  /\ Goes(c, "store", "id")
  /\ clients' = clients \cup {c}
  /\ UNCHANGED <<sessionVars, handlerVars, up, down, bstate, count, inFlight, hs, ids, open>>

AddID(c) ==
  /\ Goes(c, "id", "count")
  /\ ids' = ids \cup {c}
  /\ UNCHANGED <<sessionVars, handlerVars, up, down, bstate, count, inFlight, hs, clients, open>>

AddCount(c) ==
  /\ Goes(c, "count", "result")
  /\ count' = [count EXCEPT ![hs[c]] = @ + 1]
  /\ UNCHANGED <<sessionVars, handlerVars, up, down, bstate, inFlight, hs, clients, ids, open>>

\* Defective form: a failed send is only logged.
SendResultLogged(c) ==
  /\ Goes(c, "result", "load")
  /\ TrySend(c, hs[c], "ok")
  /\ UNCHANGED <<sessionVars, handlerVars, up, bstate, count, inFlight, hs, clients, ids, open>>

\* The success result; if it cannot be queued the connection is removed again.
SendResult(c) ==
  /\ \/ Goes(c, "result", "load") /\ Sent(c, hs[c], "ok")
     \/ Goes(c, "result", "remove") /\ UNCHANGED down
  /\ UNCHANGED <<sessionVars, handlerVars, up, bstate, count, inFlight, hs, clients, ids, open>>

LoadConn(c) ==
  /\ \/ c \in clients /\ Goes(c, "load", "relay")
     \/ c \notin clients /\ Goes(c, "load", "gone")
  /\ UNCHANGED <<sessionVars, handlerVars, up, down, bstate, count, inFlight, hs, clients, ids, open>>

\* readOutboundConn returns: the target or the hub closed, or SendData failed.
RelayEnds(c) ==
  /\ Goes(c, "relay", "remove")
  /\ UNCHANGED <<sessionVars, handlerVars, up, down, bstate, count, inFlight, hs, clients, ids, open>>

\* releaseOutboundSlot
ReleaseSlot(c) ==
  /\ ids' = ids \ {c}
  /\ count' = IF c \in ids THEN [count EXCEPT ![hs[c]] = @ - 1] ELSE count

RemoveClient(c) ==
  /\ Goes(c, "remove", "gone")
  /\ clients' = clients \ {c}
  /\ IF c \in clients
       THEN ReleaseSlot(c) /\ open' = open \ {c} /\ TrySend(c, hs[c], "bye")
       ELSE UNCHANGED <<ids, count, open, down>>
  /\ UNCHANGED <<sessionVars, handlerVars, up, bstate, inFlight, hs>>

\* Defective form: the slot is given back whether or not the connection is known.
HubDisconnectAlways(c) ==
  /\ Arrives(c, "bye")
  /\ clients' = clients \ {c} /\ ids' = ids \ {c}
  /\ count' = [count EXCEPT ![sess] = @ - 1]
  /\ open' = IF c \in clients THEN open \ {c} ELSE open
  /\ UNCHANGED <<sessionVars, handlerVars, down, bstate, inFlight, dial, hs>>

\* handleControlMessage, EventDisconnect: only a connection in the map of the
\* Backend that reads the message is closed.
HubDisconnect(c) ==
  /\ Arrives(c, "bye")
  /\ IF c \in clients /\ hs[c] = sess
       THEN clients' = clients \ {c} /\ ReleaseSlot(c) /\ open' = open \ {c}
       ELSE UNCHANGED <<clients, ids, count, open>>
  /\ UNCHANGED <<sessionVars, handlerVars, down, bstate, inFlight, dial, hs>>

\* Backend.Close: closed and quit, the clients map, then the outbound state.
BackendClose(s) ==
  /\ s <= sess /\ bstate[s] = "open"
  /\ bstate' = [bstate EXCEPT ![s] = "closing"]
  /\ link' = (link /\ s # sess)
  /\ UNCHANGED <<sess, connected, pumps, mgr, todo, handlerVars, up, down,
                 count, inFlight, dial, hs, clients, ids, open>>

Of(s) == {c \in Conns : hs[c] = s}

BackendRange(s) ==
  /\ bstate[s] = "closing" /\ bstate' = [bstate EXCEPT ![s] = "ranged"]
  /\ open' = open \ (clients \cap Of(s))
  /\ clients' = clients \ Of(s)
  /\ UNCHANGED <<sessionVars, handlerVars, up, down, count, inFlight, dial, hs, ids>>

BackendReset(s) ==
  /\ bstate[s] = "ranged" /\ bstate' = [bstate EXCEPT ![s] = "closed"]
  /\ ids' = ids \ Of(s)
  /\ count' = [count EXCEPT ![s] = 0]
  /\ UNCHANGED <<sessionVars, handlerVars, up, down, inFlight, dial, hs, clients, open>>

Hub ==
  \/ \E c \in Conns :
       \/ OutboundRefused(c) \/ OutboundConnect(c) \/ DialFails(c) \/ DialSucceeds(c)
       \/ AddCheck(c) \/ AddStore(c) \/ AddID(c) \/ AddCount(c) \/ SendResult(c)
       \/ LoadConn(c) \/ RelayEnds(c) \/ RemoveClient(c) \/ HubDisconnect(c)
  \/ \E s \in Sessions : BackendClose(s) \/ BackendRange(s) \/ BackendReset(s)

Next == Session \/ Hub \/ \E c \in Conns : Handler(c)

Spec == Init /\ [][Next]_vars

-----------------------------------------------------------------------------
(* Properties *)

\* Once a session is torn down no SOCKS5 handler that captured it waits for a
\* result that cannot come, and none of its connections is left open by a
\* handler that has finished (Start's teardown against handleSocks5Conn).
SessionLeavesNothing ==
  \A c \in Conns : (bound[c] # 0 /\ Over(bound[c])) =>
    /\ pc[c] = "wait" => result[c] # "none"
    /\ pc[c] \in {"wait", "reply", "end"} => conn[c] = "closed"

\* The shared reader never blocks on a handler's result channel: at most one
\* of the reader and drainOutboundPending ever sends on it.
ReaderNeverBlocks == rd # <<>> => result[rd[1]] = "none"

\* After Backend.Close no goroutine goes on relaying a target connection the
\* Backend has not closed, however Close and the dial interleave.
ClosedBackendRelaysNothing ==
  \A c \in Conns : (dial[c] = "relay" /\ bstate[hs[c]] \in {"ranged", "closed"}) => c \notin open

\* Every outbound connection that an open Backend still serves holds a slot,
\* counted or about to be: none is released twice (releaseOutboundSlot against
\* AddOutboundClient).  The check of the limit does not see those about to be
\* counted (WithinLimit), and a slot may be held for a connection that is gone.
SlotsCoverRelays ==
  \A s \in Sessions : bstate[s] = "open" =>
    count[s] + Cardinality({c \in Conns : hs[c] = s /\ dial[c] = "count"})
      >= Cardinality({c \in clients : hs[c] = s /\ dial[c] \in {"count", "result", "load", "relay"}})

\* The configured maximum of concurrent outbound connections of a Backend.
WithinLimit ==
  \A s \in Sessions : Cardinality({c \in clients : hs[c] = s}) <= MaxOutbound

=============================================================================
