------------------------ MODULE ClientSessionProofs --------------------------
(***************************************************************************)
(* What becomes of the SOCKS5 requests of a client's sessions, for any     *)
(* number of requests and of sessions, and what the hub grants a session,  *)
(* for any claims and any configuration.                                   *)
(*                                                                         *)
(* The client's part rests on who holds the one message that may ever be   *)
(* sent on a handler's result channel (outboundPending, the reader or the  *)
(* channel), and on who will still visit a connection (the handler itself, *)
(* or the teardown of the session it captured).  The hub's part rests on   *)
(* an exact count: what outboundConnCount lacks of the connections in      *)
(* outboundIDs are those about to be counted.  The claims rest on what the *)
(* hub remembers of a session: it was computed from the first token.       *)
(***************************************************************************)
EXTENDS ClientSession, TLAPS

\* A leaf that names no prover is Zenon's.
USE ZenonT(30)

-----------------------------------------------------------------------------
(* The client *)

\* Control points of handleSocks5Conn: before localConns.Store, before
\* outboundPending.Store, and from there to the end of the wait.
Unstored == {"idle", "store"}
Unregistered == {"idle", "store", "pend"}
Asking == {"enqueue", "push", "check", "wait"}

\* The sets the client's variables range over.
Types ==
  /\ sess \in Sessions /\ connected \in BOOLEAN
  /\ pumps \subseteq {"read", "write"} /\ mgr \in {"run", "close", "drain", "connect"}
  /\ todo \subseteq Conns /\ local \subseteq Conns /\ pending \subseteq Conns
  /\ pc \in [Conns -> Unregistered \cup Asking \cup {"reply", "fail", "close", "end"}]
  /\ bound \in [Conns -> 0 .. MaxSessions]
  /\ conn \in [Conns -> {"none", "pending", "active", "closed"}]
  /\ fin \in [Conns -> {"no", "check", "send"}]
  /\ result \in [Conns -> {"none", "ok", "err"}]
  /\ rd \in {<<>>} \cup (Conns \X {"ok", "err"})

\* A session's pumps end before its teardown, and a session is connected only
\* while it writes.
SessionShape ==
  /\ mgr # "run" => pumps = {}
  /\ connected => "write" \in pumps
  /\ rd # <<>> => "read" \in pumps

\* Who holds the one message that may go into a handler's result channel:
\* nobody before the request is registered, then outboundPending, the reader
\* or the channel, and one of them only.
InRead(c) == rd # <<>> /\ rd[1] = c
ResultHeld ==
  \A c \in Conns :
    /\ c \in pending => result[c] = "none" /\ ~InRead(c)
    /\ InRead(c) => result[c] = "none"
    /\ pc[c] \in Unregistered => c \notin pending /\ ~InRead(c) /\ result[c] = "none"
    /\ (mgr = "drain" /\ c \in todo) => pc[c] \notin Unregistered
    /\ pc[c] \in Asking => c \in pending \/ InRead(c) \/ result[c] # "none"

\* Who will answer a handler that waits.
WaitAnswered ==
  \A c \in Conns : pc[c] = "wait" =>
    \/ result[c] # "none"
    \/ /\ bound[c] = sess
       /\ \/ mgr = "run" /\ InRead(c)
          \/ c \in pending /\ (mgr \in {"run", "close"} \/ (mgr = "drain" /\ c \in todo))

\* Who will close a connection that its handler has registered.
ConnHeld ==
  \A c \in Conns :
    /\ pc[c] = "idle" => bound[c] = 0
    /\ pc[c] \in Unstored => conn[c] = "none"
    /\ conn[c] = "none" => pc[c] \in Unstored \/ (pc[c] = "end" /\ bound[c] = 0)
    /\ conn[c] \in {"pending", "active"} => c \in local
    /\ fin[c] # "no" => conn[c] = "closed"
    /\ (pc[c] \in {"wait", "reply", "end"} /\ bound[c] # 0 /\ conn[c] # "closed") =>
         bound[c] = sess /\ (mgr = "run" \/ (mgr = "close" /\ c \in todo))

ClientInv == Types /\ SessionShape /\ ResultHeld /\ WaitAnswered /\ ConnHeld

\* The client's invariant depends on the client's variables only.
LEMMA ClientUnchanged ==
  ASSUME ClientInv, UNCHANGED <<sess, connected, pumps, mgr, todo, handlerVars>>
  PROVE  ClientInv'
  BY SMTT(30) DEF ClientInv, Types, SessionShape, ResultHeld, WaitAnswered, ConnHeld, InRead,
     handlerVars

\* Every step of a handler, of the session's pumps and of Start's teardown keeps
\* the client's invariant.
LEMMA ClientStep ==
  ASSUME ClientInv, Session \/ \E c \in Conns : Handler(c)
  PROVE  ClientInv'
<1> USE DEF Unstored, Unregistered, Asking, InRead, sessionVars,
  handlerVars, hubVars
<1>1. ASSUME NEW c \in Conns, Capture(c)
      PROVE  ClientInv'
  BY <1>1, OutboundAssumption, SMTT(30)
     DEF ClientInv, Types, SessionShape, ResultHeld, WaitAnswered, ConnHeld, Capture, Step, Sessions
<1>2. ASSUME NEW c \in Conns, Rejected(c)
      PROVE  ClientInv'
  BY <1>2, SMTT(30) DEF ClientInv, Types, SessionShape, ResultHeld, WaitAnswered, ConnHeld,
     Rejected, Step
<1>3. ASSUME NEW c \in Conns, StoreConn(c)
      PROVE  ClientInv'
  BY <1>3, SMTT(30) DEF ClientInv, Types, SessionShape, ResultHeld, WaitAnswered, ConnHeld,
     StoreConn, Step
<1>4. ASSUME NEW c \in Conns, StorePending(c)
      PROVE  ClientInv'
  BY <1>4, SMTT(30) DEF ClientInv, Types, SessionShape, ResultHeld, WaitAnswered, ConnHeld,
     StorePending,
     Step
<1>5. ASSUME NEW c \in Conns, Enqueue(c)
      PROVE  ClientInv'
  <2>1. CASE Step(c, "enqueue", "push")
    BY <1>5, <2>1, SMTT(30) DEF ClientInv, Types, SessionShape, ResultHeld, WaitAnswered,
       ConnHeld,
       Enqueue, Step
  <2>2. CASE Step(c, "enqueue", "fail")
    BY <1>5, <2>2, SMTT(30) DEF ClientInv, Types, SessionShape, ResultHeld, WaitAnswered,
       ConnHeld,
       Enqueue, Step
  <2> QED
    BY <1>5, <2>1, <2>2 DEF Enqueue
<1>6. ASSUME NEW c \in Conns, Push(c)
      PROVE  ClientInv'
  BY <1>6, SMTT(30) DEF ClientInv, Types, SessionShape, ResultHeld, WaitAnswered, ConnHeld,
     Push, Step
<1>7. ASSUME NEW c \in Conns, PushFails(c)
      PROVE  ClientInv'
  BY <1>7, SMTT(30) DEF ClientInv, Types, SessionShape, ResultHeld, WaitAnswered, ConnHeld,
     PushFails, Step
<1>8. ASSUME NEW c \in Conns, CheckSession(c)
      PROVE  ClientInv'
  <2>1. CASE Step(c, "check", "wait")
    <3>1. Types' /\ SessionShape'
      BY <1>8, <2>1 DEF ClientInv, Types, SessionShape, CheckSession, Step, IsConnected
    <3>2. ResultHeld'
      BY <1>8, <2>1 DEF ClientInv, Types, SessionShape, ResultHeld, CheckSession, Step,
         IsConnected
    <3>3. WaitAnswered'
      BY <1>8, <2>1 DEF ClientInv, Types, SessionShape, ResultHeld, WaitAnswered,
         CheckSession, Step, IsConnected
    <3>4. ConnHeld'
      BY <1>8, <2>1, SMTT(30) DEF ClientInv, Types, SessionShape, ConnHeld, CheckSession,
         Step, IsConnected
    <3> QED
      BY <3>1, <3>2, <3>3, <3>4 DEF ClientInv
  <2>2. CASE Step(c, "check", "fail")
    <3>1. Types' /\ SessionShape'
      BY <1>8, <2>2 DEF ClientInv, Types, SessionShape, CheckSession, Step, IsConnected
    <3>2. ResultHeld'
      BY <1>8, <2>2, SMTT(30) DEF ClientInv, Types, SessionShape, ResultHeld, CheckSession,
         Step, IsConnected
    <3>3. WaitAnswered'
      BY <1>8, <2>2 DEF ClientInv, Types, SessionShape, ResultHeld, WaitAnswered,
         CheckSession, Step, IsConnected
    <3>4. ConnHeld'
      BY <1>8, <2>2, SMTT(30) DEF ClientInv, Types, SessionShape, ConnHeld, CheckSession,
         Step, IsConnected
    <3> QED
      BY <3>1, <3>2, <3>3, <3>4 DEF ClientInv
  <2> QED
    BY <1>8, <2>1, <2>2 DEF CheckSession
<1>9. ASSUME NEW c \in Conns, TakeResult(c)
      PROVE  ClientInv'
  <2>1. CASE Step(c, "wait", "reply")
    <3>1. Types' /\ SessionShape'
      BY <1>9, <2>1 DEF ClientInv, Types, SessionShape, TakeResult, Step
    <3>2. ResultHeld'
      BY <1>9, <2>1, SMTT(30) DEF ClientInv, Types, SessionShape, ResultHeld, TakeResult, Step
    <3>3. WaitAnswered'
      BY <1>9, <2>1, SMTT(30) DEF ClientInv, Types, SessionShape, ResultHeld, WaitAnswered,
         TakeResult, Step
    <3>4. ConnHeld'
      BY <1>9, <2>1, SMTT(30) DEF ClientInv, Types, SessionShape, ConnHeld, TakeResult, Step
    <3> QED
      BY <3>1, <3>2, <3>3, <3>4 DEF ClientInv
  <2>2. CASE Step(c, "wait", "fail")
    <3>1. Types' /\ SessionShape'
      BY <1>9, <2>2 DEF ClientInv, Types, SessionShape, TakeResult, Step
    <3>2. ResultHeld'
      BY <1>9, <2>2, SMTT(30) DEF ClientInv, Types, SessionShape, ResultHeld, TakeResult, Step
    <3>3. WaitAnswered'
      BY <1>9, <2>2 DEF ClientInv, Types, SessionShape, ResultHeld, WaitAnswered, TakeResult,
         Step
    <3>4. ConnHeld'
      BY <1>9, <2>2, SMTT(30) DEF ClientInv, Types, SessionShape, ConnHeld, TakeResult, Step
    <3> QED
      BY <3>1, <3>2, <3>3, <3>4 DEF ClientInv
  <2> QED
    BY <1>9, <2>1, <2>2 DEF TakeResult
<1>10. ASSUME NEW c \in Conns, GivesUp(c)
      PROVE  ClientInv'
  <2>1. CASE Step(c, "wait", "fail")
    BY <1>10, <2>1, SMTT(30) DEF ClientInv, Types, SessionShape, ResultHeld, WaitAnswered,
       ConnHeld,
       GivesUp, Step
  <2>2. CASE Step(c, "reply", "fail")
    BY <1>10, <2>2, SMTT(30) DEF ClientInv, Types, SessionShape, ResultHeld, WaitAnswered,
       ConnHeld,
       GivesUp, Step
  <2> QED
    BY <1>10, <2>1, <2>2 DEF GivesUp
<1>11. ASSUME NEW c \in Conns, Activate(c)
      PROVE  ClientInv'
  BY <1>11, SMTT(30) DEF ClientInv, Types, SessionShape, ResultHeld, WaitAnswered, ConnHeld,
     Activate, Step
<1>12. ASSUME NEW c \in Conns, Fail(c)
      PROVE  ClientInv'
  BY <1>12, SMTT(30) DEF ClientInv, Types, SessionShape, ResultHeld, WaitAnswered, ConnHeld,
     Fail, Step
<1>13. ASSUME NEW c \in Conns, FailClose(c)
      PROVE  ClientInv'
  BY <1>13, SMTT(30) DEF ClientInv, Types, SessionShape, ResultHeld, WaitAnswered, ConnHeld,
     FailClose,
     Step, Closed
<1>14. ASSUME NEW c \in Conns, LocalEnds(c)
      PROVE  ClientInv'
  BY <1>14, SMTT(30) DEF ClientInv, Types, SessionShape, ResultHeld, WaitAnswered, ConnHeld,
     LocalEnds,
     Closed
<1>15. ASSUME NEW c \in Conns, Finalize(c)
      PROVE  ClientInv'
  BY <1>15, SMTT(30) DEF ClientInv, Types, SessionShape, ResultHeld, WaitAnswered, ConnHeld,
     Finalize,
     IsConnected
<1>16. ASSUME NEW c \in Conns, SendDisconnect(c)
      PROVE  ClientInv'
  <2>1. Types' /\ SessionShape'
    BY <1>16 DEF ClientInv, Types, SessionShape, SendDisconnect
  <2>2. ResultHeld' /\ WaitAnswered'
    BY <1>16 DEF ClientInv, ResultHeld, WaitAnswered, SendDisconnect
  <2>3. ConnHeld'
    BY <1>16 DEF ClientInv, Types, ConnHeld, SendDisconnect
  <2> QED
    BY <2>1, <2>2, <2>3 DEF ClientInv
<1>17. ASSUME NEW c \in Conns, EventOutboundResult(c)
      PROVE  ClientInv'
  <2>1. Types' /\ SessionShape'
    BY <1>17 DEF ClientInv, Types, SessionShape, EventOutboundResult
  <2>2. ResultHeld'
    BY <1>17 DEF ClientInv, Types, SessionShape, ResultHeld, EventOutboundResult
  <2>3. WaitAnswered'
    BY <1>17 DEF ClientInv, Types, SessionShape, ResultHeld, WaitAnswered, EventOutboundResult
  <2>4. ConnHeld'
    BY <1>17 DEF ClientInv, Types, SessionShape, ConnHeld, EventOutboundResult
  <2> QED
    BY <2>1, <2>2, <2>3, <2>4 DEF ClientInv
<1>18. ASSUME NEW c \in Conns, EventDisconnect(c)
      PROVE  ClientInv'
  <2>1. UNCHANGED <<sess, connected, pumps, mgr, todo, pc, bound, local, pending, result, rd>>
    BY <1>18 DEF EventDisconnect
  <2>2. CASE Closed(c)
    BY <2>1, <2>2, SMTT(30) DEF ClientInv, Types, SessionShape, ResultHeld, WaitAnswered,
       ConnHeld, Closed
  <2>3. CASE UNCHANGED <<conn, fin>>
    BY <2>1, <2>3, SMTT(30) DEF ClientInv, Types, SessionShape, ResultHeld, WaitAnswered,
       ConnHeld
  <2> QED
    BY <1>18, <2>2, <2>3 DEF EventDisconnect
<1>19. ASSUME NEW c \in Conns, CloseLocal(c)
      PROVE  ClientInv'
  <2>1. Types' /\ SessionShape'
    BY <1>19 DEF ClientInv, Types, SessionShape, CloseLocal, Closed
  <2>2. ResultHeld' /\ WaitAnswered'
    BY <1>19 DEF ClientInv, ResultHeld, WaitAnswered, CloseLocal
  <2>3. ConnHeld'
    BY <1>19, SMTT(30) DEF ClientInv, Types, ConnHeld, CloseLocal, Closed
  <2> QED
    BY <2>1, <2>2, <2>3 DEF ClientInv
<1>20. ASSUME NEW c \in Conns, DrainPending(c)
      PROVE  ClientInv'
  <2>1. Types' /\ SessionShape'
    BY <1>20 DEF ClientInv, Types, SessionShape, DrainPending
  <2>2. ResultHeld'
    BY <1>20, SMTT(30) DEF ClientInv, Types, SessionShape, ResultHeld, DrainPending
  <2>3. WaitAnswered'
    BY <1>20, SMTT(30) DEF ClientInv, Types, SessionShape, ResultHeld, WaitAnswered,
       DrainPending
  <2>4. ConnHeld'
    BY <1>20 DEF ClientInv, Types, SessionShape, ConnHeld, DrainPending
  <2> QED
    BY <2>1, <2>2, <2>3, <2>4 DEF ClientInv
<1>21. CASE LinkLost
  BY <1>21, ClientUnchanged DEF LinkLost
<1>22. CASE WritePumpExits
  BY <1>22 DEF ClientInv, Types, SessionShape, ResultHeld, WaitAnswered, ConnHeld,
     WritePumpExits
<1>23. CASE ReadPumpExits
  BY <1>23 DEF ClientInv, Types, SessionShape, ResultHeld, WaitAnswered, ConnHeld, ReadPumpExits
<1>24. CASE SendResultToHandler
  <2>1. Types' /\ SessionShape'
    BY <1>24 DEF ClientInv, Types, SessionShape, SendResultToHandler
  <2>2. ResultHeld' /\ WaitAnswered'
    BY <1>24, SMTT(30) DEF ClientInv, Types, SessionShape, ResultHeld, WaitAnswered,
       SendResultToHandler
  <2>3. ConnHeld'
    BY <1>24 DEF ClientInv, ConnHeld, SendResultToHandler
  <2> QED
    BY <2>1, <2>2, <2>3 DEF ClientInv
<1>25. CASE Teardown
  BY <1>25 DEF ClientInv, Types, SessionShape, ResultHeld, WaitAnswered, ConnHeld, Teardown
<1>26. CASE BeginDrain
  BY <1>26 DEF ClientInv, Types, SessionShape, ResultHeld, WaitAnswered, ConnHeld, BeginDrain
<1>27. CASE TeardownDone
  BY <1>27 DEF ClientInv, Types, SessionShape, ResultHeld, WaitAnswered, ConnHeld, TeardownDone
<1>28. CASE Connect
  <2>1. Types' /\ SessionShape'
    BY <1>28, OutboundAssumption, SMTT(30) DEF ClientInv, Types, SessionShape, Connect, Sessions
  <2>2. ResultHeld'
    BY <1>28 DEF ClientInv, Types, SessionShape, ResultHeld, Connect
  <2>3. WaitAnswered'
    BY <1>28 DEF ClientInv, Types, SessionShape, ResultHeld, WaitAnswered, Connect
  <2>4. ConnHeld'
    BY <1>28 DEF ClientInv, Types, SessionShape, ConnHeld, Connect
  <2> QED
    BY <2>1, <2>2, <2>3, <2>4 DEF ClientInv
<1> QED
  BY <1>1, <1>2, <1>3, <1>4, <1>5, <1>6, <1>7, <1>8, <1>9, <1>10, <1>11, <1>12, <1>13, <1>14,
     <1>15, <1>16, <1>17, <1>18, <1>19, <1>20, <1>21, <1>22, <1>23, <1>24, <1>25, <1>26, <1>27,
     <1>28 DEF Session, Handler

-----------------------------------------------------------------------------
(* The hub *)

\* The sets the hub's variables range over.
HubTypes ==
  /\ bstate \in [Sessions -> {"open", "closing", "ranged", "closed"}]
  /\ count \in [Sessions -> Int]
  /\ dial \in [Conns -> {"none", "dial", "add", "store", "id", "count", "result", "load",
                         "relay", "remove", "gone"}]
  /\ hs \in [Conns -> 0 .. MaxSessions]
  /\ clients \subseteq Conns /\ ids \subseteq Conns /\ open \subseteq Conns

\* The goroutine has stored the connection in the clients map; the connections
\* about to be counted; those that hold a slot.
Stored == {"id", "count", "result", "load", "relay", "remove", "gone"}
Counting(s) == {c \in Conns : hs[c] = s /\ dial[c] = "count"}
Holding(s) == {c \in ids : hs[c] = s}

\* A target connection that is open and stored is in the clients map, until Close
\* has gone over the map; and one in the map of a Backend that has not been reset
\* has its slot once AddOutboundClient has stored its ID.
HubConn ==
  \A c \in Conns :
    /\ dial[c] # "none" => hs[c] \in Sessions
    /\ c \in ids => dial[c] \in Stored \ {"id"}
    /\ c \in clients => dial[c] \in Stored
    /\ dial[c] \in {"none", "dial"} => c \notin open
    /\ dial[c] \in Stored /\ c \in open => c \in clients
    /\ (dial[c] \in {"load", "relay"} /\ bstate[hs[c]] \in {"ranged", "closed"}) => c \notin open
    /\ (c \in clients /\ dial[c] # "id" /\ bstate[hs[c]] # "closed") => c \in ids

\* The count of a Backend that has not been reset is exact.
Slots ==
  \A s \in Sessions : bstate[s] # "closed" =>
    count[s] + Cardinality(Counting(s)) = Cardinality(Holding(s))

HubInv == HubTypes /\ HubConn /\ Slots

\* The hub's invariant depends on the hub's variables only.
LEMMA HubUnchanged ==
  ASSUME HubInv, UNCHANGED hubVars
  PROVE  HubInv'
<1>1. HubTypes' /\ HubConn'
  BY DEF HubInv, HubTypes, HubConn, hubVars
<1>2. \A s : Counting(s)' = Counting(s) /\ Holding(s)' = Holding(s)
  BY DEF hubVars, Counting, Holding
<1> QED
  BY <1>1, <1>2 DEF HubInv, Slots, hubVars

\* A step that leaves the counters and the two sets of connections alone keeps
\* the count.
LEMMA SlotsSame ==
  ASSUME HubInv, count' = count,
         \A s \in Sessions : /\ bstate'[s] # "closed" => bstate[s] # "closed"
                             /\ Counting(s)' = Counting(s) /\ Holding(s)' = Holding(s)
  PROVE  Slots'
  BY DEF HubInv, Slots

\* What counting the connections rests on: a set of them has a size, which one
\* connection more or less changes by one.
ConnsCounted ==
  \A A \in SUBSET Conns :
    /\ Cardinality(A) \in Nat
    /\ \A c \in Conns \ A : Cardinality(A \cup {c}) = Cardinality(A) + 1
    /\ \A c \in A : Cardinality(A \ {c}) = Cardinality(A) - 1
    /\ \A B \in SUBSET A : Cardinality(B) <= Cardinality(A)

\* The connections that hold a slot, and those about to be counted, are counted.
LEMMA SlotSets ==
  ASSUME ConnsCounted, HubInv, NEW s
  PROVE  /\ Counting(s) \in SUBSET Conns /\ Holding(s) \in SUBSET Conns
         /\ Cardinality(Counting(s)) \in Nat /\ Cardinality(Holding(s)) \in Nat
<1>1. Counting(s) \in SUBSET Conns /\ Holding(s) \in SUBSET Conns
  BY DEF HubInv, HubTypes, Counting, Holding
<1> QED
  BY <1>1 DEF ConnsCounted

\* releaseOutboundSlot: one connection gives back the one slot it holds.
LEMMA SlotReleased ==
  ASSUME ConnsCounted, HubInv, NEW c \in Conns, c \in ids => hs[c] \in Sessions, ReleaseSlot(c),
         UNCHANGED <<bstate, hs>>, \A s \in Sessions : Counting(s)' = Counting(s)
  PROVE  Slots'
<1>1. CASE c \notin ids
  BY <1>1, SlotsSame DEF ReleaseSlot, Holding, HubInv, HubTypes
<1>2. CASE c \in ids
  <2> SUFFICES ASSUME NEW s \in Sessions, bstate[s] # "closed"
               PROVE  count'[s] + Cardinality(Counting(s)) = Cardinality(Holding(s)')
    BY DEF Slots
  <2>1. count[s] + Cardinality(Counting(s)) = Cardinality(Holding(s)) /\ count[s] \in Int
    BY DEF HubInv, Slots, HubTypes
  <2>2. /\ Counting(s) \in SUBSET Conns /\ Holding(s) \in SUBSET Conns
        /\ Cardinality(Counting(s)) \in Nat /\ Cardinality(Holding(s)) \in Nat
    BY SlotSets
  <2>3. CASE hs[c] = s
    <3>1. Holding(s)' = Holding(s) \ {c} /\ c \in Holding(s)
      BY <1>2, <2>3 DEF Holding, ReleaseSlot
    <3>2. count'[s] = count[s] - 1
      BY <1>2, <2>3 DEF ReleaseSlot, HubInv, HubTypes
    <3> QED
      <4>1. Cardinality(Holding(s)') = Cardinality(Holding(s)) - 1
        BY <2>2, <3>1 DEF ConnsCounted
      <4> QED
        BY <2>1, <2>2, <3>2, <4>1, SMTT(30)
  <2>4. CASE hs[c] # s
    <3>1. Holding(s)' = Holding(s)
      BY <1>2, <2>4 DEF Holding, ReleaseSlot
    <3>2. count'[s] = count[s]
      BY <1>2, <2>4 DEF ReleaseSlot, HubInv, HubTypes
    <3> QED
      BY <2>1, <3>1, <3>2
  <2> QED
    BY <2>3, <2>4
<1> QED
  BY <1>1, <1>2

\* Every step of the hub's Backends keeps the hub's invariant.
LEMMA HubStep ==
  ASSUME ConnsCounted, sess \in Sessions, HubInv, Hub
  PROVE  HubInv'
<1> USE DEF Stored, sessionVars, handlerVars, hubVars, Sessions
<1>1. ASSUME NEW c \in Conns, OutboundRefused(c)
      PROVE  HubInv'
  <2>1. HubTypes' /\ HubConn'
    BY <1>1 DEF HubInv, HubTypes, HubConn, OutboundRefused, Arrives
  <2>2. Slots'
    BY <1>1, SlotsSame DEF HubInv, HubTypes, HubConn, Counting, Holding, OutboundRefused,
       Arrives
  <2> QED
    BY <2>1, <2>2 DEF HubInv
<1>2. ASSUME NEW c \in Conns, OutboundConnect(c)
      PROVE  HubInv'
  <2>1. HubTypes' /\ HubConn'
    <3>1. HubTypes'
      BY <1>2, SMTT(30) DEF HubInv, HubTypes, OutboundConnect, Goes
    <3>2. HubConn'
      BY <1>2 DEF HubInv, HubTypes, HubConn, OutboundConnect, Goes
    <3> QED
      BY <3>1, <3>2
  <2>2. Slots'
    BY <1>2, SlotsSame DEF HubInv, HubTypes, HubConn, Counting, Holding, OutboundConnect, Goes
  <2> QED
    BY <2>1, <2>2 DEF HubInv
<1>3. ASSUME NEW c \in Conns, DialFails(c)
      PROVE  HubInv'
  <2>1. HubTypes' /\ HubConn'
    BY <1>3 DEF HubInv, HubTypes, HubConn, DialFails, Goes
  <2>2. Slots'
    BY <1>3, SlotsSame DEF HubInv, HubTypes, HubConn, Counting, Holding, DialFails, Goes
  <2> QED
    BY <2>1, <2>2 DEF HubInv
<1>4. ASSUME NEW c \in Conns, DialSucceeds(c)
      PROVE  HubInv'
  <2>1. HubTypes' /\ HubConn'
    BY <1>4 DEF HubInv, HubTypes, HubConn, DialSucceeds, Goes
  <2>2. Slots'
    BY <1>4, SlotsSame DEF HubInv, HubTypes, HubConn, Counting, Holding, DialSucceeds, Goes
  <2> QED
    BY <2>1, <2>2 DEF HubInv
<1>5. ASSUME NEW c \in Conns, AddCheck(c)
      PROVE  HubInv'
  <2>1. HubTypes' /\ HubConn'
    <3>1. HubTypes'
      BY <1>5 DEF HubInv, HubTypes, AddCheck, Goes
    <3>2. HubConn'
      <4>1. CASE Goes(c, "add", "store")
        BY <1>5, <4>1 DEF HubInv, HubTypes, HubConn, AddCheck, Goes
      <4>2. CASE Goes(c, "add", "gone")
        BY <1>5, <4>2 DEF HubInv, HubTypes, HubConn, AddCheck, Goes
      <4> QED
        BY <1>5, <4>1, <4>2 DEF AddCheck
    <3> QED
      BY <3>1, <3>2
  <2>2. Slots'
    BY <1>5, SlotsSame DEF HubInv, HubTypes, HubConn, Counting, Holding, AddCheck, Goes
  <2> QED
    BY <2>1, <2>2 DEF HubInv
<1>6. ASSUME NEW c \in Conns, AddStore(c)
      PROVE  HubInv'
  <2>1. HubTypes' /\ HubConn'
    BY <1>6 DEF HubInv, HubTypes, HubConn, AddStore, Goes
  <2>2. Slots'
    BY <1>6, SlotsSame DEF HubInv, HubTypes, HubConn, Counting, Holding, AddStore, Goes
  <2> QED
    BY <2>1, <2>2 DEF HubInv
<1>7. ASSUME NEW c \in Conns, SendResult(c)
      PROVE  HubInv'
  <2>1. HubTypes' /\ HubConn'
    <3>1. CASE Goes(c, "result", "load")
      BY <1>7, <3>1 DEF HubInv, HubTypes, HubConn, SendResult, Goes, Sent
    <3>2. CASE Goes(c, "result", "remove")
      BY <1>7, <3>2 DEF HubInv, HubTypes, HubConn, SendResult, Goes
    <3> QED
      BY <1>7, <3>1, <3>2 DEF SendResult
  <2>2. Slots'
    BY <1>7, SlotsSame DEF HubInv, HubTypes, HubConn, Counting, Holding, SendResult, Goes, Sent
  <2> QED
    BY <2>1, <2>2 DEF HubInv
<1>8. ASSUME NEW c \in Conns, LoadConn(c)
      PROVE  HubInv'
  <2>1. HubTypes' /\ HubConn'
    <3>1. HubTypes'
      BY <1>8 DEF HubInv, HubTypes, LoadConn, Goes
    <3>2. HubConn'
      <4>1. CASE Goes(c, "load", "relay")
        BY <1>8, <4>1 DEF HubInv, HubTypes, HubConn, LoadConn, Goes
      <4>2. CASE Goes(c, "load", "gone")
        BY <1>8, <4>2 DEF HubInv, HubTypes, HubConn, LoadConn, Goes
      <4> QED
        BY <1>8, <4>1, <4>2 DEF LoadConn
    <3> QED
      BY <3>1, <3>2
  <2>2. Slots'
    BY <1>8, SlotsSame DEF HubInv, HubTypes, HubConn, Counting, Holding, LoadConn, Goes
  <2> QED
    BY <2>1, <2>2 DEF HubInv
<1>9. ASSUME NEW c \in Conns, RelayEnds(c)
      PROVE  HubInv'
  <2>1. HubTypes' /\ HubConn'
    BY <1>9 DEF HubInv, HubTypes, HubConn, RelayEnds, Goes
  <2>2. Slots'
    BY <1>9, SlotsSame DEF HubInv, HubTypes, HubConn, Counting, Holding, RelayEnds, Goes
  <2> QED
    BY <2>1, <2>2 DEF HubInv
<1>10. ASSUME NEW c \in Conns, AddID(c)
      PROVE  HubInv'
  <2>1. HubTypes' /\ HubConn'
    BY <1>10 DEF HubInv, HubTypes, HubConn, AddID, Goes
  <2>2. ASSUME NEW s \in Sessions, bstate[s] # "closed"
        PROVE  count'[s] + Cardinality(Counting(s)') = Cardinality(Holding(s)')
    <3>1. count[s] + Cardinality(Counting(s)) = Cardinality(Holding(s)) /\ count[s] \in Int
      BY <2>2 DEF HubInv, Slots, HubTypes
    <3>2. /\ Counting(s) \in SUBSET Conns /\ Holding(s) \in SUBSET Conns
          /\ Cardinality(Counting(s)) \in Nat /\ Cardinality(Holding(s)) \in Nat
      BY SlotSets
    <3>3. CASE hs[c] = s
      <4>1. Counting(s)' = Counting(s) \cup {c} /\ c \notin Counting(s)
        BY <1>10, <3>3 DEF HubInv, HubTypes, Counting, AddID, Goes
      <4>2. Holding(s)' = Holding(s) \cup {c} /\ c \notin Holding(s)
        BY <1>10, <3>3 DEF HubInv, HubConn, Holding, AddID, Goes
      <4>3. count'[s] = count[s]
        BY <1>10, <3>3 DEF HubInv, HubTypes, AddID, Goes
      <4>4. Cardinality(Counting(s)') = Cardinality(Counting(s)) + 1
        BY <3>2, <4>1 DEF ConnsCounted
      <4>5. Cardinality(Holding(s)') = Cardinality(Holding(s)) + 1
        BY <3>2, <4>2 DEF ConnsCounted
      <4> QED
        BY <3>1, <3>2, <4>3, <4>4, <4>5, SMTT(30)
    <3>4. CASE hs[c] # s
      <4>1. Counting(s)' = Counting(s) /\ Holding(s)' = Holding(s) /\ count'[s] = count[s]
        BY <1>10, <3>4 DEF HubInv, HubTypes, Counting, Holding, AddID, Goes
      <4> QED
        BY <3>1, <4>1
    <3> QED
      BY <3>3, <3>4
  <2>3. Slots'
    BY <1>10, <2>2 DEF Slots, AddID
  <2> QED
    BY <2>1, <2>3 DEF HubInv
<1>11. ASSUME NEW c \in Conns, AddCount(c)
      PROVE  HubInv'
  <2>1. HubTypes' /\ HubConn'
    <3>1. HubTypes'
      <4>1. hs[c] \in Sessions
        BY <1>11 DEF HubInv, HubConn, AddCount, Goes
      <4> QED
        BY <1>11, <4>1, SMTT(30) DEF HubInv, HubTypes, AddCount, Goes
    <3>2. HubConn'
      BY <1>11 DEF HubInv, HubTypes, HubConn, AddCount, Goes
    <3> QED
      BY <3>1, <3>2
  <2>2. ASSUME NEW s \in Sessions, bstate[s] # "closed"
        PROVE  count'[s] + Cardinality(Counting(s)') = Cardinality(Holding(s)')
    <3>1. count[s] + Cardinality(Counting(s)) = Cardinality(Holding(s)) /\ count[s] \in Int
      BY <2>2 DEF HubInv, Slots, HubTypes
    <3>2. /\ Counting(s) \in SUBSET Conns /\ Holding(s) \in SUBSET Conns
          /\ Cardinality(Counting(s)) \in Nat /\ Cardinality(Holding(s)) \in Nat
      BY SlotSets
    <3>3. CASE hs[c] = s
      <4>1. Counting(s)' = Counting(s) \ {c} /\ c \in Counting(s)
        BY <1>11, <3>3 DEF HubInv, HubTypes, Counting, AddCount, Goes
      <4>2. Holding(s)' = Holding(s)
        BY <1>11, <3>3 DEF HubInv, HubConn, Holding, AddCount, Goes
      <4>3. count'[s] = count[s] + 1
        BY <1>11, <3>3 DEF HubInv, HubTypes, AddCount, Goes
      <4>4. Cardinality(Counting(s)') = Cardinality(Counting(s)) - 1
        BY <3>2, <4>1 DEF ConnsCounted
      <4>5. Cardinality(Holding(s)') = Cardinality(Holding(s))
        BY <4>2
      <4> QED
        BY <3>1, <3>2, <4>3, <4>4, <4>5, SMTT(30)
    <3>4. CASE hs[c] # s
      <4>1. Counting(s)' = Counting(s) /\ Holding(s)' = Holding(s) /\ count'[s] = count[s]
        BY <1>11, <3>4 DEF HubInv, HubTypes, Counting, Holding, AddCount, Goes
      <4> QED
        BY <3>1, <4>1
    <3> QED
      BY <3>3, <3>4
  <2>3. Slots'
    BY <1>11, <2>2 DEF Slots, AddCount
  <2> QED
    BY <2>1, <2>3 DEF HubInv
<1>12. ASSUME NEW c \in Conns, RemoveClient(c)
      PROVE  HubInv'
  <2>1. CASE c \in clients
    <3>1. HubTypes' /\ HubConn'
      <4>1. HubTypes'
        <5>1. hs[c] \in Sessions
          BY <1>12 DEF HubInv, HubConn, RemoveClient, Goes
        <5>2. count' \in [Sessions -> Int]
          BY <1>12, <2>1, <5>1, SMTT(30) DEF HubInv, HubTypes, RemoveClient, ReleaseSlot
        <5> QED
          BY <1>12, <2>1, <5>1, <5>2 DEF HubInv, HubTypes, RemoveClient, ReleaseSlot, Goes
      <4>2. HubConn'
        BY <1>12, <2>1 DEF HubInv, HubTypes, HubConn, RemoveClient, ReleaseSlot, Goes
      <4> QED
        BY <4>1, <4>2
    <3>2. Slots'
      BY <1>12, <2>1, SlotReleased DEF HubInv, HubTypes, HubConn, Counting, RemoveClient, Goes
    <3> QED
      BY <3>1, <3>2 DEF HubInv
  <2>2. CASE ~(c \in clients)
    <3>1. HubTypes' /\ HubConn'
      BY <1>12, <2>2 DEF HubInv, HubTypes, HubConn, RemoveClient, Goes
    <3>2. Slots'
      BY <1>12, <2>2, SlotsSame DEF HubInv, HubTypes, Counting, Holding, RemoveClient, Goes
    <3> QED
      BY <3>1, <3>2 DEF HubInv
  <2> QED
    BY <2>1, <2>2
<1>13. ASSUME NEW c \in Conns, HubDisconnect(c)
      PROVE  HubInv'
  <2>1. CASE c \in clients /\ hs[c] = sess
    <3>1. HubTypes' /\ HubConn'
      <4>1. HubTypes'
        BY <1>13, <2>1, SMTT(30) DEF HubInv, HubTypes, HubDisconnect, ReleaseSlot
      <4>2. HubConn'
        BY <1>13, <2>1 DEF HubInv, HubTypes, HubConn, HubDisconnect, ReleaseSlot
      <4> QED
        BY <4>1, <4>2
    <3>2. Slots'
      BY <1>13, <2>1, SlotReleased DEF HubInv, HubTypes, HubConn, Counting, HubDisconnect
    <3> QED
      BY <3>1, <3>2 DEF HubInv
  <2>2. CASE ~(c \in clients /\ hs[c] = sess)
    <3>1. HubTypes' /\ HubConn'
      BY <1>13, <2>2 DEF HubInv, HubTypes, HubConn, HubDisconnect
    <3>2. Slots'
      BY <1>13, <2>2, SlotsSame DEF HubInv, HubTypes, Counting, Holding, HubDisconnect
    <3> QED
      BY <3>1, <3>2 DEF HubInv
  <2> QED
    BY <2>1, <2>2
<1>14. ASSUME NEW s \in Sessions, BackendClose(s)
      PROVE  HubInv'
  <2>1. HubTypes' /\ HubConn'
    BY <1>14 DEF HubInv, HubTypes, HubConn, Of, BackendClose
  <2>2. Slots'
    BY <1>14, SlotsSame DEF HubInv, HubTypes, Counting, Holding, BackendClose
  <2> QED
    BY <2>1, <2>2 DEF HubInv
<1>15. ASSUME NEW s \in Sessions, BackendRange(s)
      PROVE  HubInv'
  <2>1. HubTypes' /\ HubConn'
    BY <1>15 DEF HubInv, HubTypes, HubConn, Of, BackendRange
  <2>2. Slots'
    BY <1>15, SlotsSame DEF HubInv, HubTypes, Counting, Holding, BackendRange
  <2> QED
    BY <2>1, <2>2 DEF HubInv
<1>16. ASSUME NEW s \in Sessions, BackendReset(s)
      PROVE  HubInv'
  <2>1. HubTypes' /\ HubConn'
    <3>1. HubTypes'
      BY <1>16, SMTT(30) DEF HubInv, HubTypes, Of, BackendReset
    <3>2. HubConn'
      BY <1>16 DEF HubInv, HubTypes, HubConn, Of, BackendReset
    <3> QED
      BY <3>1, <3>2
  <2>2. ASSUME NEW r \in Sessions, bstate'[r] # "closed"
        PROVE  /\ bstate[r] # "closed" /\ count'[r] = count[r]
               /\ Counting(r)' = Counting(r) /\ Holding(r)' = Holding(r)
    BY <1>16, <2>2 DEF HubInv, HubTypes, Counting, Holding, Of, BackendReset
  <2>3. Slots'
    BY <2>2 DEF HubInv, Slots
  <2> QED
    BY <2>1, <2>3 DEF HubInv
<1> QED
  BY <1>1, <1>2, <1>3, <1>4, <1>5, <1>6, <1>7, <1>8, <1>9, <1>10, <1>11, <1>12, <1>13, <1>14,
     <1>15, <1>16 DEF Hub

-----------------------------------------------------------------------------
(* Both together *)

\* The client's invariant holds initially.
LEMMA ClientInit ==
  ASSUME Init
  PROVE  ClientInv
<1>1. Types
  <2>1. sess \in Sessions /\ bound \in [Conns -> 0 .. MaxSessions]
    BY OutboundAssumption, SMTT(30) DEF Init, Sessions
  <2> QED
    BY <2>1 DEF Init, Types, Unregistered
<1>2. SessionShape /\ ResultHeld
  BY DEF Init, SessionShape, ResultHeld, Unregistered, Asking, InRead
<1>3. WaitAnswered /\ ConnHeld
  BY DEF Init, WaitAnswered, ConnHeld, Unstored
<1> QED
  BY <1>1, <1>2, <1>3 DEF ClientInv

\* The hub's invariant holds initially.
LEMMA HubInit ==
  ASSUME Cardinality({}) = 0, Init
  PROVE  HubInv
<1>1. HubTypes /\ HubConn
  BY OutboundAssumption, SMTT(30) DEF Init, HubTypes, HubConn, Stored
<1>2. \A s \in Sessions : Counting(s) = {} /\ Holding(s) = {}
  <2>1. ids = {} /\ \A c \in Conns : hs[c] = 0
    BY DEF Init
  <2>2. \A s \in Sessions : s # 0
    BY SMTT(30) DEF Sessions
  <2> QED
    BY <2>1, <2>2 DEF Counting, Holding
<1>3. Slots
  <2>1. \A s \in Sessions : count[s] = 0
    BY DEF Init
  <2> QED
    BY <1>2, <2>1, SMTT(30) DEF Slots
<1> QED
  BY <1>1, <1>3 DEF HubInv

\* Every step keeps both invariants.
LEMMA OutboundStep ==
  ASSUME ConnsCounted, ClientInv, HubInv, [Next]_vars
  PROVE  ClientInv' /\ HubInv'
<1>1. CASE Session \/ \E c \in Conns : Handler(c)
  <2>1. UNCHANGED hubVars
    BY <1>1 DEF Session, Handler, LinkLost, WritePumpExits, ReadPumpExits, SendResultToHandler,
       Teardown, BeginDrain, TeardownDone, Connect, EventOutboundResult, EventDisconnect,
       CloseLocal, DrainPending, Capture, Rejected, StoreConn, StorePending, Enqueue, Push,
       PushFails, CheckSession, TakeResult, GivesUp, Activate, Fail, FailClose, LocalEnds,
       Finalize, SendDisconnect, hubVars
  <2> QED
    BY <1>1, <2>1, ClientStep, HubUnchanged
<1>2. CASE Hub
  <2>1. UNCHANGED <<sess, connected, pumps, mgr, todo, handlerVars>>
    BY <1>2 DEF Hub, OutboundRefused, OutboundConnect, DialFails, DialSucceeds, AddCheck,
       AddStore,
       AddID, AddCount, SendResult, LoadConn, RelayEnds, RemoveClient, HubDisconnect,
       BackendClose, BackendRange, BackendReset, sessionVars
  <2>2. sess \in Sessions
    BY DEF ClientInv, Types
  <2> QED
    BY <1>2, <2>1, <2>2, HubStep, ClientUnchanged
<1>3. CASE UNCHANGED vars
  <2>1. UNCHANGED <<sess, connected, pumps, mgr, todo, handlerVars>> /\ UNCHANGED hubVars
    BY <1>3 DEF vars, sessionVars
  <2> QED
    BY <2>1, ClientUnchanged, HubUnchanged
<1> QED
  BY <1>1, <1>2, <1>3 DEF Next

\* With an exact count, every connection an open Backend serves holds a slot.
LEMMA ServedHoldSlots ==
  ASSUME ConnsCounted, HubInv
  PROVE  SlotsCoverRelays
<1> SUFFICES ASSUME NEW s \in Sessions, bstate[s] = "open"
             PROVE  count[s] + Cardinality(Counting(s)) >=
                      Cardinality({c \in clients : hs[c] = s /\
                        dial[c] \in {"count", "result", "load", "relay"}})
  BY DEF SlotsCoverRelays, Counting
<1> DEFINE Served == {c \in clients : hs[c] = s /\
                                      dial[c] \in {"count", "result", "load", "relay"}}
<1>1. Served \in SUBSET Holding(s)
  BY DEF HubInv, HubTypes, HubConn, Holding
<1>2. /\ Holding(s) \in SUBSET Conns /\ Cardinality(Counting(s)) \in Nat
      /\ Cardinality(Holding(s)) \in Nat
  BY SlotSets
<1>3. Cardinality(Served) \in Nat /\ Cardinality(Served) <= Cardinality(Holding(s))
  <2> HIDE DEF Served
  <2> QED
    BY <1>1, <1>2 DEF ConnsCounted
<1>4. count[s] + Cardinality(Counting(s)) = Cardinality(Holding(s)) /\ count[s] \in Int
  BY DEF HubInv, HubTypes, Slots
<1> QED
  BY <1>2, <1>3, <1>4

-----------------------------------------------------------------------------
(* Claims *)

Claim == [hosts : SUBSET STRING, tcp : SUBSET Nat,
          udp : SUBSET [port : Nat, idle : Nat], weight : Int,
          outbound : BOOLEAN, ports : SUBSET Nat]

\* The two tokens a session remembers and those on their way are claims.
TokensTyped == tok \in [first : Claim, last : Claim] /\ toHub \in Seq(Claim)

\* What the hub has computed from the handshake token it has admitted.
MetaOfFirst ==
  hpc \in {"stage1", "session", "reauth"} => meta = S!validateStage0Claims(cfg, tok.first)

\* The latest token asks for the routes and the kind of port list it granted.
MetaOfLast ==
  S!Registered => S!SameRoutes(cfg, tok.last, meta) /\ (tok.last.ports # {}) = meta.explicit

ClaimsInv == TokensTyped /\ MetaOfFirst /\ MetaOfLast

\* The empty tokens that stand for a connection without any are claims.
LEMMA NoTokTyped == S!NoTok \in [first : Claim, last : Claim]
  BY SMTT(30) DEF S!NoTok, S!NoClaims, Claim

\* A step that leaves the hub's handler and its configuration alone keeps the
\* invariant, whatever token the client sends (issueToken, WriteMessage).
LEMMA HubUntouched ==
  ASSUME ClaimsInv, UNCHANGED <<cfg, hpc, tok, meta>>, toHub' \in Seq(Claim)
  PROVE  ClaimsInv'
<1>1. TokensTyped'
  BY DEF ClaimsInv, TokensTyped
<1>2. MetaOfFirst'
  BY DEF ClaimsInv, MetaOfFirst
<1>3. MetaOfLast'
  BY DEF ClaimsInv, MetaOfLast, S!Registered
<1> QED
  BY <1>1, <1>2, <1>3 DEF ClaimsInv

\* handleBackendConnect's error path and the end of a session forget the claims.
LEMMA HubForgets ==
  ASSUME NEW frames, S!HubEnds(frames), toHub' \in Seq(Claim)
  PROVE  ClaimsInv'
  BY NoTokTyped DEF S!HubEnds, ClaimsInv, TokensTyped, MetaOfFirst, MetaOfLast,
     S!Registered

\* What the hub reads is a claim, and what is left are claims.
LEMMA ReadsClaim ==
  ASSUME TokensTyped, toHub # <<>>
  PROVE  Head(toHub) \in Claim /\ Tail(toHub) \in Seq(Claim)
  BY SMTT(30) DEF TokensTyped

\* Sending a token of the provider keeps the queue a queue of claims.
LEMMA SendsClaim ==
  ASSUME Tokens \subseteq Claim, Good \in Claim, TokensTyped,
         NEW t \in S!Issued, S!SendToken(t)
  PROVE  toHub' \in Seq(Claim)
<1>1. t \in Claim
  BY DEF S!Issued
<1> QED
  BY <1>1, SMTT(30) DEF S!SendToken, TokensTyped

\* Every step of the hub and of the client keeps the invariant.
LEMMA ClaimsStep ==
  ASSUME Tokens \subseteq Claim, Good \in Claim, ClaimsInv, [S!Next]_(S!vars)
  PROVE  ClaimsInv'
<1> USE DEF ClaimsInv
<1>1. CASE S!ReadStage0
  <2>1. Head(toHub) \in Claim /\ toHub' \in Seq(Claim) /\ cfg' = cfg
    BY <1>1, ReadsClaim DEF S!ReadStage0, S!hubElse
  <2>2. CASE S!Refused(cfg, Head(toHub))
    BY <1>1, <2>1, <2>2, HubForgets DEF S!ReadStage0
  <2>3. CASE ~S!Refused(cfg, Head(toHub))
    <3>1. /\ meta' = S!validateStage0Claims(cfg, Head(toHub))
          /\ tok' = [first |-> Head(toHub), last |-> Head(toHub)] /\ hpc' = "stage1"
      BY <1>1, <2>3 DEF S!ReadStage0
    <3>2. TokensTyped'
      BY <2>1, <3>1 DEF TokensTyped
    <3>3. MetaOfFirst'
      BY <2>1, <3>1 DEF MetaOfFirst
    <3> QED
      BY <3>1, <3>2, <3>3 DEF MetaOfLast, S!Registered
  <2> QED
    BY <2>2, <2>3
<1>2. CASE S!ReadStage1
  <2>1. Head(toHub) \in Claim /\ toHub' \in Seq(Claim) /\ cfg' = cfg /\ hpc = "stage1"
    BY <1>2, ReadsClaim DEF S!ReadStage1, S!hubElse
  <2>2. CASE ~S!buildMetadataFromClaims(cfg, Head(toHub), meta)
    BY <1>2, <2>1, <2>2, HubForgets DEF S!ReadStage1
  <2>3. CASE S!buildMetadataFromClaims(cfg, Head(toHub), meta)
    <3>1. meta' = meta /\ tok' = [tok EXCEPT !.last = Head(toHub)] /\ hpc' = "session"
      BY <1>2, <2>3 DEF S!ReadStage1
    <3>2. TokensTyped' /\ tok'.first = tok.first /\ tok'.last = Head(toHub)
      BY <2>1, <3>1 DEF TokensTyped
    <3>3. MetaOfFirst'
      BY <2>1, <3>1, <3>2 DEF MetaOfFirst
    <3>4. S!SameRoutes(cfg, Head(toHub), meta) /\ (Head(toHub).ports # {}) = meta.explicit
      BY <2>3 DEF S!buildMetadataFromClaims
    <3> QED
      BY <2>1, <3>1, <3>2, <3>3, <3>4 DEF MetaOfLast
  <2> QED
    BY <2>2, <2>3
<1>3. CASE S!processReauthToken
  <2>1. Head(toHub) \in Claim /\ toHub' \in Seq(Claim) /\ cfg' = cfg /\ hpc = "reauth"
    BY <1>3, ReadsClaim DEF S!processReauthToken, S!hubElse
  <2>2. CASE ~S!applyClaims(cfg, Head(toHub), meta)
    BY <1>3, <2>1, <2>2, HubForgets DEF S!processReauthToken
  <2>3. CASE S!applyClaims(cfg, Head(toHub), meta)
    <3>1. meta' = meta /\ tok' = [tok EXCEPT !.last = Head(toHub)] /\ hpc' = "session"
      BY <1>3, <2>3 DEF S!processReauthToken
    <3>2. TokensTyped' /\ tok'.first = tok.first /\ tok'.last = Head(toHub)
      BY <2>1, <3>1 DEF TokensTyped
    <3>3. MetaOfFirst'
      BY <2>1, <3>1, <3>2 DEF MetaOfFirst
    <3>4. S!SameRoutes(cfg, Head(toHub), meta) /\ (Head(toHub).ports # {}) = meta.explicit
      BY <2>3 DEF S!applyClaims
    <3> QED
      BY <2>1, <3>1, <3>2, <3>3, <3>4 DEF MetaOfLast
  <2> QED
    BY <2>2, <2>3
<1>4. CASE S!HubLosesClient \/ S!HubRefuses
  BY <1>4, HubForgets DEF S!HubLosesClient, S!HubRefuses, TokensTyped
<1>5. CASE S!Challenge
  <2>1. TokensTyped' /\ MetaOfFirst'
    BY <1>5 DEF S!Challenge, S!hubElse, TokensTyped, MetaOfFirst
  <2>2. S!Registered /\ cfg' = cfg /\ meta' = meta /\ tok' = tok
    BY <1>5 DEF S!Challenge, S!hubElse, S!Registered
  <2> QED
    BY <2>1, <2>2 DEF MetaOfLast
<1>6. CASE S!Dial
  BY <1>6, NoTokTyped, SMTT(30) DEF S!Dial, TokensTyped, MetaOfFirst, MetaOfLast,
     S!Registered
<1>7. CASE S!SendHandshakeToken \/ S!SendAttestedToken
  <2>1. PICK t \in S!Issued : S!SendToken(t)
    BY <1>7 DEF S!SendHandshakeToken, S!SendAttestedToken
  <2> QED
    BY <1>7, <2>1, SendsClaim, HubUntouched
       DEF S!SendHandshakeToken, S!SendAttestedToken, S!clientElse
<1>8. CASE S!ReadFrame
  <2>1. toHub' \in Seq(Claim)
    BY <1>8, SendsClaim DEF S!ReadFrame, TokensTyped
  <2> QED
    BY <1>8, <2>1, HubUntouched DEF S!ReadFrame, S!readElse, S!clientElse
<1>9. CASE S!Top \/ S!DialFails \/ S!awaitChallenge \/ S!HandshakeFails \/ S!SessionOver \/ S!Backoff
  BY <1>9, HubUntouched DEF S!Top, S!DialFails, S!awaitChallenge, S!HandshakeFails,
     S!SessionOver,
     S!Backoff, S!clientElse, S!noConn, TokensTyped
<1>10. CASE S!ReadEnds \/ S!WriteEnds \/ S!Stop \/ S!WeatherChanges \/ UNCHANGED S!vars
  BY <1>10, HubUntouched DEF S!ReadEnds, S!WriteEnds, S!Stop, S!WeatherChanges, S!readElse,
     S!clientElse, S!noConn, S!vars, TokensTyped
<1> QED
  BY <1>1, <1>2, <1>3, <1>4, <1>5, <1>6, <1>7, <1>8, <1>9, <1>10
     DEF S!Next, S!Hub, S!Start, S!readPump

\* The invariant of the hub's handler holds throughout.
THEOREM ClaimsKept ==
  ASSUME Tokens \subseteq Claim, Good \in Claim
  PROVE  S!Spec => []ClaimsInv
<1>1. S!Init => ClaimsInv
  BY NoTokTyped, SMTT(30) DEF S!Init, ClaimsInv, TokensTyped, MetaOfFirst, MetaOfLast,
     S!Registered
<1>2. ClaimsInv /\ [S!Next]_(S!vars) => ClaimsInv'
  BY ClaimsStep
<1> QED
  BY <1>1, <1>2, PTL DEF S!Spec

\* For every configuration and all claims, no session has routes, or ports to
\* dial, beyond those that its first and its latest token asked for.
THEOREM NoWideningHolds ==
  ASSUME Tokens \subseteq Claim, Good \in Claim
  PROVE  S!Spec => []NoWidening
<1>1. ClaimsInv => NoWidening
  <2> SUFFICES ASSUME ClaimsInv, S!Registered, NEW t \in {tok.first, tok.last}
               PROVE  /\ meta.hosts \subseteq t.hosts \ S!Reserved
                      /\ meta.tcp \subseteq t.tcp \cap cfg.tcp
                      /\ \A r \in meta.udp : \E u \in t.udp : u.port = r.port
                      /\ \A p \in Ports : S!MayDial(p) => S!AsksFor(t, p)
    BY DEF NoWidening, S!NoWidening
  <2>1. /\ S!SameRoutes(cfg, t, meta) /\ (t.ports # {}) = meta.explicit
    <3>1. CASE t = tok.first
      <4>1. meta = S!validateStage0Claims(cfg, t)
        BY <3>1 DEF ClaimsInv, MetaOfFirst, S!Registered
      <4> QED
        BY <4>1 DEF S!SameRoutes, S!validateStage0Claims
    <3>2. CASE t = tok.last
      BY <3>2 DEF ClaimsInv, MetaOfLast
    <3> QED
      BY <3>1, <3>2
  <2>2. meta.hosts \subseteq t.hosts \ S!Reserved /\ meta.tcp \subseteq t.tcp \cap cfg.tcp
    BY <2>1 DEF S!SameRoutes, S!normalizeHostnames, S!normalizeTCPPortClaims
  <2>3. \A r \in meta.udp : \E u \in t.udp : u.port = r.port
    <3>1. meta.udp = S!normalizeUDPRouteClaims(cfg, t)
      BY <2>1 DEF S!SameRoutes
    <3>2. \A r \in S!normalizeUDPRouteClaims(cfg, t) : \E u \in t.udp : u.port = r.port
      <4> SUFFICES ASSUME NEW r \in S!normalizeUDPRouteClaims(cfg, t)
                   PROVE  \E u \in t.udp : u.port = r.port
        OBVIOUS
      <4>1. PICK u \in t.udp : r = [port |-> u.port, idle |-> S!Clamp(u.idle)]
        BY DEF S!normalizeUDPRouteClaims
      <4> QED
        BY <4>1
    <3> QED
      BY <3>1, <3>2
  <2>4. meta.outbound = t.outbound /\ meta.ports \subseteq t.ports
    BY <2>1 DEF S!SameRoutes, S!normalizeOutboundPortClaims
  <2>5. \A p \in Ports : S!MayDial(p) => S!AsksFor(t, p)
    BY <2>1, <2>4 DEF S!MayDial, S!AsksFor
  <2> QED
    BY <2>2, <2>3, <2>5
<1> QED
  BY <1>1, ClaimsKept, PTL


-----------------------------------------------------------------------------
(* The theorems *)

F == INSTANCE FiniteSetTheorems

\* The facts of the library are about the finite sets and the sizes of the model.
LEMMA SameSets ==
  \A A : Cardinality(A) = F!Cardinality(A) /\ (IsFiniteSet(A) <=> F!IsFiniteSet(A))
<1>1. \A A : Cardinality(A) = F!Cardinality(A)
  BY DEF Cardinality, F!Cardinality
<1>2. \A A : IsFiniteSet(A) <=> F!IsFiniteSet(A)
  BY DEF IsFiniteSet, F!IsFiniteSet
<1> QED
  BY <1>1, <1>2

\* Connections are finitely many, so their sets are counted.
LEMMA SetsOfConns ==
  ConnsCounted /\ Cardinality({}) = 0
<1>1. \A A \in SUBSET Conns : F!IsFiniteSet(A)
  BY OutboundAssumption, SameSets, F!FS_Subset
<1>2. ASSUME NEW A \in SUBSET Conns
      PROVE  F!Cardinality(A) \in Nat
  BY <1>1, F!FS_CardinalityType
<1>3. ASSUME NEW A \in SUBSET Conns, NEW c \in Conns \ A
      PROVE  F!Cardinality(A \cup {c}) = F!Cardinality(A) + 1
  BY <1>1, F!FS_AddElement
<1>4. ASSUME NEW A \in SUBSET Conns, NEW c \in A
      PROVE  F!Cardinality(A \ {c}) = F!Cardinality(A) - 1
  BY <1>1, F!FS_RemoveElement
<1>5. ASSUME NEW A \in SUBSET Conns, NEW B \in SUBSET A
      PROVE  F!Cardinality(B) <= F!Cardinality(A)
  BY <1>1, F!FS_Subset
<1>6. ConnsCounted
  BY <1>2, <1>3, <1>4, <1>5, SameSets DEF ConnsCounted
<1> QED
  BY <1>6, SameSets, F!FS_EmptySet

\* Both invariants hold throughout, for any number of requests and sessions.
THEOREM OutboundKept == Spec => [](ClientInv /\ HubInv)
<1>1. Init => ClientInv /\ HubInv
  BY ClientInit, HubInit, SetsOfConns
<1>2. ClientInv /\ HubInv /\ [Next]_vars => (ClientInv /\ HubInv)'
  BY OutboundStep, SetsOfConns
<1> QED
  BY <1>1, <1>2, PTL DEF Spec

\* For any number of requests and sessions: once a session is torn down (Start:
\* closeAllLocalConns, drainOutboundPending) no handler of handleSocks5Conn that
\* captured it waits in vain, and none of its connections is left open.
THEOREM SessionLeavesNothingHolds == Spec => []SessionLeavesNothing
<1>1. ClientInv => SessionLeavesNothing
  <2> SUFFICES ASSUME ClientInv, NEW c \in Conns, bound[c] # 0, Over(bound[c])
               PROVE  /\ pc[c] = "wait" => result[c] # "none"
                      /\ pc[c] \in {"wait", "reply", "end"} => conn[c] = "closed"
    BY DEF SessionLeavesNothing
  <2>1. bound[c] # sess \/ mgr = "connect"
    BY SMTT(30) DEF ClientInv, Types, Sessions, Over
  <2> QED
    BY <2>1 DEF ClientInv, WaitAnswered, ConnHeld
<1> QED
  BY <1>1, OutboundKept, PTL

\* For any number of requests and sessions: the send on resultCh in
\* handleControlMessage always finds room, so the shared reader never stops there.
THEOREM ReaderNeverBlocksHolds == Spec => []ReaderNeverBlocks
<1>1. ClientInv => ReaderNeverBlocks
  BY DEF ClientInv, Types, ResultHeld, InRead, ReaderNeverBlocks
<1> QED
  BY <1>1, OutboundKept, PTL

\* For any number of requests and sessions: no goroutine relays a target
\* connection past Backend.Close (handleOutboundConnect against Close).
THEOREM ClosedBackendRelaysNothingHolds == Spec => []ClosedBackendRelaysNothing
<1>1. HubInv => ClosedBackendRelaysNothing
  BY DEF HubInv, HubConn, ClosedBackendRelaysNothing
<1> QED
  BY <1>1, OutboundKept, PTL

\* For any number of requests and sessions: every connection an open Backend
\* serves holds a slot (AddOutboundClient against releaseOutboundSlot).
THEOREM SlotsCoverRelaysHolds == Spec => []SlotsCoverRelays
<1>1. HubInv => SlotsCoverRelays
  BY ServedHoldSlots, SetsOfConns
<1> QED
  BY <1>1, OutboundKept, PTL

=============================================================================
