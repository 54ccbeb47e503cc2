---------------------------- MODULE BufferedConn ----------------------------
(***************************************************************************)
(* Service-to-user data of one client on the hub, from the ledger of the   *)
(* backend client to the user's socket and back:                           *)
(*   - the sender spends a credit per frame, may grant itself one after a  *)
(*     stall and a batch when it ends the connection, where one last frame *)
(*     may pass the credits (src/client/credit_ledger.go, in full in       *)
(*     CreditLedger);                                                      *)
(*   - Backend.readPump hands every frame to bufferedConn.Write, which     *)
(*     never blocks (src/internal/hub/{backend,buffered_conn}.go);         *)
(*   - the drain goroutine passes the bandwidth gate, writes the socket    *)
(*     and returns credits in batches, retried while the control lane is   *)
(*     full;                                                               *)
(*   - the proxy client, the readPump, an EventDisconnect and              *)
(*     Backend.Close end the connection, alone or together.                *)
(* Frames are counted.  Time is abstracted: a timer may fire at any time   *)
(* after it was armed, but not before a back-off that is shorter than it.  *)
(***************************************************************************)
EXTENDS Integers

CONSTANTS
  Window,     \* protocol.DefaultCreditCapacity
  Batch,      \* protocol.CreditReplenishBatch
  MaxCap,     \* maxReverseCreditCapacity of the ledger
  MaxProbes   \* bound: exceptions while the stall probe may fire

ASSUME ConnConstants ==
  /\ {Window, Batch, MaxCap} \subseteq Nat \ {0} /\ MaxProbes \in Nat
  /\ Batch <= Window /\ Window <= MaxCap

\* Who may close the conn: Client.Start's RemoveClient, the readPump's, the
\* handler of EventDisconnect, Backend.Close.
Closers == {"user", "reader", "disconnect", "session"}

VARIABLES
  avail, probeFired,             \* the sender's ledger
  teardown, raced,               \* its connection closes, its ledger is closed;
                                 \* drainStream has sent the raced frame
  wire, returning,               \* data frames to the hub; credits to the sender
  reg, reader,                   \* entry in Backend.clients; readPump
  writeCh, quit, closed, half,   \* bufferedConn; Conn closed, shut for writing
  drain,                         \* control point of drain
  consumed, timer, backoff,      \* its locals; timer is armed
  closer,                        \* per closer
  extra, early, full, failed, late   \* history: exceptions, a frame dropped
                                 \* before the entry, buffer full, a write
                                 \* failed, EventDisconnect's flush timed out

sender == <<avail, probeFired, teardown, raced, extra>>
links == <<wire, returning>>
pump == <<reg, reader, early, full>>
conn == <<quit, closed, half>>
replenish == <<consumed, timer, backoff>>
ends == <<closer, late>>
vars == <<sender, links, pump, writeCh, conn, drain, replenish, failed, ends>>

\* EventConnect has brought the window, the entry is not yet stored.
Init ==
  /\ avail = Window /\ probeFired = FALSE /\ teardown = "no" /\ raced = FALSE
  /\ wire = 0 /\ returning = 0
  /\ reg = "adding" /\ reader = "idle"
  /\ writeCh = 0 /\ quit = FALSE /\ closed = FALSE /\ half = FALSE
  /\ drain = "select"
  /\ consumed = 0 /\ timer = FALSE /\ backoff = FALSE
  /\ closer = [c \in Closers |-> "off"]
  /\ extra = 0 /\ early = FALSE /\ full = FALSE /\ failed = FALSE /\ late = FALSE

AtMost(n, m) == IF n > m THEN m ELSE n

\* Backend.Close has not been called: its quit channel and WebSocket are open.
Up == closer["session"] = "off"

-----------------------------------------------------------------------------
(* The sender *)

\* Without an entry frames are dropped on arrival and credits are of no use:
\* the sender is followed no further, and what it holds is forgotten by the
\* step that removes the entry.
Followed == Up /\ reg # "out"
Forgotten ==
  /\ avail' = 0 /\ probeFired' = FALSE /\ returning' = 0
  /\ teardown' = "no" /\ raced' = FALSE

senderElse == <<pump, writeCh, conn, drain, replenish, failed, ends>>

SendFrame ==
  /\ Followed /\ avail > 0
  /\ avail' = avail - 1 /\ wire' = wire + 1
  /\ UNCHANGED <<senderElse, probeFired, teardown, raced, extra, returning>>

\* The stall probe: a frame waits and no credit has come for a while.
StallProbe ==
  /\ Followed /\ avail = 0 /\ ~probeFired /\ teardown # "kicked"
  /\ extra < MaxProbes
  /\ avail' = 1 /\ probeFired' = TRUE /\ extra' = extra + 1
  /\ UNCHANGED <<senderElse, teardown, raced, wire, returning>>

\* transitionToClosed closes the client's side while frames may still be queued.
TransitionToClosed ==
  /\ Followed /\ teardown = "no"
  /\ teardown' = "closing"
  /\ UNCHANGED <<senderElse, avail, probeFired, raced, extra, links>>

\* A batch of bonus credits helps the queue to drain.
KickstartAndClose ==
  /\ Followed /\ teardown = "closing"
  /\ teardown' = "kicked" /\ probeFired' = FALSE
  /\ avail' = AtMost(avail + Batch, MaxCap) /\ extra' = extra + Batch
  /\ UNCHANGED <<senderElse, raced, links>>

\* drainConnectionQueue of a closing connection sends a last frame past the credits.
RacedFrame ==
  /\ Followed /\ teardown # "no" /\ ~raced
  /\ raced' = TRUE /\ wire' = wire + 1 /\ extra' = extra + 1
  /\ UNCHANGED <<senderElse, avail, probeFired, teardown, returning>>

\* EventResumeStream messages are kept as the sum of their credits, a batch or
\* more each.
ResumeArrives ==
  /\ Followed
  /\ \E n \in Batch .. returning :
       /\ returning - n \notin 1 .. Batch - 1
       /\ returning' = returning - n /\ avail' = AtMost(avail + n, MaxCap)
  /\ probeFired' = FALSE
  /\ UNCHANGED <<senderElse, teardown, raced, extra, wire>>

-----------------------------------------------------------------------------
(* AddClient and readPump *)

pumpElse == <<sender, returning, closed, half, drain, replenish, failed, late>>

\* The second half of AddClient.
StoreClient ==
  /\ reg = "adding"
  /\ reg' = "in"
  /\ UNCHANGED <<pumpElse, wire, reader, early, full, writeCh, quit, closer>>

\* handleBinaryMessage: a frame without an entry is dropped (all of them
\* at once here, when there is no entry any more); Write checks quit
\* before it tries the channel.
HandleData ==
  /\ Up /\ reader = "idle" /\ wire > 0
  /\ wire' = IF reg = "out" THEN 0 ELSE wire - 1
  /\ early' = (early \/ reg = "adding")
  /\ reader' = CASE reg # "in" -> "idle"
                 [] reg = "in" /\ quit -> "remove"
                 [] OTHER -> "enqueue"
  /\ UNCHANGED <<pumpElse, reg, full, writeCh, quit, closer>>

\* Mutant: the buffer is as large as the window.
BufferOfWindow == Window

clientWriteBufferSize == 2 * Window

\* The non-blocking select: any ready case, default if there is none.
Enqueue ==
  /\ reader = "enqueue"
  /\ \/ /\ writeCh < clientWriteBufferSize
        /\ writeCh' = writeCh + 1 /\ reader' = "idle" /\ UNCHANGED full
     \/ /\ quit
        /\ reader' = "remove" /\ UNCHANGED <<writeCh, full>>
     \/ /\ ~quit /\ writeCh = clientWriteBufferSize
        /\ reader' = "remove" /\ full' = TRUE /\ UNCHANGED writeCh
  /\ UNCHANGED <<pumpElse, wire, reg, early, quit, closer>>

removeElse == <<extra, wire, early, full, writeCh, conn, drain, replenish, failed, late>>

\* RemoveClient on the readPump: LoadAndDelete, then Close on this goroutine.
ReaderRemoves ==
  /\ reader = "remove"
  /\ IF reg = "in"
     THEN /\ reg' = "out" /\ reader' = "closing"
          /\ closer' = [closer EXCEPT !["reader"] = "close"]
          /\ Forgotten
     ELSE reader' = "idle" /\ UNCHANGED <<reg, closer, sender, returning>>
  /\ UNCHANGED removeElse

\* EventDisconnect behind the last frame.  GracefulCloseConn closes a TCP conn
\* on a goroutine of its own, any other here and now.
HandleDisconnect ==
  /\ Up /\ reader = "idle" /\ wire = 0 /\ reg = "in"
  /\ reg' = "out"
  /\ \E tcp \in BOOLEAN :
       /\ reader' = IF tcp THEN "idle" ELSE "closing"
       /\ closer' = [closer EXCEPT !["disconnect"] = IF tcp THEN "start" ELSE "close"]
  /\ Forgotten
  /\ UNCHANGED removeElse

-----------------------------------------------------------------------------
(* The drain goroutine *)

drainElse == <<sender, wire, pump, ends, half>>

\* The locals of the loop go with it.
LoopLeft == consumed' = 0 /\ timer' = FALSE /\ backoff' = FALSE

TakeFrame ==
  /\ drain = "select" /\ writeCh > 0
  /\ writeCh' = writeCh - 1 /\ drain' = "gate"
  /\ UNCHANGED <<drainElse, returning, quit, closed, replenish, failed>>

\* gate.Request is granted, at once or after waits.
GateAllows ==
  /\ drain = "gate"
  /\ drain' = "write"
  /\ UNCHANGED <<drainElse, returning, writeCh, quit, closed, replenish, failed>>

\* Conn.Write returns: an error ends the goroutine, quit and the Conn with it.
WriteOK ==
  /\ drain = "write" /\ ~closed /\ ~half
  /\ consumed' = consumed + 1
  /\ drain' = IF consumed + 1 >= Batch THEN "replenish" ELSE "select"
  /\ UNCHANGED <<drainElse, returning, writeCh, quit, closed, timer, backoff, failed>>

WriteFails ==
  /\ drain = "write"
  /\ drain' = "done" /\ quit' = TRUE /\ closed' = TRUE /\ failed' = TRUE
  /\ LoopLeft
  /\ UNCHANGED <<drainElse, returning, writeCh>>

\* replenishTimerCh, in the outer select or in the gate's.
TimerFires ==
  /\ drain \in {"select", "gate"} /\ timer /\ ~backoff
  /\ drain' = (IF drain = "gate" THEN "gateReplenish" ELSE "replenish") /\ timer' = FALSE
  /\ UNCHANGED <<drainElse, returning, writeCh, quit, closed, consumed, backoff, failed>>

Replenishing == drain \in {"replenish", "gateReplenish"}
BackFrom(l) == IF l = "gateReplenish" THEN "gate" ELSE "select"

\* tryReplenish, called with a frame in hand or without; consumed is never 0 when it is called.
ReplenishBacksOff ==
  /\ Replenishing /\ backoff
  /\ timer' = TRUE /\ drain' = BackFrom(drain)
  /\ UNCHANGED <<drainElse, returning, writeCh, quit, closed, consumed, backoff, failed>>

\* Mutant: the count is kept after a successful replenishment.
ReplenishKeepsCount ==
  /\ Replenishing /\ ~backoff /\ Up
  /\ returning' = returning + consumed
  /\ timer' = FALSE /\ drain' = BackFrom(drain)
  /\ UNCHANGED <<drainElse, writeCh, quit, closed, consumed, backoff, failed>>

ReplenishSent ==
  /\ Replenishing /\ ~backoff /\ Up
  /\ returning' = returning + consumed /\ consumed' = 0
  /\ timer' = FALSE /\ drain' = BackFrom(drain)
  /\ UNCHANGED <<drainElse, writeCh, quit, closed, backoff, failed>>

\* Mutant: nothing retries a batch that found the control lane full.
ReplenishGivesUp ==
  /\ Replenishing /\ ~backoff
  /\ backoff' = TRUE /\ drain' = BackFrom(drain)
  /\ UNCHANGED <<drainElse, returning, writeCh, quit, closed, consumed, timer, failed>>

\* The control lane is full, or the backend closed.
ReplenishFails ==
  /\ Replenishing /\ ~backoff
  /\ backoff' = TRUE /\ timer' = TRUE /\ drain' = BackFrom(drain)
  /\ UNCHANGED <<drainElse, returning, writeCh, quit, closed, consumed, failed>>

BackoffOver ==
  /\ backoff
  /\ backoff' = FALSE
  /\ UNCHANGED <<drainElse, returning, writeCh, quit, closed, drain, consumed, timer, failed>>

\* Mutant: the quit branch returns without flushRemaining.
QuitNoFlush ==
  /\ quit /\ drain \in {"select", "gate"}
  /\ drain' = IF drain = "gate" THEN "last" ELSE "done"
  /\ LoopLeft
  /\ UNCHANGED <<drainElse, returning, writeCh, quit, closed, failed>>

\* quit in the outer select, or in the gate's with a frame in hand.
QuitSeen ==
  /\ quit /\ drain \in {"select", "gate"}
  /\ drain' = IF drain = "gate" THEN "last" ELSE "flush"
  /\ LoopLeft
  /\ UNCHANGED <<drainElse, returning, writeCh, quit, closed, failed>>

\* The error of the frame in hand is ignored.
WriteLast ==
  /\ drain = "last"
  /\ drain' = "flush" /\ failed' \in (IF closed \/ half THEN {TRUE} ELSE {failed, TRUE})
  /\ UNCHANGED <<drainElse, returning, writeCh, quit, closed, replenish>>

flushRemaining ==
  /\ drain = "flush"
  /\ drain' = IF writeCh > 0 THEN "flushing" ELSE "done"
  /\ writeCh' = IF writeCh > 0 THEN writeCh - 1 ELSE 0
  /\ UNCHANGED <<drainElse, returning, quit, closed, replenish, failed>>

FlushWrite ==
  /\ drain = "flushing"
  /\ \/ ~closed /\ ~half /\ drain' = "flush" /\ UNCHANGED failed
     \/ drain' = "done" /\ failed' = TRUE
  /\ UNCHANGED <<drainElse, returning, writeCh, quit, closed, replenish>>

Drain == TakeFrame \/ TimerFires \/ ReplenishBacksOff \/ ReplenishSent \/ ReplenishFails
           \/ QuitSeen \/ flushRemaining
WriteReturns == WriteOK \/ WriteFails \/ WriteLast \/ FlushWrite

-----------------------------------------------------------------------------
(* StopWrites, Close and GracefulCloseConn *)

closeElse == <<sender, links, reader, early, full, writeCh, drain, replenish, failed>>

At(c, l) == closer' = [closer EXCEPT ![c] = l]

\* Client.Start ends; on its idle timeout it has closed the Conn itself.
UserEnds ==
  /\ reg = "in"
  /\ reg' = "out" /\ At("user", "close")
  /\ closed' \in {closed, TRUE}
  /\ Forgotten
  /\ UNCHANGED <<extra, wire, reader, early, full, writeCh, quit, half, drain, replenish,
                 failed, late>>

\* Backend.Close: what is under way on the WebSocket is lost, the sender ends
\* with its session.  Range finds the entry, then Delete, GracefulCloseConn.
SessionRange ==
  /\ Up /\ reg = "in"
  /\ At("session", "delete")
  /\ Forgotten /\ wire' = 0
  /\ UNCHANGED <<extra, reader, early, full, writeCh, drain, replenish, failed, reg, conn, late>>

SessionDelete ==
  /\ closer["session"] = "delete"
  /\ reg' = "out" /\ \E l \in {"start", "close"} : At("session", l)
  /\ UNCHANGED <<closeElse, conn, late>>

StopWrites(c) ==
  /\ closer[c] \in {"start", "close"}
  /\ quit' = TRUE /\ At(c, IF closer[c] = "start" THEN "flush" ELSE "stop")
  /\ UNCHANGED <<closeElse, reg, closed, half, late>>

\* drain is done or 50 ms are over, here and in CloseConn.
CloseWrite(c) ==
  /\ closer[c] = "flush"
  /\ half' = TRUE /\ At(c, "grace")
  /\ late' = (late \/ (c = "disconnect" /\ drain # "done"))
  /\ UNCHANGED <<closeElse, reg, quit, closed>>

\* Mutant: Close waits for drain before it closes the Conn.
CloseConnLast(c) ==
  /\ closer[c] \in {"stop", "grace"} /\ drain = "done"
  /\ closed' = TRUE /\ At(c, "wait")
  /\ UNCHANGED <<closeElse, reg, quit, half, late>>

\* After the StopWrites of Close, or after the grace period.
CloseConn(c) ==
  /\ closer[c] \in {"stop", "grace"}
  /\ closed' = TRUE /\ At(c, "wait")
  /\ UNCHANGED <<closeElse, reg, quit, half, late>>

\* Whoever runs on the readPump gives it back.
CloseReturns(c) ==
  /\ closer[c] = "wait" /\ drain = "done"
  /\ At(c, "end")
  /\ reader' = IF reader = "closing" /\ c \in {"reader", "disconnect"} THEN "idle" ELSE reader
  /\ UNCHANGED <<sender, links, reg, early, full, writeCh, drain, replenish, failed, conn, late>>

Closing(c) == StopWrites(c) \/ CloseWrite(c) \/ CloseConn(c) \/ CloseReturns(c)

Reader == HandleData \/ Enqueue \/ ReaderRemoves

Next ==
  \/ SendFrame \/ StallProbe \/ ResumeArrives
  \/ TransitionToClosed \/ KickstartAndClose \/ RacedFrame
  \/ StoreClient \/ Reader \/ HandleDisconnect \/ Drain \/ GateAllows \/ BackoffOver \/ WriteReturns
  \/ UserEnds \/ SessionRange \/ SessionDelete \/ (\E c \in Closers : Closing(c))

Spec == Init /\ [][Next]_vars

(***************************************************************************)
(* Fairness: goroutines that can run do, messages on the WebSocket arrive, *)
(* a select does not pass over a ready quit for ever, a write to a Conn     *)
(* that is closed or shut for writing returns.  The user need not read,    *)
(* the gate need not open, the control lane may stay full.                 *)
(***************************************************************************)
FairSpec ==
  /\ Spec
  /\ WF_vars(ResumeArrives) /\ WF_vars(StoreClient) /\ WF_vars(Reader)
  /\ WF_vars(Drain) /\ SF_vars(QuitSeen)
  /\ WF_vars(BackoffOver) /\ WF_vars((closed \/ half) /\ WriteReturns)
  /\ WF_vars(SessionDelete \/ \E c \in Closers : Closing(c))

-----------------------------------------------------------------------------
(* Properties *)

One(b) == IF b THEN 1 ELSE 0

\* Nothing has ended the connection or was lost to it.
Open == Up /\ ~early /\ ~full /\ reg # "out" /\ ~quit /\ ~closed /\ Window + extra <= MaxCap

\* drain has taken a frame that it has not written.
InHand == drain \in {"gate", "gateReplenish", "write"}

\* Frames that have left the sender and are not written or not yet paid back.
Away == wire + One(reader = "enqueue") + writeCh + One(InHand) + consumed + returning

W == INSTANCE CreditWindow WITH held <- avail, away <- Away, open <- Open

(***************************************************************************)
(* The hub, the sender and the link between them implement the credit      *)
(* window: retries of a replenishment never multiply credits, and while    *)
(* the connection is open none is lost ("ensuring no credit is ever        *)
(* permanently lost", replenishCallbackFor).                               *)
(***************************************************************************)
ImplementsWindow == W!Spec

(***************************************************************************)
(* "Hitting the non-blocking drop path ... indicates a protocol-violating  *)
(* sender": an honest sender's frame finds the buffer full only after its  *)
(* exceptions have added more than a whole second window.  The teardown    *)
(* brings one batch and one frame, the rest are grants of the stall probe. *)
(***************************************************************************)
DropsOnlyInflated == full => extra > Window

(***************************************************************************)
(* StopWrites "prevents data loss when EventDisconnect arrives shortly     *)
(* after a data message": if drain ends within the 50 ms, everything that  *)
(* was buffered is written before the half-close, or a write has failed.   *)
(***************************************************************************)
FlushedBeforeFin ==
  closer["disconnect"] = "grace" /\ ~late => writeCh = 0 \/ failed

(***************************************************************************)
(* A sender without credits gets some, with no help of its stall probe, as *)
(* long as the user reads, the gate opens and the control lane is not full *)
(* at every retry.                                                         *)
(***************************************************************************)
CreditsReturn ==
  (WF_vars(WriteReturns) /\ WF_vars(GateAllows) /\ SF_vars(ReplenishSent)) =>
    ((avail = 0 /\ Open) ~> (avail > 0 \/ ~Open))

(***************************************************************************)
(* Close returns for every caller, a user who never reads and a gate that  *)
(* never opens included: the readPump, which all clients of the backend    *)
(* share, is not lost to one of them.                                      *)
(***************************************************************************)
CloseEnds ==
  (\E c \in Closers : closer[c] # "off") ~> (\A c \in Closers : closer[c] \in {"off", "end"})
=============================================================================
