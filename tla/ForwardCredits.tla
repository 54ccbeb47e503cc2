--------------------------- MODULE ForwardCredits ---------------------------
(***************************************************************************)
(* Forward flow control of one client connection, end user to local        *)
(* service: the hub's user-side loop (proxy.Client.Start, or the UDP       *)
(* listener) calls Backend.SendData, which spends forward credits; the     *)
(* backend client buffers frames in writeCh, writes them to the local      *)
(* service, returns credits in batches and, above a watermark, pauses the  *)
(* hub's reads.  Sources: src/internal/hub/backend.go,                     *)
(* src/internal/proxy/{client,pausable_conn}.go, src/client/client.go.     *)
(* Each direction of the WebSocket, with the lane in front of it, is one   *)
(* FIFO: outgoingData carries connect, data and disconnect; controlSend    *)
(* carries the client's answers.  Frames are counted, not identified.      *)
(***************************************************************************)
EXTENDS Integers, Sequences

CONSTANTS
  Transports,  \* the transports considered, a subset of {"tcp", "udp"}
  MaxBuffer,   \* FlowControl.MaxBuffer, the initial forward grant
  WriteChCap,  \* localConnWriteBuffer
  HighWater,   \* FlowControl.HighWaterMark
  LowWater,    \* FlowControl.LowWaterMark
  Batch,       \* protocol.CreditReplenishBatch
  SemCap,      \* protocol.DefaultCreditCapacity
  LaneCap,     \* slots towards the client
  ControlCap,  \* slots towards the hub
  MaxFrames    \* bound: frames the end user sends

ASSUME ForwardConstants ==
  /\ Transports \subseteq {"tcp", "udp"}
  /\ {MaxBuffer, WriteChCap, HighWater, LowWater, Batch, SemCap, LaneCap,
      ControlCap, MaxFrames} \subseteq Nat \ {0}
  /\ LowWater < HighWater

VARIABLES
  registered,  \* Backend.clients entry: "new", "in", "gone"
  hasSem, credits, semCap,     \* Backend.forwardCredits entry
  hubPaused,   \* PausableConn.paused
  sender,      \* user-side loop
  hubReader,   \* credits readPump is about to install, 0 = none
  toClient, toHub,             \* FIFO lanes
  isUDP,       \* the connection's transport
  conn,        \* clientConn: "none", "pending", "active", "closed", "removed"
  dialing,     \* establishLocalConnection is running
  writeCh, level, paused, consumed, retry,   \* clientConn flow control
  reader, writer, low,         \* client readPump and writeToLocal; low: its
                               \* newLevel was at most LowWater
  frames, accepted, delivered, \* frames read, taken by the lane, written
  relayClosed, localError        \* why the connection closed

hubVars == <<registered, hasSem, credits, semCap, hubPaused, sender, hubReader, frames,
             accepted>>
clientVars == <<isUDP, conn, dialing, writeCh, level, paused, consumed, retry, reader, writer, low,
                delivered, relayClosed, localError>>
vars == <<hubVars, clientVars, toClient, toHub>>

Msg(event, n) == [event |-> event, credits |-> n]

Init ==
  /\ registered = "new" /\ hasSem = FALSE /\ credits = 0 /\ semCap = 0
  /\ hubPaused = FALSE /\ sender = "connect" /\ hubReader = 0
  /\ toClient = <<>> /\ toHub = <<>>
  /\ isUDP \in {t = "udp" : t \in Transports} /\ dialing = FALSE
  /\ conn = "none" /\ writeCh = 0 /\ level = 0 /\ paused = FALSE
  /\ consumed = 0 /\ retry = FALSE
  /\ reader = "idle" /\ writer = "none" /\ low = FALSE
  /\ frames = 0 /\ accepted = 0 /\ delivered = 0
  /\ relayClosed = FALSE /\ localError = FALSE

-----------------------------------------------------------------------------
(* The hub's user-side loop *)

\* AddClient enqueues EventConnect, then stores the client.
AddClientConnect ==
  /\ sender = "connect"
  /\ toClient' = Append(toClient, "connect")
  /\ sender' = "store"
  /\ UNCHANGED <<clientVars, toHub, registered, hasSem, credits, semCap, hubPaused,
                 hubReader, frames, accepted>>

AddClientStore ==
  /\ sender = "store"
  /\ registered' = "in"
  /\ sender' = "read"
  /\ UNCHANGED <<clientVars, toHub, toClient, hasSem, credits, semCap, hubPaused,
                 hubReader, frames, accepted>>

\* PausableConn.Read: wait while paused, then read the socket.  A pause that
\* arrives in between does not stop that read.
ReadUnpaused ==
  /\ sender = "read" /\ ~hubPaused
  /\ sender' = "reading"
  /\ UNCHANGED <<clientVars, toHub, toClient, registered, hasSem, credits, semCap,
                 hubPaused, hubReader, frames, accepted>>

ReadUser ==
  /\ sender = "reading" /\ frames < MaxFrames
  /\ frames' = frames + 1
  /\ sender' = "check"
  /\ UNCHANGED <<clientVars, toHub, toClient, registered, hasSem, credits, semCap,
                 hubPaused, hubReader, accepted>>

\* EOF, idle timeout, or the conn closed by the hub.
ReadEnds ==
  /\ sender = "reading" \/ (sender = "read" /\ registered = "gone")
  /\ sender' = "remove"
  /\ UNCHANGED <<clientVars, toHub, toClient, registered, hasSem, credits, semCap,
                 hubPaused, hubReader, frames, accepted>>

\* SendData: is the client still there, has it a semaphore, wait, enqueue.
SendCheck ==
  /\ sender = "check"
  /\ sender' = IF registered = "in" THEN "load" ELSE "remove"
  /\ UNCHANGED <<clientVars, toHub, toClient, registered, hasSem, credits, semCap,
                 hubPaused, hubReader, frames, accepted>>

SendLoad ==
  /\ sender = "load"
  /\ sender' = IF hasSem THEN "wait" ELSE "enqueue"
  /\ UNCHANGED <<clientVars, toHub, toClient, registered, hasSem, credits, semCap,
                 hubPaused, hubReader, frames, accepted>>

SendAcquire ==
  /\ sender = "wait" /\ credits > 0
  /\ credits' = credits - 1
  /\ sender' = "enqueue"
  /\ UNCHANGED <<clientVars, toHub, toClient, registered, hasSem, semCap, hubPaused,
                 hubReader, frames, accepted>>

CreditTimeout ==
  /\ sender = "wait"
  /\ sender' = "remove"
  /\ UNCHANGED <<clientVars, toHub, toClient, registered, hasSem, credits, semCap,
                 hubPaused, hubReader, frames, accepted>>

SendEnqueue ==
  /\ sender = "enqueue"
  /\ \/ /\ Len(toClient) < LaneCap
        /\ toClient' = Append(toClient, "data")
        /\ accepted' = accepted + 1
        /\ sender' = "read"
     \/ /\ Len(toClient) >= LaneCap
        /\ sender' = "remove"
        /\ UNCHANGED <<toClient, accepted>>
  /\ UNCHANGED <<clientVars, toHub, registered, hasSem, credits, semCap, hubPaused,
                 hubReader, frames>>

\* Mutant: EventDisconnect leaves on the control lane, past the queued data.
RemoveClientOvertakes ==
  /\ sender = "remove"
  /\ sender' = "done"
  /\ registered' = "gone"
  /\ IF registered = "in" THEN /\ hasSem' = FALSE /\ credits' = 0
                               /\ toClient' = <<"disconnect">> \o toClient
                          ELSE UNCHANGED <<hasSem, credits, toClient>>
  /\ UNCHANGED <<clientVars, toHub, semCap, hubPaused, hubReader, frames, accepted>>

\* The disconnect is dropped when the data lane is full.
RemoveClient ==
  /\ sender = "remove"
  /\ sender' = "done"
  /\ registered' = "gone"
  /\ IF registered = "in"
     THEN /\ hasSem' = FALSE /\ credits' = 0
          /\ toClient' = IF Len(toClient) < LaneCap THEN Append(toClient, "disconnect")
                                                    ELSE toClient
     ELSE UNCHANGED <<hasSem, credits, toClient>>
  /\ UNCHANGED <<clientVars, toHub, semCap, hubPaused, hubReader, frames, accepted>>

Sender == AddClientConnect \/ AddClientStore \/ ReadUnpaused \/ ReadUser \/ ReadEnds
            \/ SendCheck \/ SendLoad \/ SendAcquire \/ CreditTimeout \/ SendEnqueue
            \/ RemoveClient

-----------------------------------------------------------------------------
(* The hub's readPump: one message after the other *)

Received(event) ==
  /\ hubReader = 0 /\ toHub # <<>> /\ Head(toHub).event = event
  /\ toHub' = Tail(toHub)

handlePauseStream ==
  /\ Received("pause")
  /\ hubPaused' = (hubPaused \/ registered = "in")
  /\ UNCHANGED <<clientVars, toClient, registered, hasSem, credits, semCap, sender,
                 hubReader, frames, accepted>>

\* Unknown client: ignored.  Otherwise Resume() whatever the credits are.
handleResumeStream ==
  /\ Received("resume")
  /\ hubPaused' = (hubPaused /\ registered # "in")
  /\ hubReader' = IF registered = "in" THEN Head(toHub).credits ELSE 0
  /\ UNCHANGED <<clientVars, toClient, registered, hasSem, credits, semCap, sender,
                 frames, accepted>>

\* LoadOrStore of a semaphore of capacity max(SemCap, n), then n non-blocking
\* sends; those that find it full are ignored.
GrantForward ==
  /\ hubReader > 0
  /\ LET cap == IF hasSem THEN semCap
                ELSE IF hubReader > SemCap THEN hubReader ELSE SemCap
         sum == (IF hasSem THEN credits ELSE 0) + hubReader
     IN  /\ semCap' = cap
         /\ credits' = IF sum > cap THEN cap ELSE sum
  /\ hasSem' = TRUE
  /\ hubReader' = 0
  /\ UNCHANGED <<clientVars, toClient, toHub, registered, hubPaused, sender, frames,
                 accepted>>

\* EventDisconnect from the client: the semaphore is not deleted.
HubDisconnect ==
  /\ Received("disconnect")
  /\ registered' = IF registered = "in" THEN "gone" ELSE registered
  /\ UNCHANGED <<clientVars, toClient, hasSem, credits, semCap, hubPaused, sender,
                 hubReader, frames, accepted>>

HubReader == handlePauseStream \/ handleResumeStream \/ GrantForward \/ HubDisconnect

-----------------------------------------------------------------------------
(* The client's readPump *)

\* enqueueControl: a full controlSend either makes room or times out.
enqueueControl(m) ==
  \/ Len(toHub) < ControlCap /\ toHub' = Append(toHub, m)
  \/ Len(toHub) >= ControlCap /\ UNCHANGED toHub

Arrives(kind) ==
  /\ reader = "idle" /\ toClient # <<>> /\ Head(toClient) = kind
  /\ toClient' = Tail(toClient)

Open == conn \in {"pending", "active"}

EventConnect ==
  /\ Arrives("connect")
  /\ conn' = "pending"
  /\ dialing' = TRUE
  /\ enqueueControl(Msg("resume", MaxBuffer))
  /\ UNCHANGED <<hubVars, isUDP, writeCh, level, paused, consumed, retry, reader, writer, low,
                 delivered, relayClosed, localError>>

\* transitionToClosed; the disconnect it sends is finalize's.
EventDisconnect ==
  /\ Arrives("disconnect")
  /\ conn' = IF Open THEN "closed" ELSE conn
  /\ relayClosed' = (relayClosed \/ conn = "active")
  /\ UNCHANGED <<hubVars, isUDP, dialing, toHub, writeCh, level, paused, consumed, retry, reader, writer,
                 low, delivered, localError>>

\* handleDataMessage without a usable connection.
DataRefused ==
  /\ ~Open
  /\ Arrives("data")
  /\ IF conn = "closed" THEN UNCHANGED toHub
                        ELSE enqueueControl(Msg("disconnect", 0))
  /\ UNCHANGED <<hubVars, clientVars>>

\* UDP: written at once when active, buffered or dropped when pending.
DataUDP ==
  /\ isUDP /\ Open
  /\ Arrives("data")
  /\ delivered' = IF conn = "active" THEN delivered + 1 ELSE delivered
  /\ writeCh' = IF conn = "pending" /\ writeCh < WriteChCap THEN writeCh + 1 ELSE writeCh
  /\ UNCHANGED <<hubVars, isUDP, dialing, toHub, conn, level, paused, consumed, retry, reader, writer,
                 low, relayClosed, localError>>

DataTCP ==
  /\ ~isUDP /\ Open
  /\ Arrives("data")
  /\ level' = level + 1
  /\ reader' = IF level + 1 >= HighWater /\ ~paused THEN "mark" ELSE "push"
  /\ UNCHANGED <<hubVars, isUDP, dialing, toHub, conn, writeCh, paused, consumed, retry, writer, low,
                 delivered, relayClosed, localError>>

MarkPaused ==
  /\ reader = "mark"
  /\ paused' = TRUE
  /\ reader' = "pause"
  /\ UNCHANGED <<hubVars, isUDP, dialing, toHub, toClient, conn, writeCh, level, consumed, retry, writer,
                 low, delivered, relayClosed, localError>>

SendPause ==
  /\ reader = "pause"
  /\ enqueueControl(Msg("pause", 0))
  /\ reader' = "push"
  /\ UNCHANGED <<hubVars, isUDP, dialing, toClient, conn, writeCh, level, paused, consumed, retry, writer,
                 low, delivered, relayClosed, localError>>

PushLocal ==
  /\ reader = "push" /\ writeCh < WriteChCap
  /\ writeCh' = writeCh + 1
  /\ reader' = "idle"
  /\ UNCHANGED <<hubVars, isUDP, dialing, toHub, toClient, conn, level, paused, consumed, retry, writer,
                 low, delivered, relayClosed, localError>>

\* "Hard limit reached": the level is reverted and the connection closed.
BufferFull ==
  /\ reader = "push" /\ writeCh >= WriteChCap
  /\ level' = level - 1
  /\ conn' = IF Open THEN "closed" ELSE conn
  /\ reader' = "idle"
  /\ UNCHANGED <<hubVars, isUDP, dialing, toHub, toClient, writeCh, paused, consumed, retry, writer, low,
                 delivered, relayClosed, localError>>

ClientReader == EventConnect \/ EventDisconnect \/ DataRefused \/ DataUDP \/ DataTCP
                  \/ MarkPaused \/ SendPause \/ PushLocal \/ BufferFull

-----------------------------------------------------------------------------
(* establishLocalConnection, writeToLocal and transitionToClosed *)

readerSide == <<isUDP, reader, relayClosed>>

DialDone ==
  /\ dialing /\ conn = "pending"
  /\ dialing' = FALSE
  /\ \/ conn' = "active" /\ writer' = "idle"
     \/ conn' = "closed" /\ UNCHANGED writer
  /\ UNCHANGED <<hubVars, toHub, toClient, writeCh, level, paused, consumed, retry, low,
                 delivered, localError, readerSide>>

\* The connection was closed while the dial was running: a dial that succeeds
\* deletes the entry and notifies the hub once more.
DialLate ==
  /\ dialing /\ conn \in {"closed", "removed"}
  /\ dialing' = FALSE
  /\ \/ conn' = "removed" /\ enqueueControl(Msg("disconnect", 0))
     \/ UNCHANGED <<conn, toHub>>
  /\ UNCHANGED <<hubVars, toClient, writeCh, level, paused, consumed, retry, writer, low,
                 delivered, localError, readerSide>>

\* The local service closes or resets, or its health check fails.
LocalCloses ==
  /\ conn = "active"
  /\ conn' = "closed"
  /\ localError' = TRUE
  /\ UNCHANGED <<hubVars, toHub, toClient, dialing, writeCh, level, paused, consumed, retry, writer,
                 low, delivered, readerSide>>

\* finalize: the entry is deleted and the hub is told.
Finalize ==
  /\ conn = "closed"
  /\ conn' = "removed"
  /\ enqueueControl(Msg("disconnect", 0))
  /\ UNCHANGED <<hubVars, toClient, dialing, writeCh, level, paused, consumed, retry, writer, low,
                 delivered, localError, readerSide>>

WriteLocal ==
  /\ writer = "idle" /\ conn = "active" /\ writeCh > 0
  /\ writeCh' = writeCh - 1
  /\ delivered' = delivered + 1
  /\ writer' = IF isUDP THEN "credit" ELSE "level"
  /\ UNCHANGED <<hubVars, toHub, toClient, conn, dialing, level, paused, consumed, retry, low,
                 localError, readerSide>>

\* UDP: a datagram the local write refuses is dropped, and not counted.
WriteDropped ==
  /\ writer = "idle" /\ conn = "active" /\ writeCh > 0 /\ isUDP
  /\ writeCh' = writeCh - 1
  /\ UNCHANGED <<hubVars, toHub, toClient, conn, dialing, level, paused, consumed, retry, writer,
                 low, delivered, localError, readerSide>>

LevelDown ==
  /\ writer = "level"
  /\ level' = level - 1
  /\ low' = (level - 1 <= LowWater)
  /\ writer' = "check"
  /\ UNCHANGED <<hubVars, toHub, toClient, conn, dialing, writeCh, paused, consumed, retry,
                 delivered, localError, readerSide>>

\* Mutant: the flag is cleared but only a full buffer's drain counts.
CheckResumeLate ==
  /\ writer = "check"
  /\ paused' = (paused /\ ~(low /\ level = LowWater))
  /\ writer' = IF paused /\ low /\ level = LowWater THEN "resume" ELSE "credit"
  /\ UNCHANGED <<hubVars, toHub, toClient, conn, dialing, writeCh, level, consumed, retry, low,
                 delivered, localError, readerSide>>

CheckResume ==
  /\ writer = "check"
  /\ paused' = (paused /\ ~low)
  /\ writer' = IF paused /\ low THEN "resume" ELSE "credit"
  /\ UNCHANGED <<hubVars, toHub, toClient, conn, dialing, writeCh, level, consumed, retry, low,
                 delivered, localError, readerSide>>

SendResume ==
  /\ writer = "resume"
  /\ enqueueControl(Msg("resume", 0))
  /\ writer' = "credit"
  /\ UNCHANGED <<hubVars, toClient, conn, dialing, writeCh, level, paused, consumed, retry, low,
                 delivered, localError, readerSide>>

\* Mutant: a flush that finds controlSend full loses its credits.
FlushLossy(n) ==
  /\ IF Len(toHub) < ControlCap THEN toHub' = Append(toHub, Msg("resume", n))
                                ELSE UNCHANGED toHub
  /\ consumed' = 0 /\ retry' = FALSE

\* flushForwardCredits of n credits: non-blocking; on failure they are kept
\* and the retry timer is armed.
flushForwardCredits(n) ==
  \/ /\ Len(toHub) < ControlCap
     /\ toHub' = Append(toHub, Msg("resume", n))
     /\ consumed' = 0 /\ retry' = FALSE
  \/ /\ Len(toHub) >= ControlCap
     /\ consumed' = n /\ retry' = TRUE
     /\ UNCHANGED toHub

CountCredit ==
  /\ writer = "credit"
  /\ IF consumed + 1 >= Batch THEN flushForwardCredits(consumed + 1)
     ELSE consumed' = consumed + 1 /\ UNCHANGED <<toHub, retry>>
  /\ writer' = "idle"
  /\ UNCHANGED <<hubVars, toClient, conn, dialing, writeCh, level, paused, low, delivered,
                 localError, readerSide>>

RetryFlush ==
  /\ writer = "idle" /\ retry /\ conn = "active"
  /\ flushForwardCredits(consumed)
  /\ UNCHANGED <<hubVars, toClient, conn, dialing, writeCh, level, paused, writer, low, delivered,
                 localError, readerSide>>

\* quit is closed: flushWriteCh writes what is buffered, unless a write fails,
\* and the goroutine returns.
FlushLocal ==
  /\ writer = "idle" /\ conn \in {"closed", "removed"}
  /\ writer' = "exit"
  /\ writeCh' = 0
  /\ \/ delivered' = delivered + writeCh /\ UNCHANGED localError
     \/ localError' = TRUE /\ UNCHANGED delivered
  /\ UNCHANGED <<hubVars, toHub, toClient, conn, dialing, level, paused, consumed, retry, low,
                 readerSide>>

LocalWriter == WriteLocal \/ WriteDropped \/ LevelDown \/ CheckResume \/ SendResume \/ CountCredit
                 \/ RetryFlush \/ FlushLocal

-----------------------------------------------------------------------------

\* The user sends no more, or both sides are gone.
Quiet ==
  /\ toClient = <<>> /\ toHub = <<>> /\ hubReader = 0 /\ reader = "idle"
  /\ sender \in {"done", "read", "reading", "wait"}
  /\ UNCHANGED vars

Next == Sender \/ HubReader \/ ClientReader \/ LocalWriter \/ DialDone \/ DialLate
          \/ LocalCloses \/ Finalize \/ Quiet

Spec == Init /\ [][Next]_vars

(***************************************************************************)
(* Fairness: goroutines that can run do, a dial ends (it has a timeout),   *)
(* the local service takes what is written to it.  Nothing is assumed of   *)
(* the end user, of who closes, or of the idle timeout.                    *)
(***************************************************************************)
SenderRuns == AddClientConnect \/ AddClientStore \/ ReadUnpaused \/ SendCheck \/ SendLoad
                \/ SendAcquire \/ SendEnqueue \/ RemoveClient

FairSpec ==
  /\ Spec
  /\ WF_vars(SenderRuns) /\ WF_vars(HubReader) /\ WF_vars(ClientReader)
  /\ WF_vars(LocalWriter) /\ WF_vars(DialDone \/ DialLate) /\ WF_vars(Finalize)

-----------------------------------------------------------------------------
(* Properties *)

RECURSIVE CreditsIn(_)
CreditsIn(s) == IF s = <<>> THEN 0 ELSE Head(s).credits + CreditsIn(Tail(s))

DataIn(s) == Len(SelectSeq(s, LAMBDA m : m = "data"))

One(b) == IF b THEN 1 ELSE 0

\* The credits of a live TCP connection never drain away: what the hub holds,
\* what its frames in flight will return and what the client is about to
\* return always add up to a batch, so a return is always due ("no credit is
\* ever lost", the retry of flushForwardCredits).
CreditsCirculate ==
  (~isUDP /\ hasSem /\ Open /\ registered = "in" /\ sender # "remove") =>
    credits + One(sender = "enqueue") + DataIn(toClient) + One(reader # "idle")
      + writeCh + One(writer \notin {"none", "idle", "exit"}) + consumed + CreditsIn(toHub)
      + hubReader >= Batch

\* Frames the hub accepted before its disconnect are all written to an active
\* local connection before it is closed ("EventDisconnect must follow all
\* queued data", backend.go).
TailDelivered ==
  (relayClosed /\ ~isUDP /\ writer = "exit" /\ ~localError) => delivered = accepted

\* A set paused flag always has a frame behind it whose write will look at the
\* flag again: level is raised before the flag and the frame is queued after it.
PausedHasTrigger ==
  (paused /\ conn = "active") =>
    writeCh + One(reader # "idle") + One(writer \in {"level", "check"}) > 0

\* A hub sender that waits for a forward credit of a TCP connection gets one,
\* without the idle timeout, as long as the connection lives.
SenderServed ==
  (sender = "wait" /\ ~isUDP) ~> (sender # "wait" \/ conn \in {"closed", "removed"})

\* The same of either transport, as the comment on writeToLocal's replenishment
\* has it: "Forward credit replenishment (both TCP and UDP)".
EverySenderServed ==
  (sender = "wait") ~> (sender # "wait" \/ conn \in {"closed", "removed"})

=============================================================================
