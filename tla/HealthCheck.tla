---------------------------- MODULE HealthCheck ----------------------------
(***************************************************************************)
(* The health checks of one connection of the client (src/client/          *)
(* client.go): healthCheckPump pings the hub for a connection that has     *)
(* been idle, the hub answers if it still has the client (src/internal/    *)
(* hub/backend.go), and the pong timer closes a connection without answer. *)
(* This is what frees a connection whose disconnect message was lost.      *)
(*                                                                         *)
(* The session lasts (its end closes every connection, OutboundConnect).   *)
(* Time is abstract: idleness and the timer may come at any moment.  What  *)
(* is done for a connection that is already draining has no effect.        *)
(***************************************************************************)
EXTENDS Naturals

CONSTANT MaxReads   \* frames read from the local service for a client the hub
                    \* has lost: queue, credits and the stall's one probe

VARIABLES
  alive,       \* the connection is neither closing nor closed
  pingSent,    \* clientConn.pingSent
  idle,        \* lastActivity is older than the inactivity timeout
  timer,       \* the pong timer is running ...
  fired,       \* ... or its function has been started
  pump,        \* healthCheckPump at this connection
  reader,      \* the read pump in EventPongClient
  pinged,      \* a ping is on its way to the hub
  pong,        \* a pong is on its way back
  disconnect,  \* so is the client's disconnect message
  known,       \* the hub has the client
  reads        \* frames read since it has not

vars == <<alive, pingSent, idle, timer, fired, pump, reader, pinged, pong, disconnect, known, reads>>

Init ==
  /\ alive = TRUE /\ pingSent = FALSE /\ idle = FALSE /\ timer = FALSE /\ fired = FALSE
  /\ pump = "range" /\ reader = "read" /\ pinged = FALSE
  /\ pong = FALSE /\ disconnect = FALSE /\ known = TRUE /\ reads = 0

-----------------------------------------------------------------------------
(* healthCheckPump *)

Visit ==
  /\ pump = "range" /\ alive /\ ~pingSent /\ idle
  /\ pingSent' = TRUE /\ pump' = "send"
  /\ UNCHANGED <<alive, idle, timer, fired, reader, pinged, pong, disconnect, known, reads>>

SendPing ==
  /\ pump = "send"
  /\ pinged' = TRUE /\ pump' = "arm"
  /\ UNCHANGED <<alive, pingSent, idle, timer, fired, reader, pong, disconnect, known, reads>>

\* The control lane is full.
PingFails ==
  /\ pump = "send"
  /\ pingSent' = FALSE /\ pump' = "arm"
  /\ UNCHANGED <<alive, idle, timer, fired, reader, pinged, pong, disconnect, known, reads>>

\* The timer is set in either case.
setPongTimer ==
  /\ pump = "arm"
  /\ timer' = TRUE /\ pump' = "range"
  /\ UNCHANGED <<alive, pingSent, idle, fired, reader, pinged, pong, disconnect, known, reads>>

\* A function that has started is no longer stopped; it ends long before
\* another timer can expire.
TimerFires ==
  /\ timer /\ ~fired
  /\ timer' = FALSE /\ fired' = TRUE
  /\ UNCHANGED <<alive, pingSent, idle, pump, reader, pinged, pong, disconnect, known, reads>>

\* transitionToClosed, if the ping is unanswered; safeClose stops the timer.
Timeout ==
  /\ fired /\ fired' = FALSE
  /\ alive' = (alive /\ ~pingSent)
  /\ timer' = (timer /\ ~(alive /\ pingSent))
  /\ UNCHANGED <<pingSent, idle, pump, reader, pinged, pong, disconnect, known, reads>>

-----------------------------------------------------------------------------
(* The hub *)

\* No answer without the client, or if the control lane is full.
EventPingClient ==
  /\ pinged /\ pinged' = FALSE
  /\ pong' \in {pong, pong \/ known}
  /\ UNCHANGED <<alive, pingSent, idle, timer, fired, pump, reader, disconnect, known, reads>>

\* RemoveClient; its disconnect message may find the lane full.
RemoveClient ==
  /\ known /\ known' = FALSE
  /\ disconnect' \in BOOLEAN
  /\ UNCHANGED <<alive, pingSent, idle, timer, fired, pump, reader, pinged, pong, reads>>

-----------------------------------------------------------------------------
(* The read pump of the client, and the traffic of the connection *)

\* Mutant: the flag is cleared before the timer is cancelled.
PongClearsFirst ==
  /\ \/ /\ reader = "read" /\ pong /\ pong' = FALSE
        /\ reader' = IF alive THEN "cancel" ELSE "read"
        /\ pingSent' = (pingSent /\ ~alive) /\ UNCHANGED timer
     \/ /\ reader = "cancel" /\ reader' = "touch"
        /\ timer' = FALSE /\ UNCHANGED <<pong, pingSent>>
  /\ UNCHANGED <<alive, idle, fired, pump, pinged, disconnect, known, reads>>

\* EventPongClient; each line of the handler is a step.
CancelPongTimer ==
  /\ reader = "read" /\ pong /\ pong' = FALSE
  /\ reader' = IF alive THEN "clear" ELSE "read"
  /\ timer' = (timer /\ ~alive)
  /\ UNCHANGED <<alive, pingSent, idle, fired, pump, pinged, disconnect, known, reads>>

ClearPing ==
  /\ reader = "clear"
  /\ pingSent' = FALSE /\ reader' = "touch"
  /\ UNCHANGED <<alive, idle, timer, fired, pump, pinged, pong, disconnect, known, reads>>

TouchActivity ==
  /\ reader = "touch"
  /\ idle' = FALSE /\ reader' = "read"
  /\ UNCHANGED <<alive, pingSent, timer, fired, pump, pinged, pong, disconnect, known, reads>>

EventDisconnect ==
  /\ reader = "read" /\ disconnect /\ disconnect' = FALSE
  /\ alive' = FALSE /\ timer' = (timer /\ ~alive)
  /\ UNCHANGED <<pingSent, idle, fired, pump, reader, pinged, pong, known, reads>>

\* Data from the hub, or from the local service; the latter alone stops when
\* the hub returns no more credits.
Activity ==
  /\ alive /\ (known \/ reads < MaxReads)
  /\ idle' = FALSE /\ reads' = IF known THEN reads ELSE reads + 1
  /\ UNCHANGED <<alive, pingSent, timer, fired, pump, reader, pinged, pong, disconnect, known>>

Inactive ==
  /\ alive /\ idle' = TRUE
  /\ UNCHANGED <<alive, pingSent, timer, fired, pump, reader, pinged, pong, disconnect, known, reads>>

-----------------------------------------------------------------------------

Pump == Visit \/ SendPing \/ PingFails \/ setPongTimer
Reader == CancelPongTimer \/ ClearPing \/ TouchActivity \/ EventDisconnect

Next ==
  \/ Pump \/ TimerFires \/ Timeout
  \/ EventPingClient \/ RemoveClient
  \/ Reader \/ Activity \/ Inactive

Spec == Init /\ [][Next]_vars

\* Goroutines and timers run, time passes, and the write pump drains the
\* control lane, so that not every ping finds it full.
Fairness ==
  /\ WF_vars(Pump) /\ SF_vars(SendPing) /\ WF_vars(Reader)
  /\ WF_vars(TimerFires) /\ WF_vars(Timeout) /\ WF_vars(EventPingClient) /\ WF_vars(Inactive)

FairSpec == Spec /\ Fairness

(***************************************************************************)
(* Every disconnect message of the hub may be lost, and pump, timer and    *)
(* read pump share pingSent and the timer without a lock over both: a      *)
(* connection whose client the hub no longer has is closed all the same.   *)
(***************************************************************************)
OrphanClosed == ~known ~> ~alive

=============================================================================
