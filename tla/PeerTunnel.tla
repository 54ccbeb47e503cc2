----------------------------- MODULE PeerTunnel -----------------------------
(***************************************************************************)
(* One TCP tunnel between two nodes.  The origin's StartTunnel reads the   *)
(* end user and sends frames through the peer's send channel               *)
(* (src/internal/peer/peer.go); the destination hands them through a pipe  *)
(* to a proxy client of a local backend and sends the backend's frames     *)
(* back (src/internal/peer/{peer-manager,tunnel}.go).  Each direction is   *)
(* limited by credits of the other side, the destination can pause the     *)
(* origin, and either side can close.                                      *)
(*                                                                         *)
(* The send channel and the WebSocket behind it are one FIFO per           *)
(* direction, shared with every other tunnel of the peer: Send may find    *)
(* the channel full at any time and then drops the message. When the link  *)
(* drops, the origin's channel outlives it (what was already written is    *)
(* lost) and the destination's peer dies with its channel; the origin then *)
(* dials again. The bandwidth waits are those of BandwidthScheduler.       *)
(***************************************************************************)
EXTENDS Integers, Sequences, FiniteSets

CONSTANTS
  Cap,        \* protocol.DefaultCreditCapacity
  Batch,      \* protocol.CreditReplenishBatch
  Attempts,   \* tries of retryCreditSend
  MaxEvents   \* bound: frames of either end, pauses, resumes and lost links

ASSUME TunnelConstants ==
  /\ {Cap, Batch, Attempts} \subseteq Nat \ {0}
  /\ MaxEvents \in Nat /\ Batch <= Cap

VARIABLES
  up, gen,                 \* the link and its number
  fwd, back,               \* to the destination, to the origin
  opc, ogen, held,         \* StartTunnel: control point, the link whose peerDone it
                           \* holds, whether it spent a credit for this frame
  active, hasState,        \* its entries in activeTunnels and tunnelStates
  sendActive, sendCh, done, recvConsumed, \* tunnelState
  opaused, oclosed, grace, \* the end user's PausableConn; a write to it failed
  oretries,                \* tries left of each retryCreditSend
  entry, dgen,             \* entry in Manager.tunnels, the link of its peer
  dpc, pipe,               \* proxy client; readPump waits in WriteToPipe
  dclosed, dpaused, creditActive, dcred, fconsumed, \* TunneledConn
  dw, dretries,            \* the drain goroutine, retryCreditSend
  events,                  \* what the bound counts
  free, dfree,             \* frames that went out without a credit (history)
  gaveUp                   \* a retryCreditSend ran out of tries (history)

linkVars == <<up, gen>>
originVars == <<opc, ogen, held, active, hasState, sendActive, sendCh, done,
                recvConsumed, opaused, oclosed, grace, oretries, free>>
destVars == <<entry, dgen, dpc, pipe, dclosed, dpaused, creditActive, dcred,
              fconsumed, dw, dretries, dfree>>
vars == <<linkVars, fwd, back, originVars, destVars, gaveUp, events>>

Event == events < MaxEvents /\ events' = events + 1

Msg(k, n) == [kind |-> k, n |-> n]
AtMost(n, m) == IF n > m THEN m ELSE n

Init ==
  /\ up = TRUE /\ gen = 1 /\ fwd = <<>> /\ back = <<>>
  /\ opc = "request" /\ ogen = 0 /\ held = FALSE
  /\ active = FALSE /\ hasState = FALSE
  /\ sendActive = FALSE /\ sendCh = 0 /\ done = FALSE /\ recvConsumed = 0
  /\ opaused = FALSE /\ oclosed = FALSE /\ grace = FALSE /\ oretries = <<>>
  /\ entry = FALSE /\ dgen = 0 /\ dpc = "none" /\ pipe = FALSE
  /\ dclosed = FALSE /\ dpaused = FALSE /\ creditActive = FALSE /\ dcred = 0
  /\ fconsumed = 0 /\ dw = "idle" /\ dretries = <<>>
  /\ events = 0 /\ free = 0 /\ dfree = 0 /\ gaveUp = FALSE

-----------------------------------------------------------------------------
(* peerImpl.Send on either side *)

PutFwd(m) == fwd' = Append(fwd, m)
PutBack(m) == back' = Append(back, m)

SendFwd(m) == PutFwd(m) \/ UNCHANGED fwd

DeadPeer == dgen # gen \/ ~up

\* The channel of a peer whose connection is gone takes messages until full.
QueuedBack(m) == IF DeadPeer THEN UNCHANGED back ELSE PutBack(m)
SendBack(m) == QueuedBack(m) \/ UNCHANGED back

\* retryCreditSend, given the tries left of each that runs: one starts, one
\* succeeds, one fails a try and is over after the last.
AddRetry(s) == Append(s, Attempts)
EndRetry(s) == Tail(s)
DropFirst(s) == IF Head(s) = 1 THEN EndRetry(s) ELSE <<Head(s) - 1>> \o Tail(s)

-----------------------------------------------------------------------------
(* The origin: StartTunnel *)

originElse == <<linkVars, back, destVars, gaveUp, recvConsumed, opaused, grace, oretries>>

Request ==
  /\ opc = "request"
  /\ SendFwd(Msg("request", 0))
  /\ opc' = "store"
  /\ UNCHANGED <<originElse, ogen, held, active, hasState, sendActive, sendCh, done,
                 oclosed, events, free>>

\* peerDone is read on the way to activeTunnels.Store.
StoreTunnel ==
  /\ opc = "store"
  /\ ogen' = (IF up THEN gen ELSE 0) /\ active' = TRUE
  /\ opc' = "state"
  /\ UNCHANGED <<originElse, fwd, held, hasState, sendActive, sendCh, done,
                 oclosed, events, free>>

StoreState ==
  /\ opc = "state"
  /\ hasState' = TRUE
  /\ opc' = "grant"
  /\ UNCHANGED <<originElse, fwd, ogen, held, active, sendActive, sendCh, done,
                 oclosed, events, free>>

GrantBack ==
  /\ opc = "grant"
  /\ SendFwd(Msg("credits", Cap))
  /\ opc' = "loop"
  /\ UNCHANGED <<originElse, ogen, held, active, hasState, sendActive, sendCh, done,
                 oclosed, events, free>>

CheckActive ==
  /\ opc = "loop"
  /\ opc' = IF sendActive THEN "wait" ELSE "read"
  /\ UNCHANGED <<originElse, fwd, ogen, held, active, hasState, sendActive, sendCh,
                 done, oclosed, events, free>>

AcquireCredit ==
  /\ opc = "wait" /\ sendCh > 0
  /\ sendCh' = sendCh - 1 /\ held' = TRUE
  /\ opc' = "read"
  /\ UNCHANGED <<originElse, fwd, ogen, active, hasState, sendActive, done, oclosed,
                 events, free>>

\* Mutant: the wait for a credit does not look at the tunnel's done channel.
AbandonPeerOnly ==
  /\ opc = "wait" /\ (ogen # gen \/ ~up)
  /\ opc' = "done" /\ active' = FALSE /\ hasState' = FALSE /\ oclosed' = TRUE
  /\ UNCHANGED <<originElse, fwd, ogen, held, sendActive, sendCh, done, events, free>>

\* done or peerDone: return without a PeerTunnelClose.
Abandon ==
  /\ opc = "wait" /\ (done \/ ogen # gen \/ ~up)
  /\ opc' = "done" /\ active' = FALSE /\ hasState' = FALSE /\ oclosed' = TRUE
  /\ UNCHANGED <<originElse, fwd, ogen, held, sendActive, sendCh, done, events, free>>

\* PausableConn.Read: wait while paused, then read the socket.
ReadUnpaused ==
  /\ opc = "read" /\ ~opaused /\ ~oclosed
  /\ opc' = "reading"
  /\ UNCHANGED <<originElse, fwd, ogen, held, active, hasState, sendActive, sendCh,
                 done, oclosed, events, free>>

ReadUser ==
  /\ opc = "reading" /\ ~oclosed /\ Event
  /\ opc' = "send"
  /\ UNCHANGED <<originElse, fwd, ogen, held, active, hasState, sendActive, sendCh,
                 done, oclosed, free>>

ReadEnds ==
  /\ opc = "reading" \/ (opc = "read" /\ oclosed)
  /\ opc' = "close"
  /\ UNCHANGED <<originElse, fwd, ogen, held, active, hasState, sendActive, sendCh,
                 done, oclosed, events, free>>

\* Mutant: a dropped frame's credit is not refunded.
SendFrameNoRefund ==
  /\ opc = "send"
  /\ SendFwd(Msg("data", 0))
  /\ held' = FALSE
  /\ free' = IF held THEN free ELSE free + 1
  /\ opc' = "loop"
  /\ UNCHANGED <<originElse, ogen, active, hasState, sendActive, sendCh, done, oclosed,
                 events>>

\* A frame that is dropped refunds a credit once flow control is active,
\* whether this frame spent one or not.
SendFrame ==
  /\ opc = "send"
  /\ \/ /\ PutFwd(Msg("data", 0))
        /\ UNCHANGED sendCh
     \/ /\ sendCh' = IF sendActive THEN AtMost(sendCh + 1, Cap) ELSE sendCh
        /\ UNCHANGED fwd
  /\ held' = FALSE
  /\ free' = IF held THEN free ELSE free + 1
  /\ opc' = "loop"
  /\ UNCHANGED <<originElse, ogen, active, hasState, sendActive, done, oclosed, events>>

\* PeerTunnelClose, then the deferred deletes and the close of the conn.
SendClose ==
  /\ opc = "close"
  /\ SendFwd(Msg("close", 0))
  /\ opc' = "done" /\ active' = FALSE /\ hasState' = FALSE /\ oclosed' = TRUE
  /\ UNCHANGED <<originElse, ogen, held, sendActive, sendCh, done, events, free>>

StartTunnel ==
  \/ Request \/ StoreTunnel \/ StoreState \/ GrantBack \/ CheckActive
  \/ AcquireCredit \/ Abandon \/ ReadUnpaused \/ SendFrame \/ SendClose
  \/ (oclosed /\ ReadEnds)

-----------------------------------------------------------------------------
(* The origin's readPump *)

readElse == <<linkVars, destVars, opc, ogen, held, events, free, gaveUp>>

Arrives(k) == up /\ back # <<>> /\ Head(back).kind = k /\ back' = Tail(back)

\* A frame for a tunnel not (or no longer) in activeTunnels is dropped.  After
\* a write the consumption is counted, and a batch returned or retried.
DataToUser ==
  /\ Arrives("data") /\ ~(active /\ oclosed)
  /\ LET n == IF active /\ hasState THEN recvConsumed + 1 ELSE recvConsumed
     IN  IF n < Batch
         THEN recvConsumed' = n /\ UNCHANGED <<fwd, oretries>>
         ELSE /\ recvConsumed' = 0
              /\ \/ PutFwd(Msg("credits", n)) /\ UNCHANGED oretries
                 \/ UNCHANGED fwd /\ oretries' = AddRetry(oretries)
  /\ UNCHANGED <<readElse, active, hasState, sendActive, sendCh, done, opaused, oclosed,
                 grace>>

\* The write fails: GracefulCloseConn closes the user's connection in the end.
DataRefused ==
  /\ active /\ Arrives("data")
  /\ grace' = TRUE
  /\ UNCHANGED <<readElse, fwd, active, hasState, sendActive, sendCh, done, recvConsumed,
                 opaused, oclosed, oretries>>

GraceOver ==
  /\ grace
  /\ grace' = FALSE /\ oclosed' = TRUE
  /\ UNCHANGED <<readElse, fwd, back, active, hasState, sendActive, sendCh, done,
                 recvConsumed, opaused, oretries>>

CloseArrives ==
  /\ Arrives("close")
  /\ active' = FALSE
  /\ oclosed' = (oclosed \/ active) /\ done' = (done \/ (active /\ hasState))
  /\ UNCHANGED <<readElse, fwd, hasState, sendActive, sendCh, recvConsumed, opaused, grace, oretries>>

PauseArrives ==
  /\ Arrives("pause")
  /\ opaused' = (opaused \/ (active /\ ~oclosed))
  /\ UNCHANGED <<readElse, fwd, active, hasState, sendActive, sendCh, done, recvConsumed,
                 oclosed, grace, oretries>>

ResumeArrives ==
  /\ Arrives("resume")
  /\ opaused' = (opaused /\ (~active \/ oclosed))
  /\ UNCHANGED <<readElse, fwd, active, hasState, sendActive, sendCh, done, recvConsumed,
                 oclosed, grace, oretries>>

\* Without a tunnelState the credits go to the manager, which has no such
\* inbound tunnel.
CreditsArrive ==
  /\ Arrives("credits")
  /\ sendActive' = (sendActive \/ hasState)
  /\ sendCh' = IF hasState THEN AtMost(sendCh + Head(back).n, Cap) ELSE sendCh
  /\ UNCHANGED <<readElse, fwd, active, hasState, done, recvConsumed, opaused, oclosed,
                 grace, oretries>>

OriginReader == DataToUser \/ DataRefused \/ CloseArrives \/ PauseArrives \/ ResumeArrives \/ CreditsArrive

-----------------------------------------------------------------------------
(* The destination's readPump: it waits while a frame is in the pipe *)

destElse == <<linkVars, originVars>>

Received(k) == up /\ ~pipe /\ fwd # <<>> /\ Head(fwd).kind = k /\ fwd' = Tail(fwd)

\* No backend for the route: ignored, the origin is not told.
RequestIgnored ==
  /\ Received("request")
  /\ UNCHANGED <<destElse, back, destVars, gaveUp, events>>

HandleTunnelRequest ==
  /\ Received("request")
  /\ entry' = TRUE /\ dgen' = gen /\ dpc' = "add"
  /\ PutBack(Msg("credits", Cap)) \/ UNCHANGED back
  /\ UNCHANGED <<destElse, pipe, dclosed, dpaused, creditActive, dcred, fconsumed, dw,
                 dretries, events, dfree, gaveUp>>

HandleTunnelData ==
  /\ Received("data")
  /\ pipe' = (entry /\ ~dclosed)
  /\ UNCHANGED <<destElse, back, entry, dgen, dpc, dclosed, dpaused, creditActive, dcred,
                 fconsumed, dw, dretries, events, dfree, gaveUp>>

\* TunneledConn.Close: once, with a PeerTunnelClose to the origin.
CloseConn ==
  /\ dclosed' = TRUE
  /\ IF dclosed THEN UNCHANGED back ELSE SendBack(Msg("close", 0))

HandleTunnelClose ==
  /\ Received("close")
  /\ entry' = FALSE
  /\ IF entry THEN CloseConn ELSE UNCHANGED <<dclosed, back>>
  /\ UNCHANGED <<destElse, dgen, dpc, pipe, dpaused, creditActive, dcred, fconsumed, dw,
                 dretries, events, dfree, gaveUp>>

AddTunnelCredits ==
  /\ Received("credits")
  /\ creditActive' = (creditActive \/ entry)
  /\ dcred' = IF entry THEN AtMost(dcred + Head(fwd).n, Cap) ELSE dcred
  /\ UNCHANGED <<destElse, back, entry, dgen, dpc, pipe, dclosed, dpaused, fconsumed, dw,
                 dretries, events, dfree, gaveUp>>

\* Mutant: the count of a batch is not taken back.
PipeReadCountsOn ==
  /\ pipe /\ dpc = "read"
  /\ pipe' = FALSE /\ dpc' = "send" /\ fconsumed' = fconsumed + 1
  /\ IF fconsumed' < Batch THEN UNCHANGED back ELSE QueuedBack(Msg("credits", Batch))
  /\ UNCHANGED <<destElse, fwd, entry, dgen, dclosed, dpaused, creditActive, dcred, dw, events,
                 dretries, dfree, gaveUp>>

\* The proxy client has read the frame: WriteToPipe returns to readPump, which
\* counts the frame and returns a batch of credits or retries.
PipeRead ==
  /\ pipe /\ dpc = "read"
  /\ pipe' = FALSE /\ dpc' = "send"
  /\ IF fconsumed + 1 < Batch
     THEN fconsumed' = fconsumed + 1 /\ UNCHANGED <<back, dretries>>
     ELSE /\ fconsumed' = 0
          /\ \/ QueuedBack(Msg("credits", Batch)) /\ UNCHANGED dretries
             \/ UNCHANGED back /\ dretries' = AddRetry(dretries)
  /\ UNCHANGED <<destElse, fwd, entry, dgen, dclosed, dpaused, creditActive, dcred, dw, events,
                 dfree, gaveUp>>

\* Close ends a write to the pipe.
PipeClosed ==
  /\ pipe /\ dclosed
  /\ pipe' = FALSE
  /\ UNCHANGED <<destElse, fwd, back, entry, dgen, dpc, dclosed, dpaused, creditActive, dcred,
                 fconsumed, dw, dretries, events, dfree, gaveUp>>

DestReader == RequestIgnored \/ HandleTunnelRequest \/ HandleTunnelData \/ HandleTunnelClose
                \/ AddTunnelCredits \/ PipeRead \/ PipeClosed

-----------------------------------------------------------------------------
(* The destination's proxy client and the drain of its buffered conn *)

clientElse == <<destElse, fwd, dgen, dpaused, creditActive, dcred, fconsumed, dretries, gaveUp>>

AddClient ==
  /\ dpc = "add"
  /\ dpc' = "read"
  /\ UNCHANGED <<clientElse, back, entry, pipe, dclosed, dw, events, dfree>>

AddClientFails ==
  /\ dpc = "add"
  /\ CloseConn
  /\ entry' = FALSE /\ dpc' = "exit"
  /\ UNCHANGED <<clientElse, pipe, dw, events, dfree>>

\* Backend.SendData, which returns an error or takes the frame.
SendData ==
  /\ dpc = "send"
  /\ dpc' \in {"read", "remove"}
  /\ UNCHANGED <<clientElse, back, entry, pipe, dclosed, dw, events, dfree>>

PipeEOF ==
  /\ dpc = "read" /\ ~pipe /\ dclosed
  /\ dpc' = "remove"
  /\ UNCHANGED <<clientElse, back, entry, pipe, dclosed, dw, events, dfree>>

\* Mutant: the client is removed and its conn left open.
RemoveClientOnly ==
  /\ dpc = "remove"
  /\ entry' = FALSE /\ dpc' = "exit"
  /\ UNCHANGED <<clientElse, back, dclosed, pipe, dw, events, dfree>>

\* RemoveClient closes the conn; the goroutine clears the tunnel's entry.
RemoveClient ==
  /\ dpc = "remove"
  /\ CloseConn
  /\ entry' = FALSE /\ dpc' = "exit"
  /\ UNCHANGED <<clientElse, pipe, dw, events, dfree>>

\* The backend reports EventDisconnect, goes away, or its frame finds the
\* drain goroutine gone.
BackendCloses ==
  /\ dpc \in {"read", "send"} /\ ~dclosed
  /\ CloseConn
  /\ UNCHANGED <<clientElse, entry, dpc, pipe, dw, events, dfree>>

Serving == dpc \in {"read", "send"} /\ ~dclosed

\* TunneledConn.Write, called by drain.
Write ==
  /\ Serving /\ dw = "idle" /\ Event
  /\ dw' = IF creditActive THEN "wait" ELSE "free"
  /\ UNCHANGED <<clientElse, back, entry, dpc, pipe, dclosed, dfree>>

WriteAcquire ==
  /\ dw = "wait" /\ dcred > 0
  /\ dcred' = dcred - 1
  /\ dw' = "held"
  /\ UNCHANGED <<destElse, fwd, back, entry, dgen, dpc, pipe, dclosed, dpaused, creditActive,
                 fconsumed, dretries, events, dfree, gaveUp>>

WriteClosed ==
  /\ dw = "wait" /\ dclosed
  /\ dw' = "failed"
  /\ UNCHANGED <<clientElse, back, entry, dpc, pipe, dclosed, events, dfree>>

\* A frame that finds the channel full ends the drain goroutine.
WriteSend ==
  /\ dw \in {"free", "held"}
  /\ \/ QueuedBack(Msg("data", 0)) /\ dw' = "idle"
     \/ UNCHANGED back /\ dw' = "failed"
  /\ dfree' = IF dw = "free" THEN dfree + 1 ELSE dfree
  /\ UNCHANGED <<clientElse, entry, dpc, pipe, dclosed, events>>

pauseElse == <<destElse, fwd, entry, dgen, dpc, pipe, dclosed, creditActive, dcred, fconsumed,
               dw, dretries, dfree, gaveUp>>

\* Mutant: the flag is cleared whether the message was queued or not.
ResumeAlways ==
  /\ Serving /\ dpaused /\ Event
  /\ SendBack(Msg("resume", 0)) /\ dpaused' = FALSE
  /\ UNCHANGED pauseElse

\* handlePauseStream and handleResumeStream of the hub: the flag changes only
\* if the message was queued.
Pause ==
  /\ Serving /\ ~dpaused /\ Event
  /\ \/ QueuedBack(Msg("pause", 0)) /\ dpaused' = TRUE
     \/ UNCHANGED back /\ UNCHANGED dpaused
  /\ UNCHANGED pauseElse

Resume ==
  /\ Serving /\ dpaused /\ Event
  /\ \/ QueuedBack(Msg("resume", 0)) /\ dpaused' = FALSE
     \/ UNCHANGED back /\ UNCHANGED dpaused
  /\ UNCHANGED pauseElse

DestClient == AddClient \/ AddClientFails \/ SendData \/ PipeEOF \/ RemoveClient
DestWriter == WriteAcquire \/ WriteClosed \/ WriteSend

-----------------------------------------------------------------------------
(* retryCreditSend and the link *)

RetryToDest ==
  /\ oretries # <<>>
  /\ \/ /\ PutFwd(Msg("credits", Batch))
        /\ oretries' = EndRetry(oretries) /\ UNCHANGED gaveUp
     \/ /\ oretries' = DropFirst(oretries)
        /\ gaveUp' = (gaveUp \/ Head(oretries) = 1) /\ UNCHANGED fwd
  /\ UNCHANGED <<linkVars, back, destVars, opc, ogen, held, active, hasState, sendActive,
                 sendCh, done, recvConsumed, opaused, oclosed, grace, events, free>>

RetryToOrigin ==
  /\ dretries # <<>>
  /\ \/ /\ QueuedBack(Msg("credits", Batch))
        /\ dretries' = EndRetry(dretries) /\ UNCHANGED gaveUp
     \/ /\ UNCHANGED back /\ dretries' = DropFirst(dretries)
        /\ gaveUp' = (gaveUp \/ Head(dretries) = 1)
  /\ UNCHANGED <<destElse, fwd, entry, dgen, dpc, pipe, dclosed, dpaused, creditActive, dcred,
                 fconsumed, dw, events, dfree>>

\* What the origin had written is lost, the rest waits for the next connection.
LoseWritten == \E k \in 0 .. Len(fwd) : fwd' = SubSeq(fwd, k + 1, Len(fwd))

Disconnect ==
  /\ up /\ Event
  /\ up' = FALSE /\ back' = <<>>
  /\ LoseWritten
  /\ UNCHANGED <<gen, originVars, destVars, gaveUp>>

Reconnect ==
  /\ ~up
  /\ up' = TRUE /\ gen' = gen + 1
  /\ UNCHANGED <<fwd, back, originVars, destVars, gaveUp, events>>

Next ==
  \/ StartTunnel \/ ReadUser \/ ReadEnds \/ OriginReader \/ GraceOver \/ DestReader
  \/ DestClient \/ BackendCloses \/ Write \/ DestWriter \/ Pause \/ Resume
  \/ RetryToDest \/ RetryToOrigin \/ Disconnect \/ Reconnect

Spec == Init /\ [][Next]_vars

(***************************************************************************)
(* Fairness: goroutines that can run do, a lost link is dialled again,     *)
(* SendData returns (it has a timeout).  The end user, the backend and the *)
(* other tunnels owe nothing.                                              *)
(***************************************************************************)
FairSpec ==
  /\ Spec
  /\ WF_vars(StartTunnel) /\ WF_vars(OriginReader) /\ WF_vars(GraceOver) /\ WF_vars(DestReader)
  /\ WF_vars(DestClient) /\ WF_vars(DestWriter)
  /\ WF_vars(RetryToDest) /\ WF_vars(RetryToOrigin) /\ WF_vars(Reconnect)

-----------------------------------------------------------------------------
(* Properties *)

\* The messages of a kind in a channel; the single credits its messages carry,
\* numbered within their message; the credits that retries have yet to send.
At(s, k) == {i \in 1 .. Len(s) : s[i].kind = k}
Units(s) == {u \in (1 .. Len(s)) \X (1 .. Cap) : s[u[1]].kind = "credits" /\ u[2] <= s[u[1]].n}
Count(s, k) == Cardinality(At(s, k))
Credits(s) == Cardinality(Units(s))
Owed(retries) == Batch * Len(retries)
One(b) == IF b THEN 1 ELSE 0

\* Where the credits of a direction are that the sender does not have: in a
\* frame on its way, counted by the receiver, or on their way back.
AwayToDest == Count(fwd, "data") + One(pipe) + fconsumed + Credits(back) + Owed(dretries)
AwayToOrigin == Count(back, "data") + recvConsumed + Credits(fwd) + Owed(oretries)
HeldToDest == sendCh + One(held)
HeldToOrigin == dcred + One(dw = "held")
ToDest == HeldToDest + AwayToDest
ToOrigin == HeldToOrigin + AwayToOrigin

\* Before the initial grant is sent the receiver has it.
DueToDest == (IF dpc = "none" THEN Cap ELSE 0) + AwayToDest
DueToOrigin == (IF opc \in {"request", "store", "state", "grant"} THEN Cap ELSE 0) + AwayToOrigin

\* Either direction as a window of credits. A tunnel's link may fail, so no
\* direction stays open.
ToDestWindow == INSTANCE CreditWindow WITH
  Window <- Cap, extra <- free, open <- FALSE, held <- HeldToDest, away <- DueToDest

ToOriginWindow == INSTANCE CreditWindow WITH
  Window <- Cap, extra <- dfree, open <- FALSE, held <- HeldToOrigin, away <- DueToOrigin

(***************************************************************************)
(* Both directions implement CreditWindow: drops, refunds, retries and     *)
(* lost links may lose credits and never multiply them, beyond the frames  *)
(* sent before flow control was active.                                    *)
(***************************************************************************)
ImplementsWindows == ToDestWindow!Spec /\ ToOriginWindow!Spec

Linked == up /\ gen = 1 /\ ~gaveUp /\ hasState /\ active /\ ~oclosed /\ ~grace
            /\ entry /\ ~dclosed

(***************************************************************************)
(* Between two live ends a whole batch stays in circulation in either      *)
(* direction, so the receivers' counts below a batch can never hold all of *)
(* it, as long as no retryCreditSend has given up.                         *)
(***************************************************************************)
BatchCirculates ==
  Linked => /\ sendActive => ToDest >= Batch
            /\ creditActive /\ dw # "failed" => ToOrigin >= Batch

(***************************************************************************)
(* Pause and Resume change the flag only if the message was queued: an end *)
(* user is held back only while the destination knows it, or the resume is *)
(* on its way.                                                             *)
(***************************************************************************)
PauseMirrored ==
  opaused /\ ~oclosed /\ active /\ up /\ gen = 1
    => dpaused \/ dclosed \/ Count(back, "resume") > 0

(***************************************************************************)
(* WriteToPipe, called by the readPump that all tunnels of the peer share, *)
(* never blocks indefinitely.                                              *)
(***************************************************************************)
PipeFreed == pipe ~> ~pipe

(***************************************************************************)
(* A PeerTunnelClose that finds the tunnel ends StartTunnel wherever it    *)
(* is: waiting for a credit, held back by a pause, or not yet in its loop. *)
(***************************************************************************)
StartTunnelEnds == (oclosed /\ ~active) ~> (opc = "done")

=============================================================================
