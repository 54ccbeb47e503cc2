---------------------------- MODULE CreditLedger ----------------------------
(***************************************************************************)
(* The reverse-credit path of one client connection: the creditLedger      *)
(* (src/client/credit_ledger.go) together with the goroutines that call    *)
(* it in src/client/client.go:                                             *)
(*   - copyLocalToNexus/enqueueData pushes frames and calls NotifyEnqueue; *)
(*   - writePump/drainConnectionQueue spends credits and sends frames;     *)
(*   - readPump calls Replenish (EventResumeStream) and InitCredits        *)
(*     (EventOutboundResult), one after the other on one goroutine;        *)
(*   - transitionToClosed calls KickstartAndClose or Close;                *)
(*   - time.AfterFunc bodies run the stall probe.                          *)
(* Every atomic operation on shared state is a step of its own.  A body    *)
(* that runs under probeMu and touches only what probeMu protects is one   *)
(* step; the probe's Load-then-Add is two, with probeMu held in between.   *)
(* A successful CAS on `signaled' and the push on dataReady that follows   *)
(* are one step: only the drainer reads dataReady, and it may receive      *)
(* arbitrarily late.  Frames are counted, not identified: the queue is a   *)
(* FIFO channel and no property here tells two frames apart.               *)
(***************************************************************************)
EXTENDS Integers

CONSTANTS
  MaxCap,        \* maxReverseCreditCapacity, the ledger's maxCap
  Batch,         \* protocol.CreditReplenishBatch, the kickstart bonus
  Quantum,       \* messages drainConnectionQueue sends per turn
  QueueCap,      \* slots of the per-connection outbound queue
  InitialGrants, \* Credits of EventConnect/EventOutboundResult, 0 = old server
  ResumeGrants,  \* Credits of EventResumeStream
  MaxFrames,     \* bound: frames the local service produces
  MaxReplenish   \* bound: EventResumeStream messages

ASSUME LedgerConstants ==
  /\ MaxCap \in Nat \ {0}
  /\ Batch \in Nat \ {0}
  /\ Quantum \in Nat \ {0}
  /\ QueueCap \in Nat \ {0}
  /\ InitialGrants \subseteq Nat
  /\ ResumeGrants \subseteq Nat \ {0}
  /\ MaxFrames \in Nat
  /\ MaxReplenish \in Nat

VARIABLES
  available, signaled, closed, unlimited,      \* creditLedger atomics
  probeFired, probeGen, timer, firing,         \* stall probe; firing = bodies
                                               \* started, not yet under probeMu
  probeMu, initMu,                             \* mutexes held across steps
  awaitInit,                                   \* outboundPending entry exists
  queued, ready,                               \* outbound queue, dataReady ids
  connState, removed, drained,                 \* clientConn
  prod, drain, quota, reader, grant, closer,   \* control points
  frames, replenishes,                         \* what the bounds count
  granted, bonus, selfGrants, cycleGrants,     \* credits by origin (history)
  sent, raced, stuck                           \* frames sent (history)

ledgerVars == <<available, signaled, closed, unlimited>>
probeVars == <<probeFired, probeGen, timer, firing, probeMu, cycleGrants>>
connVars == <<connState, removed, drained>>
boundVars == <<frames, replenishes>>
creditHistory == <<granted, bonus, selfGrants>>
sendHistory == <<sent, raced, stuck>>
vars == <<ledgerVars, probeVars, initMu, awaitInit, queued, ready, connVars,
          prod, drain, quota, reader, grant, closer, boundVars,
          creditHistory, sendHistory>>

\* The range of an int64: MaxInt64 is above every capped value, and adding one
\* to it wraps around.
MaxInt64 == MaxCap + 2
MinInt64 == -MaxInt64 - 1
AddOne(n) == IF n = MaxInt64 THEN MinInt64 ELSE n + 1

-----------------------------------------------------------------------------
(* The ledger's own operations *)

clampReverseCredits(n) == IF n > MaxCap THEN MaxCap ELSE n

AddClamped(cur, n) == IF cur + n > MaxCap THEN MaxCap ELSE cur + n

Spendable == unlimited \/ available > 0

\* The CAS on signaled and, when it wins, the notify callback.
Signal ==
  /\ signaled' = TRUE
  /\ ready' = IF signaled THEN ready ELSE ready + 1

Acquire ==
  /\ Spendable
  /\ available' = IF unlimited THEN available ELSE available - 1

Release ==
  available' = IF unlimited \/ available >= MaxCap THEN available
                                                   ELSE available + 1

clearStallCycle ==
  /\ ~probeMu
  /\ probeFired' = FALSE
  /\ probeGen' = probeGen + 1
  /\ timer' = 0
  /\ cycleGrants' = 0
  /\ UNCHANGED <<firing, probeMu>>

CanArm == ~closed /\ available <= 0 /\ ~probeFired

armStallProbe ==
  /\ closed \/ ~probeMu
  /\ probeFired' = (probeFired \/ CanArm)
  /\ probeGen' = IF CanArm THEN probeGen + 1 ELSE probeGen
  /\ timer' = IF CanArm THEN probeGen + 1 ELSE timer
  /\ UNCHANGED <<firing, probeMu, cycleGrants>>

-----------------------------------------------------------------------------
(* newCreditLedger: an inbound connection (EventConnect) gets its credits  *)
(* at once, an old server's 0 selects unlimited mode; a SOCKS5 connection  *)
(* starts at 0 and waits for InitCredits.                                  *)

Init ==
  /\ awaitInit \in BOOLEAN
  /\ \E n \in InitialGrants :
       /\ unlimited = (~awaitInit /\ n = 0)
       /\ available = CASE awaitInit -> 0
                        [] unlimited -> MaxInt64
                        [] OTHER     -> clampReverseCredits(n)
  /\ granted = IF unlimited THEN 0 ELSE available
  /\ signaled = FALSE /\ closed = FALSE
  /\ probeFired = FALSE /\ probeGen = 0 /\ timer = 0 /\ firing = {}
  /\ probeMu = FALSE /\ initMu = FALSE
  /\ queued = 0 /\ ready = 0
  /\ connState = "pending" /\ removed = FALSE /\ drained = FALSE
  /\ prod = "top" /\ drain = "idle" /\ quota = 0
  /\ reader = "idle" /\ grant = 0 /\ closer = "open"
  /\ frames = 0 /\ replenishes = 0
  /\ bonus = 0 /\ selfGrants = 0 /\ cycleGrants = 0
  /\ sent = 0 /\ raced = 0 /\ stuck = FALSE

-----------------------------------------------------------------------------
(* copyLocalToNexus and enqueueData *)

prodFrame == <<closed, unlimited, available, initMu, awaitInit, connVars, drain,
               quota, reader, grant, closer, replenishes, creditHistory, sendHistory>>

isClosing == connState \in {"closing", "aborted"}

Activate ==
  /\ connState = "pending"
  /\ connState' = "active"
  /\ UNCHANGED <<ledgerVars, probeVars, initMu, awaitInit, queued, ready, removed,
                 drained, prod, drain, quota, reader, grant, closer, boundVars,
                 creditHistory, sendHistory>>

\* The loop's check of quit, then a Read that returns n > 0.
ReadLocal ==
  /\ prod = "top" /\ connState = "active" /\ frames < MaxFrames
  /\ prod' = "have"
  /\ frames' = frames + 1
  /\ UNCHANGED <<signaled, probeVars, queued, ready, prodFrame>>

PushFrame ==
  /\ prod = "have" /\ ~removed /\ queued < QueueCap
  /\ queued' = queued + 1
  /\ prod' = "load"
  /\ UNCHANGED <<signaled, probeVars, ready, frames, prodFrame>>

\* No queue any more, or enqueueTimeout with credits left or while closing:
\* enqueueData fails and copyLocalToNexus returns.
EnqueueFails ==
  /\ prod = "have"
  /\ removed \/ (queued = QueueCap /\ (isClosing \/ Spendable))
  /\ prod' = "exit"
  /\ UNCHANGED <<signaled, probeVars, queued, ready, frames, prodFrame>>

NotifyLoad ==
  /\ prod = "load"
  /\ prod' = CASE removed   -> "top"
               [] Spendable -> "signal"
               [] OTHER     -> "arm"
  /\ UNCHANGED <<signaled, probeVars, queued, ready, frames, prodFrame>>

NotifySignal ==
  /\ prod = "signal"
  /\ Signal
  /\ prod' = "top"
  /\ UNCHANGED <<probeVars, queued, frames, prodFrame>>

NotifyArm ==
  /\ prod = "arm"
  /\ armStallProbe
  /\ prod' = "top"
  /\ UNCHANGED <<signaled, queued, ready, frames, prodFrame>>

Producer == ReadLocal \/ PushFrame \/ EnqueueFails \/ NotifyLoad \/ NotifySignal
              \/ NotifyArm

-----------------------------------------------------------------------------
(* writePump and drainConnectionQueue *)

drainFrame == <<closed, unlimited, initMu, awaitInit, connState, removed, prod,
                reader, grant, closer, boundVars, creditHistory>>

\* A stale id, whose connection or queue is gone, is dropped.
ReceiveReady ==
  /\ drain = "idle" /\ ready > 0
  /\ ready' = ready - 1
  /\ drain' = IF removed THEN "idle" ELSE "acquire"
  /\ quota' = 0
  /\ UNCHANGED <<available, signaled, probeVars, queued, drained, sendHistory, drainFrame>>

TryAcquire ==
  /\ drain = "acquire"
  /\ \/ Acquire /\ drain' = "pull"
     \/ ~Spendable /\ drain' = "yield" /\ UNCHANGED available
  /\ UNCHANGED <<signaled, probeVars, queued, ready, drained, quota, sendHistory, drainFrame>>

PullFrame ==
  /\ drain = "pull"
  /\ \/ queued > 0 /\ queued' = queued - 1 /\ drain' = "write" /\ UNCHANGED available
     \/ queued = 0 /\ Release /\ drain' = "yield" /\ UNCHANGED queued
  /\ UNCHANGED <<signaled, probeVars, ready, drained, quota, sendHistory, drainFrame>>

\* Mutant: a written frame gives its credit back.
WriteFrameRelease ==
  /\ drain = "write"
  /\ Release
  /\ sent' = sent + 1
  /\ quota' = quota + 1
  /\ drain' = IF quota + 1 < Quantum THEN "acquire" ELSE "yield"
  /\ UNCHANGED <<signaled, probeVars, queued, ready, drained, raced, stuck, drainFrame>>

WriteFrame ==
  /\ drain = "write"
  /\ sent' = sent + 1
  /\ quota' = quota + 1
  /\ drain' = IF quota + 1 < Quantum THEN "acquire" ELSE "yield"
  /\ UNCHANGED <<available, signaled, probeVars, queued, ready, drained, raced,
                 stuck, drainFrame>>

\* The credit is returned and DrainYielded is skipped: signaled stays set.
WriteError ==
  /\ drain = "write"
  /\ Release
  /\ stuck' = TRUE
  /\ drain' = "defer"
  /\ UNCHANGED <<signaled, probeVars, queued, ready, drained, quota, sent, raced, drainFrame>>

\* Mutant: the turn ends without looking at the queue again.
YieldBlind ==
  /\ drain = "yield"
  /\ signaled' = FALSE
  /\ drain' = "defer"
  /\ UNCHANGED <<available, probeVars, queued, ready, drained, quota, sendHistory, drainFrame>>

YieldClear ==
  /\ drain = "yield"
  /\ signaled' = FALSE
  /\ drain' = "more"
  /\ UNCHANGED <<available, probeVars, queued, ready, drained, quota, sendHistory, drainFrame>>

YieldMore ==
  /\ drain = "more"
  /\ drain' = IF queued > 0 THEN "load" ELSE "defer"
  /\ UNCHANGED <<available, signaled, probeVars, queued, ready, drained, quota,
                 sendHistory, drainFrame>>

YieldLoad ==
  /\ drain = "load"
  /\ drain' = IF Spendable THEN "signal" ELSE "arm"
  /\ UNCHANGED <<available, signaled, probeVars, queued, ready, drained, quota,
                 sendHistory, drainFrame>>

YieldSignal ==
  /\ drain = "signal"
  /\ Signal
  /\ drain' = "defer"
  /\ UNCHANGED <<available, probeVars, queued, drained, quota, sendHistory, drainFrame>>

YieldArm ==
  /\ drain = "arm"
  /\ armStallProbe
  /\ drain' = "defer"
  /\ UNCHANGED <<available, signaled, queued, ready, drained, quota, sendHistory, drainFrame>>

\* Mutant: only a turn that sent a frame looks whether the teardown is done.
DeferCheckBusy ==
  /\ drain = "defer"
  /\ drain' = IF isClosing /\ queued = 0 /\ quota > 0 THEN "select" ELSE "idle"
  /\ UNCHANGED <<available, signaled, probeVars, queued, ready, drained, quota,
                 sendHistory, drainFrame>>

\* The deferred function: isClosing, then len(queue).
DeferCheck ==
  /\ drain = "defer"
  /\ drain' = IF isClosing /\ queued = 0 THEN "select" ELSE "idle"
  /\ UNCHANGED <<available, signaled, probeVars, queued, ready, drained, quota,
                 sendHistory, drainFrame>>

\* Its select: a frame that raced in is pulled and sent past the credits,
\* otherwise the queue is empty and drained is closed.
DeferSelect ==
  /\ drain = "select"
  /\ queued' = IF queued > 0 THEN queued - 1 ELSE queued
  /\ drained' = (drained \/ queued = 0)
  /\ drain' = IF queued > 0 THEN "raced" ELSE "idle"
  /\ UNCHANGED <<available, signaled, probeVars, ready, quota, sendHistory, drainFrame>>

DeferRaced ==
  /\ drain = "raced"
  /\ raced' = raced + 1
  /\ drained' = (drained \/ queued = 0)
  /\ drain' = "idle"
  /\ UNCHANGED <<available, signaled, probeVars, queued, ready, quota, sent, stuck, drainFrame>>

Drainer == ReceiveReady \/ TryAcquire \/ PullFrame \/ WriteFrame \/ WriteError
             \/ YieldClear \/ YieldMore \/ YieldLoad \/ YieldSignal \/ YieldArm
             \/ DeferCheck \/ DeferSelect \/ DeferRaced

-----------------------------------------------------------------------------
(* readPump: Replenish and InitCredits *)

readerFrame == <<closed, queued, connVars, prod, drain, quota, closer, frames,
                 bonus, selfGrants, sendHistory>>

ResumeStream ==
  /\ reader = "idle" /\ ~removed /\ ~unlimited /\ replenishes < MaxReplenish
  /\ \E n \in ResumeGrants : grant' = clampReverseCredits(n)
  /\ replenishes' = replenishes + 1
  /\ reader' = "clear"
  /\ UNCHANGED <<available, unlimited, signaled, probeVars, ready, initMu, awaitInit,
                 granted, readerFrame>>

ReplenishClear ==
  /\ reader = "clear"
  /\ clearStallCycle
  /\ reader' = "add"
  /\ UNCHANGED <<available, unlimited, signaled, ready, initMu, awaitInit, grant,
                 replenishes, granted, readerFrame>>

ReplenishAdd ==
  /\ reader = "add"
  /\ available' = AddClamped(available, grant)
  /\ granted' = granted + grant
  /\ reader' = "signal"
  /\ UNCHANGED <<unlimited, signaled, probeVars, ready, initMu, awaitInit, grant,
                 replenishes, readerFrame>>

\* outboundPending.LoadAndDelete succeeds at most once, and InitCredits takes
\* initMu and passes the gate on closed.
OutboundResult ==
  /\ reader = "idle" /\ awaitInit /\ ~initMu /\ ~removed /\ ~closed
  /\ awaitInit' = FALSE
  /\ \E n \in InitialGrants : grant' = clampReverseCredits(n)
  /\ clearStallCycle
  /\ initMu' = TRUE
  /\ reader' = "init"
  /\ UNCHANGED <<available, unlimited, signaled, ready, replenishes, granted, readerFrame>>

\* The connection is gone or its ledger closed: nothing is installed.
OutboundResultLate ==
  /\ reader = "idle" /\ awaitInit /\ ~initMu /\ (removed \/ closed)
  /\ awaitInit' = FALSE
  /\ UNCHANGED <<available, unlimited, signaled, probeVars, ready, initMu, grant, reader,
                 replenishes, granted, readerFrame>>

InitInstall ==
  /\ reader = "init"
  /\ initMu' = FALSE
  /\ unlimited' = (unlimited \/ grant = 0)
  /\ available' = IF grant = 0 THEN MaxInt64 ELSE AddClamped(available, grant)
  /\ granted' = granted + grant
  /\ reader' = "signal"
  /\ UNCHANGED <<signaled, probeVars, ready, awaitInit, grant, replenishes, readerFrame>>

ReaderSignal ==
  /\ reader = "signal"
  /\ Signal
  /\ reader' = "idle"
  /\ grant' = 0
  /\ UNCHANGED <<available, unlimited, probeVars, initMu, awaitInit, replenishes,
                 granted, readerFrame>>

Reader == ResumeStream \/ ReplenishClear \/ ReplenishAdd \/ OutboundResult
            \/ OutboundResultLate \/ InitInstall \/ ReaderSignal

-----------------------------------------------------------------------------
(* transitionToClosed: the state CAS admits one caller.  A connection that *)
(* was active drains (KickstartAndClose, wait for drained, the session or  *)
(* connectionDrainTimeout); a pending one is cleaned up after Close.       *)

closerFrame == <<unlimited, initMu, awaitInit, prod, drain, quota, reader, grant,
                 boundVars, granted, selfGrants, sendHistory>>

BeginTeardown ==
  /\ closer = "open"
  /\ connState' = IF connState = "active" THEN "closing" ELSE "aborted"
  /\ closer' = "cas"
  /\ UNCHANGED <<available, signaled, closed, probeVars, queued, ready, removed,
                 drained, bonus, closerFrame>>

CloseCAS ==
  /\ closer = "cas" /\ ~initMu
  /\ closed' = TRUE
  /\ closer' = "clear"
  /\ UNCHANGED <<available, signaled, probeVars, queued, ready, connVars, bonus, closerFrame>>

CloseClear ==
  /\ closer = "clear"
  /\ clearStallCycle
  /\ closer' = IF connState = "closing" THEN "add" ELSE "finalize"
  /\ UNCHANGED <<available, signaled, closed, queued, ready, connVars, bonus, closerFrame>>

KickstartAdd ==
  /\ closer = "add"
  /\ available' = IF unlimited THEN available ELSE AddClamped(available, Batch)
  /\ bonus' = IF unlimited THEN bonus ELSE bonus + Batch
  /\ closer' = "signal"
  /\ UNCHANGED <<signaled, closed, probeVars, queued, ready, connVars, closerFrame>>

KickstartSignal ==
  /\ closer = "signal"
  /\ Signal
  /\ closer' = "wait"
  /\ UNCHANGED <<available, closed, probeVars, queued, connVars, bonus, closerFrame>>

\* The select on drained, the session's end, the timer and the context.
\* Only the first leaves the queue's content to the drainer.
DrainDone ==
  /\ closer = "wait" /\ drained
  /\ closer' = "finalize"
  /\ UNCHANGED <<available, signaled, closed, probeVars, queued, ready, connVars,
                 bonus, closerFrame>>

DrainAbandoned ==
  /\ closer = "wait"
  /\ closer' = "finalize"
  /\ UNCHANGED <<available, signaled, closed, probeVars, queued, ready, connVars,
                 bonus, closerFrame>>

Finalize ==
  /\ closer = "finalize"
  /\ queued' = 0
  /\ removed' = TRUE
  /\ closer' = "done"
  /\ UNCHANGED <<available, signaled, closed, probeVars, ready, connState, drained,
                 bonus, closerFrame>>

Closer == BeginTeardown \/ CloseCAS \/ CloseClear \/ KickstartAdd \/ KickstartSignal
            \/ DrainDone \/ DrainAbandoned \/ Finalize

-----------------------------------------------------------------------------
(* The stall probe's timer and its AfterFunc bodies *)

probeFrame == <<closed, unlimited, initMu, awaitInit, queued, connVars, prod,
                drain, quota, reader, grant, closer, boundVars, granted, bonus,
                sendHistory>>

\* stallProbeInterval elapsed: the body runs on its own goroutine and Stop no
\* longer cancels it.
TimerExpires ==
  /\ timer # 0
  /\ firing' = firing \cup {timer}
  /\ timer' = 0
  /\ UNCHANGED <<available, signaled, ready, probeFired, probeGen, probeMu,
                 cycleGrants, selfGrants, probeFrame>>

ProbeCheck(gen) ==
  /\ gen \in firing /\ ~probeMu
  /\ LET stale == closed \/ probeGen # gen
     IN  /\ firing' = firing \ {gen}
         /\ probeMu' = (~stale /\ available <= 0)
         /\ probeFired' = (probeFired /\ (stale \/ available <= 0))
  /\ UNCHANGED <<available, signaled, ready, probeGen, timer, cycleGrants,
                 selfGrants, probeFrame>>

ProbeGrant ==
  /\ probeMu
  /\ available' = AddOne(available)
  /\ selfGrants' = selfGrants + 1
  /\ cycleGrants' = cycleGrants + 1
  /\ Signal
  /\ probeMu' = FALSE
  /\ UNCHANGED <<probeFired, probeGen, timer, firing, probeFrame>>

Probe == TimerExpires \/ (\E gen \in firing : ProbeCheck(gen)) \/ ProbeGrant

-----------------------------------------------------------------------------

\* A connection that is gone and whose goroutines have all returned.
Finished ==
  /\ closer = "done" /\ drain = "idle" /\ ready = 0 /\ reader = "idle"
  /\ prod \in {"top", "exit"} /\ firing = {} /\ timer = 0 /\ ~awaitInit
  /\ UNCHANGED vars

Next == Activate \/ Producer \/ Drainer \/ Reader \/ Closer \/ Probe \/ Finished

Spec == Init /\ [][Next]_vars

(***************************************************************************)
(* Fairness: the goroutines keep running and a timer that is armed fires   *)
(* (Go's scheduler).  Nothing is assumed of the local service, of the      *)
(* relay, of who closes the connection or of the drain timeout.            *)
(***************************************************************************)
ProducerRuns == PushFrame \/ NotifyLoad \/ NotifySignal \/ NotifyArm
ReaderRuns == ReplenishClear \/ ReplenishAdd \/ InitInstall \/ ReaderSignal
CloserRuns == CloseCAS \/ CloseClear \/ KickstartAdd \/ KickstartSignal
                \/ DrainDone \/ Finalize

FairSpec ==
  /\ Spec
  /\ WF_vars(ProducerRuns) /\ WF_vars(Drainer) /\ WF_vars(ReaderRuns)
  /\ WF_vars(CloserRuns) /\ WF_vars(Probe)

-----------------------------------------------------------------------------
(* Properties *)

PreYield == {"acquire", "pull", "write", "yield"}
DrainPCs == PreYield \cup {"idle", "more", "load", "signal", "arm", "defer",
                           "select", "raced"}

FlagTypes ==
  /\ signaled \in BOOLEAN /\ closed \in BOOLEAN /\ unlimited \in BOOLEAN
  /\ probeFired \in BOOLEAN /\ probeMu \in BOOLEAN /\ initMu \in BOOLEAN
  /\ awaitInit \in BOOLEAN /\ removed \in BOOLEAN /\ drained \in BOOLEAN
  /\ stuck \in BOOLEAN

DataTypes ==
  /\ available \in MinInt64 .. MaxInt64
  /\ probeGen \in Nat /\ timer \in Nat /\ firing \subseteq Nat
  /\ queued \in 0 .. QueueCap /\ ready \in Nat
  /\ connState \in {"pending", "active", "closing", "aborted"}
  /\ prod \in {"top", "have", "load", "signal", "arm", "exit"}
  /\ drain \in DrainPCs /\ quota \in 0 .. Quantum
  /\ reader \in {"idle", "clear", "add", "init", "signal"} /\ grant \in 0 .. MaxCap
  /\ closer \in {"open", "cas", "clear", "add", "signal", "wait", "finalize", "done"}
  /\ frames \in Nat /\ replenishes \in Nat
  /\ granted \in Nat /\ bonus \in Nat /\ selfGrants \in Nat /\ cycleGrants \in Nat
  /\ sent \in Nat /\ raced \in Nat

\* Type correctness of the ledger, the queue and the control points: among
\* others the queue and a drain turn stay within their capacities and a grant
\* within maxReverseCreditCapacity.
TypeOK == FlagTypes /\ DataTypes

\* The signaled flag (credit_ledger.go: the CAS before every notify) keeps one
\* wakeup per connection: its id is in dataReady at most once and never while
\* its own drain turn is before DrainYielded, and a set flag has a wakeup
\* behind it unless a write failed or the connection is gone.
OneWakeup ==
  LET turns == ready + IF drain \in PreYield THEN 1 ELSE 0
  IN  /\ turns <= 1
      /\ ~signaled => turns = 0
      /\ signaled => (turns = 1 \/ stuck \/ removed)

\* No missed wakeup: when frames wait and credits are there but no wakeup is
\* on its way, some goroutine is at a point where it is bound to look again
\* (DrainYielded clears signaled before it looks at the queue).
NoMissedWakeup ==
  (queued > 0 /\ Spendable /\ ~signaled) =>
    \/ prod \in {"load", "signal"}
    \/ drain \in {"more", "load", "signal"}
    \/ reader = "signal"
    \/ closer = "signal"

\* A connection that waits for a credit is never left without a stall probe:
\* the probe is armed or running, or it has granted in this stall cycle, or
\* a goroutine is still to decide, or a credit is on its way.
StallIsProbed ==
  (queued > 0 /\ ~Spendable /\ ~signaled /\ ~closed) =>
    \/ timer # 0 \/ firing # {} \/ probeMu \/ cycleGrants > 0
    \/ prod \in {"load", "signal", "arm"}
    \/ drain \in {"more", "load", "signal", "arm"}
    \/ reader \in {"add", "init", "signal"}

\* I2, I3 and I6: every frame sent by the drain loop is covered by a credit
\* of the relay, by the one kickstart batch, or by a probe's self-grant; no
\* interleaving of acquire, release and clamped adds mints a credit.
SendsCovered ==
  ~unlimited =>
    /\ sent + available + (IF drain \in {"pull", "write"} THEN 1 ELSE 0)
         <= granted + bonus + selfGrants
    /\ bonus <= Batch

\* I7: the probe grants itself at most one credit per stall cycle.
ProbeOncePerCycle == cycleGrants <= 1

\* I1 and I4: a capped ledger is never negative, and only a probe whose check
\* was overtaken by a clamped add can put it over maxCap, by one credit.
CapRespected == unlimited \/ available \in 0 .. MaxCap + 1

\* The deferred select sends at most one frame past the credits in the whole
\* teardown ("bounded at exactly 1", client.go).
RacedAtMostOnce == raced <= 1

\* Frames never wait for good unless the relay owes the credit: ones that
\* credits cover leave the queue, and a stall that a lost EventResumeStream
\* left behind gets the probe's grant.
FramesMove ==
  []<>(queued = 0 \/ stuck \/ removed \/ (~Spendable /\ (cycleGrants > 0 \/ closed)))

\* Teardown signals drained without waiting for connectionDrainTimeout,
\* unless frames are left for which there is no credit.
TeardownDrains ==
  (closer = "wait") ~>
     (drained \/ removed \/ stuck \/ (queued > 0 /\ ~Spendable))
=============================================================================
