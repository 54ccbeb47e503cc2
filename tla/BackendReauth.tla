--------------------------- MODULE BackendReauth ---------------------------
(***************************************************************************)
(* One backend session of the hub after its handshake                      *)
(* (src/internal/hub/backend.go): the three goroutines of StartPumps.      *)
(* reauthLoop challenges the backend every reauthInterval, deferring while *)
(* the authorizer is unhealthy, and ends the session with a 1008 frame     *)
(* when an answer is missing, wrong or late.  writePump writes the control *)
(* lane, the data lane and pings under connWriteMu.  readPump hands text   *)
(* frames to reauthLoop.                                                   *)
(*                                                                         *)
(* Time is counted in ticks.  It passes while reauthLoop sleeps, asks the  *)
(* authorizer, waits for an answer and has it validated, each up to its    *)
(* own limit.  The backend reads challenges as the client's readPump does  *)
(* and answers one some time later, perhaps more than once, or goes away.  *)
(***************************************************************************)
EXTENDS Integers, Sequences

CONSTANTS
  Interval,   \* reauthInterval when the claims ask for one
  Jitter,     \* what jitterDuration adds at most
  Grace,      \* reauthGrace
  Caps,       \* values of maintenanceCap
  CheckTime,  \* healthCheckTimeout
  AuthTime,   \* authTimeout, for the validation of a token
  CtlCap,     \* capacity of outgoingControl
  OutCap,     \* bound: frames the connection holds
  MaxAnswers, \* bound: answers to one challenge
  MaxRounds   \* bound: challenges

ASSUME ReauthConstants ==
  /\ Interval \in Nat \ {0} /\ Grace \in Nat \ {0} /\ Jitter \in Nat
  /\ Caps \subseteq Nat /\ Caps # {}
  /\ CheckTime \in Nat /\ AuthTime \in Nat
  /\ CtlCap \in Nat \ {0} /\ OutCap \in Nat \ {0}
  /\ MaxAnswers \in Nat /\ MaxRounds \in Nat

VARIABLES
  pc, timer, delay,      \* reauthLoop: control point, ticks left, length of a deferral
  interval, cap, uri,    \* reauthInterval, maintenanceCap, authorizerStatusURI # ""
  used,                  \* maintenanceUsed
  pending, nonce, got,   \* reauthPending, number of the challenge, token taken
  tokens,                \* reauthTokens: the nonce a token answers, 0 if empty
  ctl,                   \* outgoingControl: nonce of a challenge, 0 for the rest
  mu, wpc, wmsg,         \* connWriteMu; writePump and the frame it took
  rpc, rtok,             \* readPump and the token it read
  closed, quit,
  out, inn,              \* the connection: frames to the backend, its answers
  dev, left, devUp,      \* the backend: challenge it read, answers left, connected
  since                  \* ticks since the session was last authenticated

loopVars == <<pc, timer, delay, interval, cap, uri, used, pending, nonce, got, since>>
writeVars == <<wpc, wmsg>>
readVars == <<rpc, rtok>>
devVars == <<inn, dev, left, devUp>>
vars == <<loopVars, tokens, ctl, mu, writeVars, readVars, closed, quit, out, devVars>>

AtMost(n, m) == IF n > m THEN m ELSE n
Jittered(d) == d .. d + Jitter
CloseFrame == -1

Init ==
  /\ interval \in {0, Interval} /\ cap \in Caps /\ uri \in BOOLEAN
  /\ pc = "rest" /\ timer \in (IF interval = 0 THEN {0} ELSE Jittered(interval))
  /\ delay = 0 /\ used = 0 /\ pending = FALSE /\ nonce = 0 /\ got = 0
  /\ tokens = 0 /\ ctl = <<>> /\ mu = "free" /\ wpc = "select" /\ wmsg = 0
  /\ rpc = "read" /\ rtok = 0 /\ closed = FALSE /\ quit = FALSE
  /\ out = <<>> /\ inn = <<>> /\ dev = 0 /\ left = 0 /\ devUp = TRUE /\ since = 0

\* closeOnce.Do: the pumps are told to stop and the connection is closed.
Close == closed' = TRUE /\ quit' = TRUE

-----------------------------------------------------------------------------
(* reauthLoop and performReauth *)

loopElse == <<ctl, tokens, mu, writeVars, readVars, closed, quit, out, devVars>>
sessionVars == <<interval, cap, uri, since>>

\* authorizerHealthy gives the request healthCheckTimeout.
AskAuthorizer == pc' = "health" /\ timer' = CheckTime

\* Without a status URI the challenge follows at once.
TimerFires ==
  /\ pc = "rest" /\ interval > 0 /\ timer = 0 /\ nonce < MaxRounds
  /\ IF uri THEN AskAuthorizer ELSE pc' = "nonce" /\ UNCHANGED timer
  /\ UNCHANGED <<loopElse, sessionVars, delay, used, pending, nonce, got>>

RestQuits ==
  /\ pc = "rest" /\ quit
  /\ pc' = "gone" /\ timer' = 0
  /\ UNCHANGED <<loopElse, sessionVars, delay, used, pending, nonce, got>>

Healthy ==
  /\ pc = "health"
  /\ used' = 0 /\ pc' = "nonce" /\ timer' = 0
  /\ UNCHANGED <<loopElse, sessionVars, delay, pending, nonce, got>>

\* Mutant: the jittered delay is not cut to what remains of the cap.
deferUncut ==
  /\ pc = "health"
  /\ IF cap - used <= 0
     THEN pc' = "nonce" /\ timer' = 0 /\ UNCHANGED delay
     ELSE /\ pc' = "defer"
          /\ delay' \in Jittered(AtMost(interval, cap - used)) /\ timer' = delay'
  /\ UNCHANGED <<loopElse, sessionVars, used, pending, nonce, got>>

\* The authorizer is unhealthy or has not answered in time: sleep within what
\* remains of the cap, or go on.
deferForMaintenance ==
  /\ pc = "health"
  /\ IF cap - used <= 0
     THEN pc' = "nonce" /\ timer' = 0 /\ UNCHANGED delay
     ELSE /\ pc' = "defer"
          /\ \E d \in Jittered(AtMost(interval, cap - used)) : delay' = AtMost(d, cap - used)
          /\ timer' = delay'
  /\ UNCHANGED <<loopElse, sessionVars, used, pending, nonce, got>>

DeferOver ==
  /\ pc = "defer" /\ timer = 0
  /\ used' = used + delay /\ delay' = 0 /\ AskAuthorizer
  /\ UNCHANGED <<loopElse, sessionVars, pending, nonce, got>>

DeferQuits ==
  /\ pc = "defer" /\ quit
  /\ pc' = "nonce" /\ timer' = 0 /\ delay' = 0
  /\ UNCHANGED <<loopElse, sessionVars, used, pending, nonce, got>>

prepareForNonce ==
  /\ pc = "nonce"
  /\ nonce' = nonce + 1 /\ pending' = TRUE /\ pc' = "queue"
  /\ UNCHANGED <<loopElse, sessionVars, timer, delay, used, got>>

QueueChallenge ==
  /\ pc = "queue" /\ Len(ctl) < CtlCap
  /\ ctl' = Append(ctl, nonce) /\ pc' = "drain"
  /\ UNCHANGED <<tokens, mu, writeVars, readVars, closed, quit, out, devVars, sessionVars,
                 timer, delay, used, pending, nonce, got>>

QueueFails ==
  /\ pc = "queue" /\ (quit \/ Len(ctl) = CtlCap)
  /\ pending' = FALSE /\ pc' = "fail"
  /\ UNCHANGED <<loopElse, sessionVars, timer, delay, used, nonce, got>>

DrainStale ==
  /\ pc = "drain"
  /\ tokens' = 0 /\ timer' = Grace /\ pc' = "wait"
  /\ UNCHANGED <<ctl, mu, writeVars, readVars, closed, quit, out, devVars, sessionVars,
                 delay, used, pending, nonce, got>>

TakeToken ==
  /\ pc = "wait" /\ tokens # 0
  /\ got' = tokens /\ tokens' = 0 /\ pending' = FALSE
  /\ pc' = "apply" /\ timer' = AuthTime
  /\ UNCHANGED <<ctl, mu, writeVars, readVars, closed, quit, out, devVars, sessionVars,
                 delay, used, nonce>>

WaitFails ==
  /\ pc = "wait" /\ (quit \/ timer = 0)
  /\ pending' = FALSE /\ timer' = 0 /\ pc' = "fail"
  /\ UNCHANGED <<loopElse, sessionVars, delay, used, nonce, got>>

\* Mutant: processReauthToken does not compare the nonce.
ApplyAnyNonce ==
  /\ pc = "apply"
  /\ interval' \in {0, Interval} /\ cap' \in Caps /\ uri' \in BOOLEAN
  /\ used' = 0 /\ since' = 0
  /\ ctl' \in {ctl} \union (IF Len(ctl) < CtlCap THEN {Append(ctl, 0)} ELSE {})
  /\ IF interval' = 0 THEN pc' = "gone" /\ timer' = 0
                      ELSE pc' = "rest" /\ timer' \in Jittered(interval')
  /\ UNCHANGED <<tokens, mu, writeVars, readVars, closed, quit, out, devVars, delay,
                 pending, nonce, got>>

\* processReauthToken succeeds: applyClaims sets the new parameters, and the
\* result frame is queued if there is room.
applyClaims ==
  /\ pc = "apply" /\ got = nonce
  /\ interval' \in {0, Interval} /\ cap' \in Caps /\ uri' \in BOOLEAN
  /\ used' = 0 /\ since' = 0
  /\ ctl' \in {ctl} \union (IF Len(ctl) < CtlCap THEN {Append(ctl, 0)} ELSE {})
  /\ IF interval' = 0 THEN pc' = "gone" /\ timer' = 0
                      ELSE pc' = "rest" /\ timer' \in Jittered(interval')
  /\ UNCHANGED <<tokens, mu, writeVars, readVars, closed, quit, out, devVars, delay,
                 pending, nonce, got>>

\* An invalid token or none validated in time, another nonce, or claims that
\* drifted.
TokenRejected ==
  /\ pc = "apply"
  /\ pc' = "fail" /\ timer' = 0
  /\ UNCHANGED <<loopElse, sessionVars, delay, used, pending, nonce, got>>

failElse == <<sessionVars, timer, delay, used, pending, nonce, got, ctl, tokens, writeVars,
              readVars, devVars>>

\* A full connection that does not drain, or a dead one, takes nothing.
Written(f) == out' = IF quit \/ ~devUp \/ Len(out) >= OutCap THEN out ELSE Append(out, f)

PolicyFrame ==
  /\ pc = "fail" /\ mu = "free"
  /\ mu' = "policy" /\ Written(CloseFrame) /\ pc' = "unlock"
  /\ UNCHANGED <<failElse, closed, quit>>

\* Mutant: closed is left to Close, after connWriteMu is released.
PolicyUnlockOnly ==
  /\ pc = "unlock"
  /\ mu' = "free" /\ pc' = "shut"
  /\ UNCHANGED <<failElse, closed, quit, out>>

PolicyUnlock ==
  /\ pc = "unlock"
  /\ closed' = TRUE /\ mu' = "free" /\ pc' = "shut"
  /\ UNCHANGED <<failElse, quit, out>>

PolicyClose ==
  /\ pc = "shut"
  /\ Close /\ pc' = "gone"
  /\ UNCHANGED <<failElse, mu, out>>

performReauth == TimerFires \/ Healthy \/ deferForMaintenance \/ DeferOver
                   \/ DeferQuits \/ prepareForNonce \/ QueueChallenge \/ QueueFails
                   \/ DrainStale \/ TakeToken \/ WaitFails \/ applyClaims \/ TokenRejected
sendPolicyClose == PolicyFrame \/ PolicyUnlock \/ PolicyClose
reauthLoop == RestQuits \/ performReauth \/ sendPolicyClose

-----------------------------------------------------------------------------
(* writePump *)

writeElse == <<loopVars, tokens, readVars, devVars>>

WriteQuits ==
  /\ wpc = "select" /\ quit
  /\ wpc' = "exit"
  /\ UNCHANGED <<writeElse, ctl, mu, wmsg, closed, quit, out>>

TakeControl ==
  /\ wpc = "select" /\ ctl # <<>>
  /\ wmsg' = Head(ctl) /\ ctl' = Tail(ctl) /\ wpc' = "lock"
  /\ UNCHANGED <<writeElse, mu, closed, quit, out>>

\* A frame of the data lane, or the ping ticker.
TakeData ==
  /\ wpc = "select" /\ Len(out) < OutCap
  /\ wmsg' = 0 /\ wpc' = "lock"
  /\ UNCHANGED <<writeElse, ctl, mu, closed, quit, out>>

WriteLock ==
  /\ wpc = "lock" /\ mu = "free"
  /\ mu' = "write" /\ wpc' = "write"
  /\ UNCHANGED <<writeElse, ctl, wmsg, closed, quit, out>>

WriteFails ==
  /\ wpc = "write" /\ (closed \/ quit \/ ~devUp)
  /\ mu' = "free" /\ wpc' = "exit"
  /\ UNCHANGED <<writeElse, ctl, wmsg, closed, quit, out>>

\* The frame waits for room on the connection; the write deadline ends the wait.
WriteFrame ==
  /\ wpc = "write" /\ ~closed /\ ~quit /\ devUp
  /\ \/ Len(out) < OutCap /\ Written(wmsg) /\ wpc' = "select"
     \/ Len(out) >= OutCap /\ UNCHANGED out /\ wpc' = "exit"
  /\ mu' = "free"
  /\ UNCHANGED <<writeElse, ctl, wmsg, closed, quit>>

\* Mutant: writePump returns without a Close.
WriteExitOnly ==
  /\ wpc = "exit"
  /\ wpc' = "gone"
  /\ UNCHANGED <<writeElse, ctl, mu, wmsg, out, closed, quit>>

WriteExit ==
  /\ wpc = "exit"
  /\ Close /\ wpc' = "gone"
  /\ UNCHANGED <<writeElse, ctl, mu, wmsg, out>>

writePump == WriteQuits \/ TakeControl \/ WriteLock \/ WriteFails \/ WriteFrame \/ WriteExit

-----------------------------------------------------------------------------
(* readPump, the backend and time *)

readElse == <<loopVars, ctl, mu, writeVars, out, dev, left, devUp>>

\* handleTextMessage looks at reauthPending, then offers the token.
ReadText ==
  /\ rpc = "read" /\ ~quit /\ inn # <<>>
  /\ inn' = Tail(inn) /\ rtok' = Head(inn)
  /\ rpc' = IF pending THEN "push" ELSE "read"
  /\ UNCHANGED <<readElse, tokens, closed, quit>>

PushToken ==
  /\ rpc = "push"
  /\ tokens' = IF tokens = 0 THEN rtok ELSE tokens
  /\ rpc' = "read"
  /\ UNCHANGED <<readElse, inn, rtok, closed, quit>>

ReadFails ==
  /\ rpc = "read" /\ (quit \/ ~devUp)
  /\ Close /\ rpc' = "gone"
  /\ UNCHANGED <<readElse, tokens, inn, rtok>>

readPump == ReadText \/ PushToken \/ ReadFails

devElse == <<loopVars, tokens, ctl, mu, writeVars, readVars, closed, quit>>

\* The backend reads until it meets the close frame.
BackendReads ==
  /\ devUp /\ out # <<>> /\ Head(out) # CloseFrame
  /\ out' = Tail(out)
  /\ IF Head(out) = 0 THEN UNCHANGED <<dev, left>> ELSE dev' = Head(out) /\ left' = MaxAnswers
  /\ UNCHANGED <<devElse, inn, devUp>>

BackendAnswers ==
  /\ devUp /\ left > 0
  /\ inn' = Append(inn, dev) /\ left' = left - 1
  /\ UNCHANGED <<devElse, out, dev, devUp>>

BackendLeaves ==
  /\ devUp
  /\ devUp' = FALSE
  /\ UNCHANGED <<devElse, out, inn, dev, left>>

Tick ==
  /\ pc \in {"rest", "health", "defer", "wait", "apply"} /\ timer > 0
  /\ timer' = timer - 1 /\ since' = since + 1
  /\ UNCHANGED <<pc, delay, interval, cap, uri, used, pending, nonce, got, tokens, ctl, mu,
                 writeVars, readVars, closed, quit, out, devVars>>

Next == reauthLoop \/ writePump \/ TakeData \/ readPump
          \/ BackendReads \/ BackendAnswers \/ BackendLeaves \/ Tick

Spec == Init /\ [][Next]_vars

(***************************************************************************)
(* The goroutines run and time passes; the backend owes nothing.           *)
(***************************************************************************)
FairSpec ==
  Spec /\ WF_vars(reauthLoop) /\ WF_vars(writePump) /\ WF_vars(readPump)
       /\ WF_vars(Tick)

-----------------------------------------------------------------------------
(* Properties *)

(***************************************************************************)
(* No data frame, control frame or ping follows the 1008 frame on the wire *)
(* (RFC 6455 5.5.1), whichever of writePump and sendPolicyClose takes      *)
(* connWriteMu first.                                                      *)
(***************************************************************************)
NoFrameAfterClose ==
  \A i \in 1 .. Len(out) : out[i] = CloseFrame => i = Len(out)

\* Every deferral sleeps for the interval at least, or for all that remains of
\* the cap, and one more check follows the last.
MaxChecks == (cap + interval - 1) \div interval + 1
Maintenance == IF uri THEN cap + MaxChecks * CheckTime ELSE 0

(***************************************************************************)
(* A session under re-authentication is extended or refused in a bounded   *)
(* time after its last authentication, however the authorizer's health     *)
(* changes: one interval with its jitter, the maintenance cap, the checks  *)
(* that fit between its deferrals (maintenanceUsed counts the sleeps       *)
(* alone), the grace for the answer and its validation.  To write the      *)
(* close frame is not counted.                                             *)
(***************************************************************************)
SessionBounded ==
  interval > 0 /\ pc \notin {"fail", "unlock", "shut", "gone"} =>
    since <= interval + Jitter + Maintenance + Grace + AuthTime

(***************************************************************************)
(* A session is extended only after the backend has read the challenge of  *)
(* this round: no answer it sent earlier, repeated or delayed, counts.     *)
(***************************************************************************)
FreshAnswer ==
  [][pc = "apply" /\ pc' \in {"rest", "gone"} => dev = nonce]_vars

(***************************************************************************)
(* The session ends as a whole: when the backend is gone, the connection   *)
(* failed or a policy close was sent, all three goroutines of StartPumps   *)
(* return, so the hub unregisters the backend.                             *)
(***************************************************************************)
PumpsEnd ==
  (~devUp \/ closed \/ wpc = "gone") ~> (pc = "gone" /\ wpc = "gone" /\ rpc = "gone")

=============================================================================
