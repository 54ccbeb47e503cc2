---------------------------- MODULE SessionSetup ----------------------------
(***************************************************************************)
(* How a backend session comes to be and comes back: the client's          *)
(* connection loop, Start and connectAndAuthenticate with its two pumps    *)
(* (src/client/client.go), against the hub's two-stage handshake,          *)
(* performHandshake, and the claims it admits (src/internal/hub/hub.go),   *)
(* and applyClaims at a re-authentication (src/internal/hub/backend.go).   *)
(* The steps of a re-authentication are BackendReauth's.                   *)
(*                                                                         *)
(* Each dial is a new connection; what a handler of the hub still does on  *)
(* an earlier one is not seen.  The token provider and the network are     *)
(* external.  In a storm any of their operations may fail and a token may  *)
(* carry any claims; in calm weather all succeed and tokens carry Good.    *)
(* The length of a back-off, events and statistics are left out.           *)
(***************************************************************************)
EXTENDS Integers, Sequences

CONSTANTS
  Configs,    \* records: tcp, udp, out (allowlists) and allowOutbound
  Tokens,     \* claims: records of hosts, tcp, udp, weight, outbound, ports
  Good,       \* claims that the hub admits
  MinIdle, MaxIdle, DefaultIdle,   \* bounds and default of a UDP route's timeout
  Ports,      \* ports a backend may ask to be dialled
  MaxPermanentFailures

VARIABLES
  cfg,              \* the hub's configuration
  weather,          \* "calm" or "storm"
  live,             \* the client's context is not cancelled
  cpc, failures,    \* Start: control point, permanentFailures
  reading, writing, \* readPump and writePump run
  toHub, toClient,  \* tokens and frames on the connection
  cOpen, hOpen,     \* its two ends
  hpc, tok, meta    \* the hub: control point, first and last claims, Backend

vars == <<cfg, weather, live, cpc, failures, reading, writing, toHub, toClient, cOpen,
          hOpen, hpc, tok, meta>>

NoClaims == [hosts |-> {}, tcp |-> {}, udp |-> {}, weight |-> 0, outbound |-> FALSE,
             ports |-> {}]
NoTok == [first |-> NoClaims, last |-> NoClaims]
NoMeta == [hosts |-> {}, tcp |-> {}, udp |-> {}, weight |-> 0, outbound |-> FALSE,
           ports |-> {}, explicit |-> FALSE]

Init ==
  /\ cfg \in Configs /\ weather \in {"calm", "storm"} /\ live = TRUE
  /\ cpc = "top" /\ failures = 0 /\ reading = FALSE /\ writing = FALSE
  /\ toHub = <<>> /\ toClient = <<>> /\ cOpen = FALSE /\ hOpen = FALSE
  /\ hpc = "none" /\ tok = NoTok /\ meta = NoMeta

-----------------------------------------------------------------------------
(* Claims.  The port 0 stands for one out of range; a hostname "" is blank   *)
(* after normalisation, "tcp:" and "udp:" are reserved route keys.  The     *)
(* hub's configuration is g.                                                *)

Reserved == {"tcp:", "udp:"}

hostsMalformed(t) == t.hosts # {} /\ t.hosts \subseteq {""}
normalizeHostnames(t) == t.hosts \ ({""} \cup Reserved)

tcpMalformed(g, t) == t.tcp # {} /\ (g.tcp = {} \/ 0 \in t.tcp)
normalizeTCPPortClaims(g, t) == t.tcp \cap g.tcp

\* A route is [port, idle]; idle 0 asks for the default.
Clamp(i) ==
  LET want == IF i = 0 THEN DefaultIdle ELSE i
  IN  IF want < MinIdle THEN MinIdle ELSE IF want > MaxIdle THEN MaxIdle ELSE want
normalizeUDPRouteClaims(g, t) ==
  {[port |-> r.port, idle |-> Clamp(r.idle)] : r \in {u \in t.udp : u.port \in g.udp}}
udpMalformed(g, t) ==
  \/ t.udp # {} /\ (g.udp = {} \/ \E r \in t.udp : r.port = 0)
  \/ \E r, s \in normalizeUDPRouteClaims(g, t) : r.port = s.port /\ r # s

outboundMalformed(g, t) ==
  \/ ~t.outbound /\ t.ports # {}
  \/ t.outbound /\ (~g.allowOutbound \/ 0 \in t.ports)
normalizeOutboundPortClaims(g, t) ==
  IF g.out = {} THEN t.ports ELSE t.ports \cap g.out

Empty(g, t) == normalizeHostnames(t) = {} /\ normalizeTCPPortClaims(g, t) = {}
              /\ normalizeUDPRouteClaims(g, t) = {}
Refused(g, t) == hostsMalformed(t) \/ tcpMalformed(g, t) \/ udpMalformed(g, t) \/ Empty(g, t)
                \/ outboundMalformed(g, t)

\* stage0Info, which becomes the Backend's metadata.
validateStage0Claims(g, t) ==
  [hosts |-> normalizeHostnames(t), tcp |-> normalizeTCPPortClaims(g, t),
   udp |-> normalizeUDPRouteClaims(g, t), weight |-> IF t.weight <= 0 THEN 1 ELSE t.weight,
   outbound |-> t.outbound, ports |-> normalizeOutboundPortClaims(g, t),
   explicit |-> t.ports # {}]

SameRoutes(g, t, m) ==
  /\ normalizeHostnames(t) = m.hosts /\ normalizeTCPPortClaims(g, t) = m.tcp
  /\ normalizeUDPRouteClaims(g, t) = m.udp
  /\ t.outbound = m.outbound /\ normalizeOutboundPortClaims(g, t) = m.ports

\* Mutant: the attested token is not asked whether it lists ports.
buildMetadataFiltered(g, t, m) ==
  ~Refused(g, t) /\ SameRoutes(g, t, m) /\ (t.weight > 0 => t.weight = m.weight)

\* The attested token has to ask for what the handshake token was granted.
buildMetadataFromClaims(g, t, m) ==
  /\ ~Refused(g, t) /\ SameRoutes(g, t, m)
  /\ (t.ports # {}) = m.explicit
  /\ t.weight > 0 => t.weight = m.weight

\* At a re-authentication a negative weight is a change too.
applyClaims(g, t, m) ==
  /\ ~Refused(g, t) /\ SameRoutes(g, t, m)
  /\ (t.ports # {}) = m.explicit
  /\ t.weight # 0 => t.weight = m.weight

-----------------------------------------------------------------------------
(* The hub: performHandshake and the session *)

hubElse == <<cfg, weather, live, cpc, failures, reading, writing, cOpen>>

\* handleBackendConnect on an error, and unregister at the end of a session.
HubEnds(frames) ==
  /\ toClient' = toClient \o frames /\ hOpen' = FALSE
  /\ hpc' = "none" /\ tok' = NoTok /\ meta' = NoMeta

\* Validate, the maximal age of a stage 0 token and what else may refuse one.
HubRefuses ==
  /\ weather = "storm" /\ hpc # "none"
  /\ HubEnds(<<"close">>) /\ UNCHANGED <<hubElse, toHub>>

\* The connection is gone, or no token comes within authTimeout or the grace.
HubLosesClient ==
  /\ hpc # "none" /\ toHub = <<>> /\ (~cOpen \/ weather = "storm")
  /\ HubEnds(<<>>) /\ UNCHANGED <<hubElse, toHub>>

ReadStage0 ==
  /\ hpc = "stage0" /\ toHub # <<>> /\ toHub' = Tail(toHub)
  /\ LET t == Head(toHub) IN
       IF Refused(cfg, t) THEN HubEnds(<<"close">>)
       ELSE /\ meta' = validateStage0Claims(cfg, t) /\ tok' = [first |-> t, last |-> t]
            /\ toClient' = Append(toClient, "challenge")
            /\ hpc' = "stage1" /\ UNCHANGED hOpen
  /\ UNCHANGED hubElse

\* Admitted: register, the result frame, StartPumps.
ReadStage1 ==
  /\ hpc = "stage1" /\ toHub # <<>> /\ toHub' = Tail(toHub)
  /\ LET t == Head(toHub) IN
       IF ~buildMetadataFromClaims(cfg, t, meta) THEN HubEnds(<<"close">>)
       ELSE /\ tok' = [tok EXCEPT !.last = t] /\ toClient' = Append(toClient, "result")
            /\ hpc' = "session" /\ UNCHANGED <<hOpen, meta>>
  /\ UNCHANGED hubElse

Challenge ==
  /\ hpc = "session" /\ toClient = <<>>
  /\ toClient' = <<"reauth">> /\ hpc' = "reauth"
  /\ UNCHANGED <<hubElse, toHub, hOpen, tok, meta>>

processReauthToken ==
  /\ hpc = "reauth" /\ toHub # <<>> /\ toHub' = Tail(toHub)
  /\ LET t == Head(toHub) IN
       IF ~applyClaims(cfg, t, meta) THEN HubEnds(<<"close">>)
       ELSE /\ tok' = [tok EXCEPT !.last = t] /\ toClient' = Append(toClient, "result")
            /\ hpc' = "session" /\ UNCHANGED <<hOpen, meta>>
  /\ UNCHANGED hubElse

Hub == ReadStage0 \/ ReadStage1 \/ processReauthToken \/ HubLosesClient

-----------------------------------------------------------------------------
(* The client: Start *)

clientElse == <<cfg, weather, live, hOpen, hpc, tok, meta>>
noConn == <<toHub, toClient, cOpen>>

\* A failed connectAndAuthenticate: a transient error or a rate limit waits,
\* permanent ones are counted.
Fails ==
  \/ cpc' = "backoff" /\ UNCHANGED failures
  \/ /\ failures' = failures + 1
     /\ cpc' = IF failures + 1 >= MaxPermanentFailures THEN "stopped" ELSE "backoff"

Unlucky == weather = "storm" \/ ~live

Top ==
  /\ cpc = "top"
  /\ cpc' = IF live THEN "dial" ELSE "stopped"
  /\ UNCHANGED <<clientElse, failures, reading, writing, noConn>>

Dial ==
  /\ cpc = "dial" /\ live
  /\ cpc' = "token" /\ cOpen' = TRUE /\ hOpen' = TRUE
  /\ toHub' = <<>> /\ toClient' = <<>>
  /\ hpc' = "stage0" /\ tok' = NoTok /\ meta' = NoMeta
  /\ UNCHANGED <<cfg, weather, live, failures, reading, writing>>

DialFails ==
  /\ cpc = "dial" /\ Unlucky
  /\ Fails /\ UNCHANGED <<clientElse, reading, writing, noConn>>

\* issueToken, and WriteMessage on a connection that the hub may have closed.
Issued == IF weather = "calm" THEN {Good} ELSE Tokens
SendToken(t) == toHub' = IF hOpen THEN Append(toHub, t) ELSE toHub

SendHandshakeToken ==
  /\ cpc = "token"
  /\ \E t \in Issued : SendToken(t)
  /\ cpc' = "challenge"
  /\ UNCHANGED <<clientElse, failures, reading, writing, toClient, cOpen>>

\* The attested token is on its way: this counts as a session.
SendAttestedToken ==
  /\ cpc = "attest"
  /\ \E t \in Issued : SendToken(t)
  /\ cpc' = "session" /\ failures' = 0 /\ reading' = TRUE /\ writing' = TRUE
  /\ UNCHANGED <<clientElse, toClient, cOpen>>

awaitChallenge ==
  /\ cpc = "challenge" /\ toClient # <<>> /\ Head(toClient) = "challenge"
  /\ toClient' = Tail(toClient) /\ cpc' = "attest"
  /\ UNCHANGED <<clientElse, failures, reading, writing, toHub, cOpen>>

\* No token, a write error, a close frame, no connection or no answer in time.
HandshakeFails ==
  /\ \/ cpc \in {"token", "attest"} /\ (Unlucky \/ ~hOpen)
     \/ cpc = "challenge" /\ toClient # <<>> /\ Head(toClient) # "challenge"
     \/ cpc = "challenge" /\ toClient = <<>> /\ (weather = "storm" \/ ~hOpen)
  /\ cOpen' = FALSE /\ Fails
  /\ UNCHANGED <<clientElse, reading, writing, toHub, toClient>>

readElse == <<clientElse, cpc, failures, writing>>

\* handleTextMessage: a challenge is answered through writePump's lane.
ReadFrame ==
  /\ reading /\ cOpen /\ toClient # <<>> /\ Head(toClient) # "close"
  /\ toClient' = Tail(toClient)
  /\ IF Head(toClient) = "reauth" /\ writing THEN \E t \in Issued : SendToken(t)
                                        ELSE UNCHANGED toHub
  /\ UNCHANGED <<readElse, reading, cOpen>>

\* A close frame, an error, or no token or no room for the answer.
ReadEnds ==
  /\ reading
  /\ \/ ~cOpen \/ weather = "storm"
     \/ toClient = <<>> /\ ~hOpen
     \/ toClient # <<>> /\ Head(toClient) = "close"
     \/ toClient # <<>> /\ Head(toClient) = "reauth" /\ ~live
  /\ reading' = FALSE /\ cOpen' = FALSE
  /\ UNCHANGED <<readElse, toHub, toClient>>

\* Mutant: without its pings writePump may never learn that the connection is
\* gone.
WriteEndsNoPing ==
  /\ writing /\ (~live \/ weather = "storm")
  /\ writing' = FALSE /\ cOpen' = FALSE
  /\ UNCHANGED <<clientElse, cpc, failures, reading, toHub, toClient>>

\* writePump: the context, or a write or ping that fails.
WriteEnds ==
  /\ writing /\ (~live \/ ~cOpen \/ ~hOpen \/ weather = "storm")
  /\ writing' = FALSE /\ cOpen' = FALSE
  /\ UNCHANGED <<clientElse, cpc, failures, reading, toHub, toClient>>

\* wg.Wait: both pumps have returned; the loop goes on without a delay.
SessionOver ==
  /\ cpc = "session" /\ ~reading /\ ~writing
  /\ cpc' = "top"
  /\ UNCHANGED <<clientElse, failures, reading, writing, noConn>>

\* The delay, a signal of the network watcher, or the context.
Backoff ==
  /\ cpc = "backoff"
  /\ \/ cpc' = "top"
     \/ ~live /\ cpc' = "stopped"
  /\ UNCHANGED <<clientElse, failures, reading, writing, noConn>>

Stop ==
  /\ live
  /\ live' = FALSE
  /\ UNCHANGED <<cfg, weather, cpc, failures, reading, writing, noConn, hOpen, hpc, tok,
                 meta>>

Start == Top \/ Dial \/ DialFails \/ SendHandshakeToken \/ SendAttestedToken
           \/ awaitChallenge \/ HandshakeFails \/ SessionOver \/ Backoff
readPump == ReadFrame \/ ReadEnds

WeatherChanges ==
  /\ weather' = IF weather = "calm" THEN "storm" ELSE "calm"
  /\ UNCHANGED <<cfg, live, cpc, failures, reading, writing, noConn, hOpen, hpc, tok,
                 meta>>

-----------------------------------------------------------------------------

Next == Hub \/ HubRefuses \/ Challenge \/ Start \/ readPump \/ WriteEnds \/ Stop
          \/ WeatherChanges

Spec == Init /\ [][Next]_vars

\* The goroutines of both sides run and their timers fire; the hub decides
\* when to challenge, and users when to stop.
Fairness == WF_vars(Hub) /\ WF_vars(Start) /\ WF_vars(readPump) /\ WF_vars(WriteEnds)

FairSpec == Spec /\ Fairness

-----------------------------------------------------------------------------
(* Properties *)

Registered == hpc \in {"session", "reauth"}

\* handleOutboundConnect: the ports a registered backend may dial.
MayDial(p) == /\ meta.outbound /\ (cfg.out = {} \/ p \in cfg.out)
              /\ meta.explicit => p \in meta.ports
AsksFor(t, p) == t.outbound /\ (t.ports = {} \/ p \in t.ports)

(***************************************************************************)
(* A session never has more than each of its tokens asked for, whatever    *)
(* tokens the stages and re-authentications show and whatever of a list    *)
(* the configuration has struck out: routes, and ports it may dial.        *)
(***************************************************************************)
NoWidening ==
  Registered => \A t \in {tok.first, tok.last} :
    /\ meta.hosts \subseteq t.hosts \ Reserved /\ meta.tcp \subseteq t.tcp \cap cfg.tcp
    /\ \A r \in meta.udp : \E u \in t.udp : u.port = r.port
    /\ \A p \in Ports : MayDial(p) => AsksFor(t, p)

(***************************************************************************)
(* However many failures, refusals and lost connections came before, a     *)
(* client whose weather has turned fine ends up registered and stays so,   *)
(* unless it was stopped or has given up on permanent errors.              *)
(***************************************************************************)
Reconnects == <>[](weather = "calm") => <>[](Registered \/ cpc = "stopped")

=============================================================================
