--------------------------- MODULE MCClientSession ---------------------------
(***************************************************************************)
(* A behaviour follows one of the three parts of ClientSession, `side'.    *)
(***************************************************************************)
EXTENDS ClientSession

VARIABLE side

\* Ports are claimed and dialled within lists; no port may be claimed and any
\* may be dialled; no outbound connections.
Listed == [tcp |-> {1}, udp |-> {1}, out |-> {1}, allowOutbound |-> TRUE]
Unlisted == [tcp |-> {}, udp |-> {}, out |-> {}, allowOutbound |-> TRUE]
Inward == [Listed EXCEPT !.allowOutbound = FALSE]

Plain == [hosts |-> {"a"}, tcp |-> {}, udp |-> {}, weight |-> 1, outbound |-> FALSE,
          ports |-> {}]
Route(p, i) == [port |-> p, idle |-> i]
Claims ==
  {Plain, [Plain EXCEPT !.ports = {1}]}
  \cup {[Plain EXCEPT !.weight = w] : w \in {-1, 0, 2}}
  \cup {[Plain EXCEPT !.outbound = TRUE, !.ports = P] : P \in SUBSET {1, 2}}
  \cup {[Plain EXCEPT !.hosts = N, !.tcp = T] :
          N \in {{}, {""}, {"tcp:"}, {"a", "tcp:"}}, T \in {{}, {1, 2}, {0, 1}}}
  \cup {[Plain EXCEPT !.udp = U] :
          U \in {{Route(1, 0), Route(1, 1)}, {Route(1, 0), Route(1, 9)}, {Route(2, 0)}}}

Allowlists == {Listed, Unlisted, Inward}

MCVars == <<side, vars, setupVars, healthVars>>

MCInit ==
  /\ Init /\ S!Init /\ H!Init
  /\ \/ side \in {"requests", "health"} /\ cfg = Listed /\ weather = "calm"
     \/ side = "setup"

\* An action of one side leaves the variables of the others alone.
Requests(A) == side = "requests" /\ A /\ UNCHANGED <<side, setupVars, healthVars>>
Setup(A) == side = "setup" /\ A /\ UNCHANGED <<side, vars, healthVars>>
Health(A) == side = "health" /\ A /\ UNCHANGED <<side, vars, setupVars>>

MCNext ==
  \/ \E c \in Conns :
       \/ Requests(Capture(c))
       \/ Requests(Rejected(c))
       \/ Requests(StoreConn(c))
       \/ Requests(StorePending(c))
       \/ Requests(Enqueue(c))
       \/ Requests(Push(c))
       \/ Requests(PushFails(c))
       \/ Requests(CheckSession(c))
       \/ Requests(TakeResult(c))
       \/ Requests(GivesUp(c))
       \/ Requests(Activate(c))
       \/ Requests(Fail(c))
       \/ Requests(FailClose(c))
       \/ Requests(LocalEnds(c))
       \/ Requests(Finalize(c))
       \/ Requests(SendDisconnect(c))
       \/ Requests(EventOutboundResult(c))
       \/ Requests(EventDisconnect(c))
       \/ Requests(CloseLocal(c))
       \/ Requests(DrainPending(c))
       \/ Requests(OutboundRefused(c))
       \/ Requests(OutboundConnect(c))
       \/ Requests(DialFails(c))
       \/ Requests(DialSucceeds(c))
       \/ Requests(AddCheck(c))
       \/ Requests(AddStore(c))
       \/ Requests(AddID(c))
       \/ Requests(AddCount(c))
       \/ Requests(SendResult(c))
       \/ Requests(LoadConn(c))
       \/ Requests(RelayEnds(c))
       \/ Requests(RemoveClient(c))
       \/ Requests(HubDisconnect(c))
  \/ Requests(LinkLost)
  \/ Requests(WritePumpExits)
  \/ Requests(ReadPumpExits)
  \/ Requests(SendResultToHandler)
  \/ Requests(Teardown)
  \/ Requests(BeginDrain)
  \/ Requests(TeardownDone)
  \/ Requests(Connect)
  \/ \E s \in Sessions :
       \/ Requests(BackendClose(s))
       \/ Requests(BackendRange(s))
       \/ Requests(BackendReset(s))
  \/ Setup(S!ReadStage0)
  \/ Setup(S!ReadStage1)
  \/ Setup(S!Challenge)
  \/ Setup(S!processReauthToken)
  \/ Setup(S!HubRefuses)
  \/ Setup(S!HubLosesClient)
  \/ Setup(S!Top)
  \/ Setup(S!Dial)
  \/ Setup(S!DialFails)
  \/ Setup(S!SendHandshakeToken)
  \/ Setup(S!awaitChallenge)
  \/ Setup(S!SendAttestedToken)
  \/ Setup(S!HandshakeFails)
  \/ Setup(S!ReadFrame)
  \/ Setup(S!ReadEnds)
  \/ Setup(S!WriteEnds)
  \/ Setup(S!SessionOver)
  \/ Setup(S!Backoff)
  \/ Setup(S!Stop)
  \/ Setup(S!WeatherChanges)
  \/ Health(H!Visit)
  \/ Health(H!SendPing)
  \/ Health(H!PingFails)
  \/ Health(H!setPongTimer)
  \/ Health(H!TimerFires)
  \/ Health(H!Timeout)
  \/ Health(H!EventPingClient)
  \/ Health(H!RemoveClient)
  \/ Health(H!CancelPongTimer)
  \/ Health(H!ClearPing)
  \/ Health(H!TouchActivity)
  \/ Health(H!EventDisconnect)
  \/ Health(H!Activity)
  \/ Health(H!Inactive)

\* The fairness of SessionSetup and of HealthCheck, each on its side.
MCSpec ==
  /\ MCInit /\ [][MCNext]_MCVars
  /\ WF_setupVars(side = "setup" /\ S!Hub) /\ WF_setupVars(side = "setup" /\ S!Start)
  /\ WF_setupVars(side = "setup" /\ S!readPump)
  /\ WF_setupVars(side = "setup" /\ S!WriteEnds)
  /\ WF_healthVars(side = "health" /\ H!Pump) /\ SF_healthVars(side = "health" /\ H!SendPing)
  /\ WF_healthVars(side = "health" /\ H!Reader)
  /\ WF_healthVars(side = "health" /\ H!TimerFires)
  /\ WF_healthVars(side = "health" /\ H!Timeout)
  /\ WF_healthVars(side = "health" /\ H!EventPingClient)
  /\ WF_healthVars(side = "health" /\ H!Inactive)

\* In calm weather the client gets its session back (SessionSetup.Reconnects).
Reconnects == side = "setup" => S!Reconnects

\* A connection the hub has lost is closed (HealthCheck.OrphanClosed).
OrphanClosed == H!OrphanClosed

=============================================================================
