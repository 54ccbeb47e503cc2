--------------------------- MODULE MCBufferedConn ---------------------------
(***************************************************************************)
(* bufferedConn over the two kinds of connection that end it differently:  *)
(* a user's TCP connection, with the window of credits (BufferedConn), and *)
(* a peer's UDP tunnel, whose Close calls back into the backend            *)
(* (UDPInbound).  A behaviour follows one of the two, `side'.              *)
(***************************************************************************)
EXTENDS BufferedConn

VARIABLES
  side,
  stack, asked, tunnel, client, onClose, once, stopped, datagrams, started, over, broken

U == INSTANCE UDPInbound WITH
  BufferCap <- 2, quit <- stopped, queue <- datagrams, closed <- over, failed <- broken

tunnelVars ==
  <<stack, asked, tunnel, client, onClose, once, stopped, datagrams, started, over, broken>>
MCVars == <<side, vars, tunnelVars>>

MCInit == Init /\ U!Init /\ side \in {"tcp", "udp"}

\* An action of one side leaves the variables of the other alone.
TCP(A) == side = "tcp" /\ A /\ UNCHANGED <<side, tunnelVars>>
UDP(A) == side = "udp" /\ A /\ UNCHANGED <<side, vars>>

MCNext ==
  \/ TCP(SendFrame)
  \/ TCP(StallProbe)
  \/ TCP(ResumeArrives)
  \/ TCP(TransitionToClosed)
  \/ TCP(KickstartAndClose)
  \/ TCP(RacedFrame)
  \/ TCP(StoreClient)
  \/ TCP(HandleData)
  \/ TCP(Enqueue)
  \/ TCP(ReaderRemoves)
  \/ TCP(HandleDisconnect)
  \/ TCP(TakeFrame)
  \/ TCP(TimerFires)
  \/ TCP(ReplenishBacksOff)
  \/ TCP(ReplenishSent)
  \/ TCP(ReplenishFails)
  \/ TCP(QuitSeen)
  \/ TCP(flushRemaining)
  \/ TCP(GateAllows)
  \/ TCP(BackoffOver)
  \/ TCP(WriteOK)
  \/ TCP(WriteFails)
  \/ TCP(WriteLast)
  \/ TCP(FlushWrite)
  \/ TCP(UserEnds)
  \/ TCP(SessionRange)
  \/ TCP(SessionDelete)
  \/ \E c \in Closers :
       \/ TCP(StopWrites(c))
       \/ TCP(CloseWrite(c))
       \/ TCP(CloseConn(c))
       \/ TCP(CloseReturns(c))
  \/ \E g \in U!Goroutines :
       \/ UDP(U!RemoveClient(g))
       \/ UDP(U!Tell(g))
       \/ UDP(U!BufferedClose(g))
       \/ UDP(U!Join(g))
       \/ UDP(U!ConnClose(g))
       \/ UDP(U!OnClose(g))
       \/ UDP(U!Release(g))
  \/ UDP(U!Request)
  \/ UDP(U!AddClient)
  \/ UDP(U!StoreClient)
  \/ UDP(U!StoreTunnel)
  \/ UDP(U!HandleTunnelData)
  \/ UDP(U!SendData)
  \/ UDP(U!DeleteTunnel)
  \/ UDP(U!HandleTunnelClose)
  \/ UDP(U!HandleData)
  \/ UDP(U!BufferedWrite)
  \/ UDP(U!HandleDisconnect)
  \/ UDP(U!CloseSession)
  \/ UDP(U!Unmap)
  \/ UDP(U!DrainWrite)
  \/ UDP(U!DrainFails)
  \/ UDP(U!DrainQuits)

\* The fairness of BufferedConn and of UDPInbound, each on its own side.
MCSpec ==
  /\ MCInit /\ [][MCNext]_MCVars
  /\ WF_vars(side = "tcp" /\ ResumeArrives) /\ WF_vars(side = "tcp" /\ StoreClient)
  /\ WF_vars(side = "tcp" /\ Reader)
  /\ WF_vars(side = "tcp" /\ Drain) /\ SF_vars(side = "tcp" /\ QuitSeen)
  /\ WF_vars(side = "tcp" /\ BackoffOver)
  /\ WF_vars(side = "tcp" /\ (closed \/ half) /\ WriteReturns)
  /\ WF_vars(side = "tcp" /\ (SessionDelete \/ \E c \in Closers : Closing(c)))
  /\ \A g \in U!Goroutines : WF_tunnelVars(side = "udp" /\ (U!Calls(g) \/ U!Own(g)))

\* A UDP tunnel is torn down to the end (UDPInbound.TeardownEnds).
TeardownEnds == U!TeardownEnds

=============================================================================
