---------------------------- MODULE ClientSession ----------------------------
(***************************************************************************)
(* The client and its sessions: how it gets one, what the hub grants it    *)
(* and how it gets it back (SessionSetup), what becomes of the SOCKS5      *)
(* requests that use one while it is torn down (OutboundConnect, which     *)
(* takes sessions as given), and how an idle connection is checked while   *)
(* it lasts (HealthCheck).                                                 *)
(***************************************************************************)
EXTENDS OutboundConnect

CONSTANTS
  Configs, Tokens, Good, MinIdle, MaxIdle, DefaultIdle, Ports,
  MaxPermanentFailures,  \* of SessionSetup
  MaxReads               \* of HealthCheck

VARIABLES
  cfg, weather, live, cpc, failures, reading, writing, toHub, toClient, cOpen, hOpen,
  hpc, tok, meta,
  alive, pingSent, idle, timer, fired, pump, reader, pinged, pong, disconnect, known, reads

S == INSTANCE SessionSetup
H == INSTANCE HealthCheck

setupVars == <<cfg, weather, live, cpc, failures, reading, writing, toHub, toClient,
               cOpen, hOpen, hpc, tok, meta>>
healthVars == <<alive, pingSent, idle, timer, fired, pump, reader, pinged, pong,
                disconnect, known, reads>>

\* No session has more than its tokens ask for (SessionSetup.NoWidening).
NoWidening == S!NoWidening

=============================================================================
