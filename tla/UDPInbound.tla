----------------------------- MODULE UDPInbound -----------------------------
(***************************************************************************)
(* The destination end of a UDP tunnel between peers: the requests, data   *)
(* and closes that the peer's read pump handles (src/internal/peer/        *)
(* peer-manager.go), the tunneledUDPConn with its closeOnce and onClose    *)
(* (src/internal/peer/udp_tunnel.go), and the bufferedConn and the client  *)
(* map of the backend behind it (src/internal/hub/{buffered_conn,          *)
(* backend}.go), for one flow.                                             *)
(*                                                                         *)
(* Nobody reads from a tunneledUDPConn, so there is no Client.Start to     *)
(* clean up: its Close calls back into the backend.  The calls nest and    *)
(* some block, so a goroutine is the stack of the calls it is in, top      *)
(* first; each entry is a point between two steps that others can see.     *)
(* Credits are BufferedConn's; a send to the peer, which never blocks, may *)
(* fail at any time.                                                       *)
(***************************************************************************)
EXTENDS Integers, Sequences, SequencesExt

CONSTANT BufferCap   \* room of writeCh, in datagrams

Goroutines == {"peer", "backend", "session", "drain"}

VARIABLES
  stack,    \* goroutine -> the calls it is in
  asked,    \* the tunnel request has come
  tunnel,   \* the entry in Manager.tunnels
  client,   \* the entry in Backend.clients
  onClose,  \* tunneledUDPConn.onClose is not nil
  once,     \* its closeOnce: "free", the goroutine inside, or "done"
  quit,     \* bufferedConn.quit is closed
  queue,    \* datagrams in writeCh
  started,  \* drain was started
  closed,   \* Backend.closed
  failed    \* a write of drain failed (history)

vars == <<stack, asked, tunnel, client, onClose, once, quit, queue, started, closed, failed>>

Init ==
  /\ stack = [g \in Goroutines |-> <<>>]
  /\ asked = FALSE /\ tunnel = FALSE /\ client = FALSE /\ onClose = TRUE /\ once = "free"
  /\ quit = FALSE /\ queue = 0 /\ started = FALSE /\ closed = FALSE /\ failed = FALSE

Idle(g) == stack[g] = <<>>
At(g, l) == ~Idle(g) /\ Head(stack[g]) = l

\* The call on top of g's stack goes on with calls s, or returns.
Call(g, s) == stack' = [stack EXCEPT ![g] = s \o Tail(@)]
Return(g) == Call(g, <<>>)
Begin(g, s) == Idle(g) /\ stack' = [stack EXCEPT ![g] = s]

\* drain has closed `done'.
Drained == started /\ Idle("drain")

-----------------------------------------------------------------------------
(* Backend.RemoveClient, bufferedConn.Close and tunneledUDPConn.Close *)

RemoveClient(g) ==
  /\ At(g, "remove")
  /\ client' = FALSE
  /\ Call(g, IF client THEN <<"close", "tell">> ELSE <<>>)
  /\ UNCHANGED <<asked, tunnel, onClose, once, quit, queue, started, closed, failed>>

\* EventDisconnect for the backend.
Tell(g) ==
  /\ At(g, "tell")
  /\ Return(g)
  /\ UNCHANGED <<asked, tunnel, client, onClose, once, quit, queue, started, closed, failed>>

\* StopWrites waits for drain, or 50 ms.
BufferedClose(g) ==
  /\ At(g, "close")
  /\ quit' = TRUE
  /\ Call(g, <<"connClose", "join">>)
  /\ UNCHANGED <<asked, tunnel, client, onClose, once, queue, started, closed, failed>>

Join(g) ==
  /\ At(g, "join") /\ Drained
  /\ Return(g)
  /\ UNCHANGED <<asked, tunnel, client, onClose, once, quit, queue, started, closed, failed>>

\* closeOnce.Do: the first call runs the function; the others wait until it
\* has returned, also those made by the function itself.
ConnClose(g) ==
  /\ At(g, "connClose")
  /\ \/ once = "free" /\ once' = g /\ Call(g, <<"onClose", "release">>)
     \/ once = "done" /\ Return(g) /\ UNCHANGED once
  /\ UNCHANGED <<asked, tunnel, client, onClose, quit, queue, started, closed, failed>>

\* onClose removes the client if it finds the tunnel.
OnClose(g) ==
  /\ At(g, "onClose")
  /\ tunnel' = (tunnel /\ ~onClose)
  /\ Call(g, IF onClose /\ tunnel THEN <<"remove">> ELSE <<>>)
  /\ UNCHANGED <<asked, client, onClose, once, quit, queue, started, closed, failed>>

Release(g) ==
  /\ At(g, "release")
  /\ once' = "done"
  /\ Return(g)
  /\ UNCHANGED <<asked, tunnel, client, onClose, quit, queue, started, closed, failed>>

Calls(g) == RemoveClient(g) \/ Tell(g) \/ BufferedClose(g) \/ Join(g) \/ ConnClose(g)
              \/ OnClose(g) \/ Release(g)

-----------------------------------------------------------------------------
(* The peer's read pump *)

Request ==
  /\ ~asked /\ asked' = TRUE
  /\ Begin("peer", <<"add">>)
  /\ UNCHANGED <<tunnel, client, onClose, once, quit, queue, started, closed, failed>>

\* AddClient's connect message; without it the connection is closed and
\* nothing has to be undone.
AddClient ==
  /\ At("peer", "add")
  /\ \/ ~closed /\ Call("peer", <<"store">>) /\ UNCHANGED onClose
     \/ onClose' = FALSE /\ Call("peer", <<"connClose">>)
  /\ UNCHANGED <<asked, tunnel, client, once, quit, queue, started, closed, failed>>

\* clients.Store of a new bufferedConn, whose drain starts.
StoreClient ==
  /\ At("peer", "store")
  /\ client' = TRUE /\ started' = TRUE
  /\ stack' = [stack EXCEPT !["peer"] = <<"enter">>, !["drain"] = <<"loop">>]
  /\ UNCHANGED <<asked, tunnel, onClose, once, quit, queue, closed, failed>>

StoreTunnel ==
  /\ At("peer", "enter")
  /\ tunnel' = TRUE
  /\ Return("peer")
  /\ UNCHANGED <<asked, client, onClose, once, quit, queue, started, closed, failed>>

HandleTunnelData ==
  /\ tunnel /\ Begin("peer", <<"send">>)
  /\ UNCHANGED <<asked, tunnel, client, onClose, once, quit, queue, started, closed, failed>>

\* Mutant: the connection is closed before its client is removed.
SendDataClosesFirst ==
  /\ At("peer", "send")
  /\ \/ ~closed /\ client /\ Return("peer")
     \/ Call("peer", <<"connClose", "remove", "delete">>)
  /\ UNCHANGED <<asked, tunnel, client, onClose, once, quit, queue, started, closed, failed>>

\* SendData, after the lookup; an error ends the tunnel.
SendData ==
  /\ At("peer", "send")
  /\ \/ ~closed /\ client /\ Return("peer")
     \/ Call("peer", <<"remove", "connClose", "delete">>)
  /\ UNCHANGED <<asked, tunnel, client, onClose, once, quit, queue, started, closed, failed>>

DeleteTunnel ==
  /\ At("peer", "delete")
  /\ tunnel' = FALSE
  /\ Return("peer")
  /\ UNCHANGED <<asked, client, onClose, once, quit, queue, started, closed, failed>>

HandleTunnelClose ==
  /\ tunnel /\ tunnel' = FALSE
  /\ Begin("peer", <<"remove", "connClose">>)
  /\ UNCHANGED <<asked, client, onClose, once, quit, queue, started, closed, failed>>

PeerPump == AddClient \/ StoreClient \/ StoreTunnel \/ SendData \/ DeleteTunnel

-----------------------------------------------------------------------------
(* The backend's read pump, and Backend.Close *)

\* handleBinaryMessage loads the connection ...
HandleData ==
  /\ ~closed /\ client /\ Begin("backend", <<"write">>)
  /\ UNCHANGED <<asked, tunnel, client, onClose, once, quit, queue, started, closed, failed>>

\* ... and a bufferedConn that is closed or full loses its client.
BufferedWrite ==
  /\ At("backend", "write")
  /\ IF quit \/ queue = BufferCap
     THEN Call("backend", <<"remove">>) /\ UNCHANGED queue
     ELSE Return("backend") /\ queue' = queue + 1
  /\ UNCHANGED <<asked, tunnel, client, onClose, once, quit, started, closed, failed>>

\* EventDisconnect: not a TCP connection, so GracefulCloseConn just closes it.
HandleDisconnect ==
  /\ ~closed /\ client /\ client' = FALSE
  /\ Begin("backend", <<"close">>)
  /\ UNCHANGED <<asked, tunnel, onClose, once, quit, queue, started, closed, failed>>

\* Backend.Close: the Range loads the connection, then deletes and closes it.
CloseSession ==
  /\ ~closed /\ closed' = TRUE
  /\ Begin("session", IF client THEN <<"unmap", "close">> ELSE <<>>)
  /\ UNCHANGED <<asked, tunnel, client, onClose, once, quit, queue, started, failed>>

Unmap ==
  /\ At("session", "unmap")
  /\ client' = FALSE
  /\ Return("session")
  /\ UNCHANGED <<asked, tunnel, onClose, once, quit, queue, started, closed, failed>>

-----------------------------------------------------------------------------
(* bufferedConn.drain *)

\* tunneledUDPConn.Write fails once closed, and if the peer's queue is full.
DrainWrite ==
  /\ At("drain", "loop") /\ queue > 0 /\ once = "free"
  /\ queue' = queue - 1
  /\ UNCHANGED <<stack, asked, tunnel, client, onClose, once, quit, started, closed, failed>>

\* It closes the connection itself.
DrainFails ==
  /\ At("drain", "loop") /\ queue > 0
  /\ queue' = queue - 1 /\ failed' = TRUE /\ quit' = TRUE
  /\ Call("drain", <<"connClose">>)
  /\ UNCHANGED <<asked, tunnel, client, onClose, once, started, closed>>

\* quit: flushRemaining writes what it can.
DrainQuits ==
  /\ At("drain", "loop") /\ quit
  /\ queue' = 0
  /\ Return("drain")
  /\ UNCHANGED <<asked, tunnel, client, onClose, once, quit, started, closed, failed>>

Drain == DrainWrite \/ DrainFails \/ DrainQuits

-----------------------------------------------------------------------------

Next ==
  \/ \E g \in Goroutines : Calls(g)
  \/ Request \/ HandleTunnelData \/ HandleTunnelClose \/ PeerPump
  \/ HandleData \/ HandleDisconnect \/ BufferedWrite
  \/ CloseSession \/ Unmap \/ Drain

Spec == Init /\ [][Next]_vars

\* What goroutine g does by itself; the peer and the backend owe no message.
Own(g) == CASE g = "peer" -> PeerPump [] g = "backend" -> BufferedWrite
            [] g = "session" -> Unmap [] g = "drain" -> Drain

\* Goroutines that can run do.
Fairness == \A g \in Goroutines : WF_vars(Calls(g) \/ Own(g))

FairSpec == Spec /\ Fairness

-----------------------------------------------------------------------------

Closing(g) == "join" \in ToSet(stack[g])

(***************************************************************************)
(* bufferedConn.Close "closes the underlying connection to unblock any     *)
(* stuck drain Write, and waits for drain to exit.  Safe to call multiple  *)
(* times": every call of it returns.                                       *)
(***************************************************************************)
CloseReturns == \A g \in Goroutines : Closing(g) ~> ~Closing(g)

(***************************************************************************)
(* Peer, backend, the end of the session and drain may all tear a tunnel   *)
(* down at once, each in its own order.  Unless a write of drain has       *)
(* failed, every Close returns and no client is left without the tunnel    *)
(* through which its peer could remove it.                                 *)
(***************************************************************************)
Unfinished == (\E g \in Goroutines : Closing(g)) \/ (client /\ ~tunnel)
TeardownEnds == Unfinished ~> (~Unfinished \/ failed)

=============================================================================
