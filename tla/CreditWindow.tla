---------------------------- MODULE CreditWindow ----------------------------
(***************************************************************************)
(* What every credit-limited direction of the proxy promises: the sender   *)
(* spends a credit per frame, the receiver sends credits back for frames   *)
(* it has consumed, and the two together never hold more than the window   *)
(* granted at the start plus the exceptions the code makes on purpose (the *)
(* stall probe's self-grant, the batch and the frame of a teardown, frames *)
(* sent before flow control is active).  While the direction is open       *)
(* nothing is lost either.                                                 *)
(*                                                                         *)
(* BufferedConn implements it for service-to-user data on the hub,         *)
(* PeerTunnel for both directions of a tunnel between peers.               *)
(***************************************************************************)
EXTENDS Integers

CONSTANT Window   \* protocol.DefaultCreditCapacity

VARIABLES
  held,    \* credits the sender has
  away,    \* frames on their way or counted, and credits on their way back
  extra,   \* exceptions so far
  open     \* no frame and no credit may be lost

vars == <<held, away, extra, open>>

Init ==
  /\ held \in 0 .. Window /\ away \in 0 .. Window /\ held + away = Window
  /\ extra = 0 /\ open \in BOOLEAN

\* A direction that is not open never becomes so, and only there may what a
\* step moves be lost on the way.
Keeps(total) == (open' => open /\ held' + away' = total) /\ open' \in BOOLEAN

Spend ==
  /\ held > 0
  /\ held' = held - 1 /\ away' \in {away, away + 1}
  /\ extra' = extra /\ Keeps(held + away)

Return ==
  /\ \E n \in 1 .. away : away' = away - n /\ held' \in held .. held + n
  /\ extra' = extra /\ Keeps(held + away)

\* The sender grants itself credits, or sends frames without any.
Except ==
  /\ extra' \in Nat /\ extra' > extra
  /\ LET n == extra' - extra
     IN  /\ \/ held' \in held .. held + n /\ away' = away
            \/ held' = held /\ away' \in away .. away + n
         /\ Keeps(held + away + n)

Lose ==
  /\ held' \in 0 .. held /\ away' \in 0 .. away
  /\ extra' = extra /\ Keeps(held + away)

Next == Spend \/ Return \/ Except \/ Lose

Spec == Init /\ [][Next]_vars

-----------------------------------------------------------------------------

TypeOK == held \in Nat /\ away \in Nat /\ extra \in Nat /\ open \in BOOLEAN

\* No step of the protocol multiplies credits: what circulates is bounded by
\* the window and the exceptions.
Bounded == held + away <= Window + extra

\* And none is lost while the direction is open, so a sender that waits is
\* waiting for frames or credits that exist.
Conserved == open => held + away = Window + extra

=============================================================================
