-------------------------- MODULE PeerTunnelProofs --------------------------
(***************************************************************************)
(* A tunnel between two peers keeps its pauses in step and its credits in  *)
(* circulation, and both its directions implement CreditWindow, for any    *)
(* capacity, batch and number of tries.  First every step of the tunnel is *)
(* a step of both windows, if channels are counted as Counting says; then  *)
(* they are; then the theorems.                                            *)
(***************************************************************************)
EXTENDS PeerTunnelSteps

\* A leaf that names no prover is Zenon's.
USE ZenonT(30)

-----------------------------------------------------------------------------
(* The windows *)

\* The numbers the windows are made of.
LEMMA WindowNumbers ==
  ASSUME Counting, Types
  PROVE  /\ HeldToDest \in Nat /\ DueToDest \in Nat /\ AwayToDest \in Nat
         /\ HeldToOrigin \in Nat /\ DueToOrigin \in Nat /\ AwayToOrigin \in Nat
<1>1. AwayToDest \in Nat /\ AwayToOrigin \in Nat
  BY Numbers, Ones, SMTT(30) DEF AwayToDest, AwayToOrigin
<1>2. HeldToDest \in Nat /\ HeldToOrigin \in Nat
  BY Numbers, Ones, SMTT(30) DEF HeldToDest, HeldToOrigin
<1> QED
  BY <1>1, <1>2, TunnelConstants, SMTT(30) DEF DueToDest, DueToOrigin

\* And after a step.
LEMMA WindowNumbersAfter ==
  ASSUME Counting, Types'
  PROVE  /\ HeldToDest' \in Nat /\ DueToDest' \in Nat /\ AwayToDest' \in Nat
         /\ HeldToOrigin' \in Nat /\ DueToOrigin' \in Nat /\ AwayToOrigin' \in Nat
<1>1. fwd' \in Seq(Message) /\ back' \in Seq(Message)
  BY DEF Types
<1>2. /\ Count(fwd', "data") \in Nat /\ Count(back', "data") \in Nat
  BY <1>1, ChannelNumbers
<1>3. AwayToDest' \in Nat /\ AwayToOrigin' \in Nat
  BY <1>2, NumbersAfter, Ones, SMTT(30) DEF AwayToDest, AwayToOrigin
<1>4. HeldToDest' \in Nat /\ HeldToOrigin' \in Nat
  <2>1. sendCh' \in Nat /\ dcred' \in Nat
    BY TunnelConstants, SMTT(30) DEF Types, OriginTypes, DestTypes
  <2>2. HeldToDest' = sendCh' + One(held') /\ HeldToOrigin' = dcred' + One(dw' = "held")
    BY DEF HeldToDest, HeldToOrigin
  <2>3. One(held') \in {0, 1} /\ One(dw' = "held") \in {0, 1}
    BY Ones
  <2> QED
    BY <2>1, <2>2, <2>3, SMTT(30)
<1>5. DueToDest' \in Nat /\ DueToOrigin' \in Nat
  <2>1. DueToDest' = Cap + AwayToDest' \/ DueToDest' = 0 + AwayToDest'
    BY DEF DueToDest
  <2>2. DueToOrigin' = Cap + AwayToOrigin' \/ DueToOrigin' = 0 + AwayToOrigin'
    BY DEF DueToOrigin
  <2>3. Cap \in Nat
    BY TunnelConstants
  <2> QED
    BY <1>3, <2>1, <2>2, <2>3, SMTT(30)
<1> QED
  BY <1>3, <1>4, <1>5

\* A step that moves no credit forward in a direction, and may lose some.
LEMMA DestLoses ==
  ASSUME Counting, Types, Types', free' = free, HeldToDest' <= HeldToDest,
         DueToDest' <= DueToDest
  PROVE  ToDestWindow!Next
BY WindowNumbers, WindowNumbersAfter, SMTT(30) DEF ToDestWindow!Next, ToDestWindow!Lose,
   ToDestWindow!Keeps

\* The same towards the origin.
LEMMA OriginLoses ==
  ASSUME Counting, Types, Types', dfree' = dfree,
         HeldToOrigin' <= HeldToOrigin, DueToOrigin' <= DueToOrigin
  PROVE  ToOriginWindow!Next
BY WindowNumbers, WindowNumbersAfter, SMTT(30)
   DEF ToOriginWindow!Next, ToOriginWindow!Lose, ToOriginWindow!Keeps

\* What a sender has stays, what is away does not grow.
LEMMA DestShrinks ==
  ASSUME Counting, Types, Types', UNCHANGED <<free, sendCh, held>>, AwayToDest' <= AwayToDest,
         dpc' = "none" => dpc = "none"
  PROVE  ToDestWindow!Next
<1>1. HeldToDest' = HeldToDest
  BY DEF HeldToDest
<1>2. /\ DueToDest = (IF dpc = "none" THEN Cap ELSE 0) + AwayToDest
      /\ DueToDest' = (IF dpc' = "none" THEN Cap ELSE 0) + AwayToDest'
  BY DEF DueToDest
<1>3. DueToDest' <= DueToDest
  BY <1>2, WindowNumbers, WindowNumbersAfter, TunnelConstants, SMTT(30)
<1> QED
  BY <1>1, <1>3, DestLoses, WindowNumbers, SMTT(30)

\* The same towards the origin.
LEMMA OriginShrinks ==
  ASSUME Counting, Types, Types', UNCHANGED <<dfree, dcred, dw>>, AwayToOrigin' <= AwayToOrigin,
         opc' \in {"request", "store", "state", "grant"} =>
           opc \in {"request", "store", "state", "grant"}
  PROVE  ToOriginWindow!Next
<1>1. HeldToOrigin' = HeldToOrigin
  BY DEF HeldToOrigin
<1>2. /\ DueToOrigin = (IF opc \in {"request", "store", "state", "grant"} THEN Cap ELSE 0)
                         + AwayToOrigin
      /\ DueToOrigin' = (IF opc' \in {"request", "store", "state", "grant"} THEN Cap ELSE 0)
                          + AwayToOrigin'
  BY DEF DueToOrigin
<1>3. DueToOrigin' <= DueToOrigin
  BY <1>2, WindowNumbers, WindowNumbersAfter, TunnelConstants, SMTT(30)
<1> QED
  BY <1>1, <1>3, OriginLoses, WindowNumbers, SMTT(30)

\* A step that does not concern a direction.
LEMMA DestSame ==
  ASSUME Counting, Types, Types', free' = free, HeldToDest' = HeldToDest, DueToDest' = DueToDest
  PROVE  ToDestWindow!Next
BY DestLoses, WindowNumbers, SMTT(30)

\* The same towards the origin.
LEMMA OriginSame ==
  ASSUME Counting, Types, Types', dfree' = dfree,
         HeldToOrigin' = HeldToOrigin, DueToOrigin' = DueToOrigin
  PROVE  ToOriginWindow!Next
BY OriginLoses, WindowNumbers, SMTT(30)

\* A frame that is sent without a credit.
LEMMA DestExcept ==
  ASSUME Counting, Types, Types', free' = free + 1,
         \/ HeldToDest' \in {HeldToDest, HeldToDest + 1} /\ DueToDest' = DueToDest
         \/ HeldToDest' = HeldToDest /\ DueToDest' \in {DueToDest, DueToDest + 1}
  PROVE  ToDestWindow!Next
<1>1. free' \in Nat /\ free' > free /\ free' - free = 1
  BY SMTT(30) DEF Types, OriginTypes, DestTypes
<1>2. \/ HeldToDest' \in HeldToDest .. HeldToDest + 1 /\ DueToDest' = DueToDest
      \/ HeldToDest' = HeldToDest /\ DueToDest' \in DueToDest .. DueToDest + 1
  BY WindowNumbers, SMTT(30)
<1> QED
  BY <1>1, <1>2 DEF ToDestWindow!Next, ToDestWindow!Except, ToDestWindow!Keeps

\* The same towards the origin.
LEMMA OriginExcept ==
  ASSUME Counting, Types, Types', dfree' = dfree + 1,
         \/ HeldToOrigin' \in {HeldToOrigin, HeldToOrigin + 1} /\ DueToOrigin' = DueToOrigin
         \/ HeldToOrigin' = HeldToOrigin /\ DueToOrigin' \in {DueToOrigin, DueToOrigin + 1}
  PROVE  ToOriginWindow!Next
<1>1. dfree' \in Nat /\ dfree' > dfree /\ dfree' - dfree = 1
  BY SMTT(30) DEF Types, OriginTypes, DestTypes
<1>2. \/ HeldToOrigin' \in HeldToOrigin .. HeldToOrigin + 1 /\ DueToOrigin' = DueToOrigin
      \/ HeldToOrigin' = HeldToOrigin /\ DueToOrigin' \in DueToOrigin .. DueToOrigin + 1
  BY WindowNumbers, SMTT(30)
<1> QED
  BY <1>1, <1>2 DEF ToOriginWindow!Next, ToOriginWindow!Except, ToOriginWindow!Keeps

\* Every step of a tunnel is a step of both its windows.
LEMMA WindowStep ==
  ASSUME Counting, Types, Types', RequestFirst, StateFirst, Next
  PROVE  ToDestWindow!Next /\ ToOriginWindow!Next
<1> USE DEF originElse, readElse, destElse, clientElse, pauseElse, linkVars, originVars,
        destVars
<1>1. CASE StoreTunnel
  <2>1. free' = free /\ HeldToDest' = HeldToDest /\ DueToDest' = DueToDest
    BY <1>1 DEF HeldToDest, DueToDest, AwayToDest, StoreTunnel
  <2>2. dfree' = dfree /\ HeldToOrigin' = HeldToOrigin /\ DueToOrigin' = DueToOrigin
    BY <1>1, Ones DEF HeldToOrigin, DueToOrigin, AwayToOrigin, One, StoreTunnel
  <2> QED
    BY <1>1, <2>1, <2>2, DestSame, OriginSame
<1>2. CASE StoreState
  <2>1. free' = free /\ HeldToDest' = HeldToDest /\ DueToDest' = DueToDest
    BY <1>2 DEF HeldToDest, DueToDest, AwayToDest, StoreState
  <2>2. dfree' = dfree /\ HeldToOrigin' = HeldToOrigin /\ DueToOrigin' = DueToOrigin
    BY <1>2, Ones DEF HeldToOrigin, DueToOrigin, AwayToOrigin, One, StoreState
  <2> QED
    BY <1>2, <2>1, <2>2, DestSame, OriginSame
<1>3. CASE CheckActive
  <2>1. free' = free /\ HeldToDest' = HeldToDest /\ DueToDest' = DueToDest
    BY <1>3 DEF HeldToDest, DueToDest, AwayToDest, CheckActive
  <2>2. dfree' = dfree /\ HeldToOrigin' = HeldToOrigin /\ DueToOrigin' = DueToOrigin
    BY <1>3, Ones DEF HeldToOrigin, DueToOrigin, AwayToOrigin, One, CheckActive
  <2> QED
    BY <1>3, <2>1, <2>2, DestSame, OriginSame
<1>4. CASE Abandon
  <2>1. free' = free /\ HeldToDest' = HeldToDest /\ DueToDest' = DueToDest
    BY <1>4 DEF HeldToDest, DueToDest, AwayToDest, Abandon
  <2>2. dfree' = dfree /\ HeldToOrigin' = HeldToOrigin /\ DueToOrigin' = DueToOrigin
    BY <1>4, Ones DEF HeldToOrigin, DueToOrigin, AwayToOrigin, One, Abandon
  <2> QED
    BY <1>4, <2>1, <2>2, DestSame, OriginSame
<1>5. CASE ReadUnpaused
  <2>1. free' = free /\ HeldToDest' = HeldToDest /\ DueToDest' = DueToDest
    BY <1>5 DEF HeldToDest, DueToDest, AwayToDest, ReadUnpaused
  <2>2. dfree' = dfree /\ HeldToOrigin' = HeldToOrigin /\ DueToOrigin' = DueToOrigin
    BY <1>5, Ones DEF HeldToOrigin, DueToOrigin, AwayToOrigin, One, ReadUnpaused
  <2> QED
    BY <1>5, <2>1, <2>2, DestSame, OriginSame
<1>6. CASE ReadUser
  <2>1. free' = free /\ HeldToDest' = HeldToDest /\ DueToDest' = DueToDest
    BY <1>6 DEF HeldToDest, DueToDest, AwayToDest, ReadUser, Event
  <2>2. dfree' = dfree /\ HeldToOrigin' = HeldToOrigin /\ DueToOrigin' = DueToOrigin
    BY <1>6, Ones DEF HeldToOrigin, DueToOrigin, AwayToOrigin, One, ReadUser, Event
  <2> QED
    BY <1>6, <2>1, <2>2, DestSame, OriginSame
<1>7. CASE ReadEnds
  <2>1. free' = free /\ HeldToDest' = HeldToDest /\ DueToDest' = DueToDest
    BY <1>7 DEF HeldToDest, DueToDest, AwayToDest, ReadEnds
  <2>2. dfree' = dfree /\ HeldToOrigin' = HeldToOrigin /\ DueToOrigin' = DueToOrigin
    BY <1>7, Ones DEF HeldToOrigin, DueToOrigin, AwayToOrigin, One, ReadEnds
  <2> QED
    BY <1>7, <2>1, <2>2, DestSame, OriginSame
<1>8. CASE GraceOver
  <2>1. free' = free /\ HeldToDest' = HeldToDest /\ DueToDest' = DueToDest
    BY <1>8 DEF HeldToDest, DueToDest, AwayToDest, GraceOver
  <2>2. dfree' = dfree /\ HeldToOrigin' = HeldToOrigin /\ DueToOrigin' = DueToOrigin
    BY <1>8, Ones DEF HeldToOrigin, DueToOrigin, AwayToOrigin, One, GraceOver
  <2> QED
    BY <1>8, <2>1, <2>2, DestSame, OriginSame
<1>9. CASE AddClient
  <2>1. free' = free /\ HeldToDest' = HeldToDest /\ DueToDest' = DueToDest
    BY <1>9 DEF HeldToDest, DueToDest, AwayToDest, AddClient
  <2>2. dfree' = dfree /\ HeldToOrigin' = HeldToOrigin /\ DueToOrigin' = DueToOrigin
    BY <1>9, Ones DEF HeldToOrigin, DueToOrigin, AwayToOrigin, One, AddClient
  <2> QED
    BY <1>9, <2>1, <2>2, DestSame, OriginSame
<1>10. CASE SendData
  <2>1. free' = free /\ HeldToDest' = HeldToDest /\ DueToDest' = DueToDest
    BY <1>10 DEF HeldToDest, DueToDest, AwayToDest, SendData
  <2>2. dfree' = dfree /\ HeldToOrigin' = HeldToOrigin /\ DueToOrigin' = DueToOrigin
    BY <1>10, Ones DEF HeldToOrigin, DueToOrigin, AwayToOrigin, One, SendData
  <2> QED
    BY <1>10, <2>1, <2>2, DestSame, OriginSame
<1>11. CASE PipeEOF
  <2>1. free' = free /\ HeldToDest' = HeldToDest /\ DueToDest' = DueToDest
    BY <1>11 DEF HeldToDest, DueToDest, AwayToDest, PipeEOF
  <2>2. dfree' = dfree /\ HeldToOrigin' = HeldToOrigin /\ DueToOrigin' = DueToOrigin
    BY <1>11, Ones DEF HeldToOrigin, DueToOrigin, AwayToOrigin, One, PipeEOF
  <2> QED
    BY <1>11, <2>1, <2>2, DestSame, OriginSame
<1>12. CASE Write
  <2>1. free' = free /\ HeldToDest' = HeldToDest /\ DueToDest' = DueToDest
    BY <1>12 DEF HeldToDest, DueToDest, AwayToDest, Write, Serving, Event
  <2>2. dfree' = dfree /\ HeldToOrigin' = HeldToOrigin /\ DueToOrigin' = DueToOrigin
    BY <1>12, Ones DEF HeldToOrigin, DueToOrigin, AwayToOrigin, One, Write, Serving, Event
  <2> QED
    BY <1>12, <2>1, <2>2, DestSame, OriginSame
<1>13. CASE WriteClosed
  <2>1. free' = free /\ HeldToDest' = HeldToDest /\ DueToDest' = DueToDest
    BY <1>13 DEF HeldToDest, DueToDest, AwayToDest, WriteClosed
  <2>2. dfree' = dfree /\ HeldToOrigin' = HeldToOrigin /\ DueToOrigin' = DueToOrigin
    BY <1>13, Ones DEF HeldToOrigin, DueToOrigin, AwayToOrigin, One, WriteClosed
  <2> QED
    BY <1>13, <2>1, <2>2, DestSame, OriginSame
<1>14. CASE Reconnect
  <2>1. free' = free /\ HeldToDest' = HeldToDest /\ DueToDest' = DueToDest
    BY <1>14 DEF HeldToDest, DueToDest, AwayToDest, Reconnect
  <2>2. dfree' = dfree /\ HeldToOrigin' = HeldToOrigin /\ DueToOrigin' = DueToOrigin
    BY <1>14, Ones DEF HeldToOrigin, DueToOrigin, AwayToOrigin, One, Reconnect
  <2> QED
    BY <1>14, <2>1, <2>2, DestSame, OriginSame
<1>15. CASE Request
  <2>1. Count(fwd', "data") = Count(fwd, "data") /\ Credits(fwd') = Credits(fwd)
    BY <1>15, FwdPut, Numbers, SMTT(30) DEF Change, Request, SendFwd
  <2>2. free' = free /\ HeldToDest' = HeldToDest /\ DueToDest' = DueToDest
    BY <1>15, <2>1 DEF HeldToDest, DueToDest, AwayToDest, Request, SendFwd
  <2>3. dfree' = dfree /\ HeldToOrigin' = HeldToOrigin /\ DueToOrigin' = DueToOrigin
    BY <1>15, <2>1 DEF HeldToOrigin, DueToOrigin, AwayToOrigin, Request, SendFwd
  <2> QED
    BY <1>15, <2>2, <2>3, DestSame, OriginSame
<1>16. CASE SendClose
  <2>1. Count(fwd', "data") = Count(fwd, "data") /\ Credits(fwd') = Credits(fwd)
    BY <1>16, FwdPut, Numbers, SMTT(30) DEF Change, SendClose, SendFwd
  <2>2. free' = free /\ HeldToDest' = HeldToDest /\ DueToDest' = DueToDest
    BY <1>16, <2>1 DEF HeldToDest, DueToDest, AwayToDest, SendClose, SendFwd
  <2>3. dfree' = dfree /\ HeldToOrigin' = HeldToOrigin /\ DueToOrigin' = DueToOrigin
    BY <1>16, <2>1 DEF HeldToOrigin, DueToOrigin, AwayToOrigin, SendClose, SendFwd
  <2> QED
    BY <1>16, <2>2, <2>3, DestSame, OriginSame
<1>17. CASE GrantBack
  <2>1. Count(fwd', "data") = Count(fwd, "data")
          /\ Credits(fwd') \in {Credits(fwd), Credits(fwd) + Cap}
    BY <1>17, FwdPut, Numbers, SMTT(30) DEF Change, GrantBack, SendFwd
  <2>2. free' = free /\ HeldToDest' = HeldToDest /\ DueToDest' = DueToDest
    BY <1>17, <2>1 DEF HeldToDest, DueToDest, AwayToDest, GrantBack, SendFwd
  <2>3. dfree' = dfree /\ HeldToOrigin' = HeldToOrigin
    BY <1>17 DEF HeldToOrigin, GrantBack
  <2>4. UNCHANGED <<back, recvConsumed, oretries>>
    BY <1>17 DEF GrantBack
  <2>5. AwayToOrigin' <= AwayToOrigin + Cap
    BY <2>1, <2>4, Numbers, TunnelConstants, SMTT(30) DEF AwayToOrigin
  <2>6. DueToOrigin = Cap + AwayToOrigin /\ DueToOrigin' = 0 + AwayToOrigin'
    BY <1>17 DEF DueToOrigin, GrantBack
  <2>7. DueToOrigin' <= DueToOrigin
    BY <2>5, <2>6, WindowNumbers, WindowNumbersAfter, TunnelConstants, SMTT(30)
  <2> QED
    BY <2>2, <2>3, <2>7, DestSame, OriginLoses, WindowNumbers, SMTT(30)
<1>18. CASE AcquireCredit
  <2>1. dfree' = dfree /\ HeldToOrigin' = HeldToOrigin /\ DueToOrigin' = DueToOrigin
    BY <1>18 DEF HeldToOrigin, DueToOrigin, AwayToOrigin, AcquireCredit
  <2>2. ~held
    BY <1>18 DEF StateFirst, AcquireCredit
  <2>3. One(held) = 0 /\ One(held') = 1
    BY <1>18, <2>2 DEF One, AcquireCredit
  <2>4. free' = free /\ HeldToDest' = HeldToDest /\ DueToDest' = DueToDest
    BY <1>18, <2>3, Numbers, SMTT(30) DEF HeldToDest, DueToDest, AwayToDest, AcquireCredit
  <2> QED
    BY <1>18, <2>1, <2>4, DestSame, OriginSame
<1>19. CASE SendFrame
  <2>1. Count(fwd', "data") \in {Count(fwd, "data"), Count(fwd, "data") + 1}
          /\ Credits(fwd') = Credits(fwd)
    BY <1>19, FwdPut, Numbers, SMTT(30) DEF Change, SendFrame, AtMost
  <2>2. dfree' = dfree /\ HeldToOrigin' = HeldToOrigin /\ DueToOrigin' = DueToOrigin
    BY <1>19, <2>1 DEF HeldToOrigin, DueToOrigin, AwayToOrigin, SendFrame, AtMost
  <2>3. sendCh' \in {sendCh, sendCh + 1}
          /\ (sendCh' = sendCh \/ Count(fwd', "data") = Count(fwd, "data"))
    BY <1>19, TunnelConstants, SMTT(30) DEF Types, OriginTypes, SendFrame, AtMost
  <2>4. DueToDest' = DueToDest + Count(fwd', "data") - Count(fwd, "data")
    BY <1>19, <2>1, Numbers, Ones, TunnelConstants, SMTT(30) DEF HeldToDest, DueToDest,
       AwayToDest,
        SendFrame, AtMost
  <2>5. CASE held
    <3>1. HeldToDest = sendCh + 1 /\ HeldToDest' = sendCh' + 0 /\ free' = free
      BY <1>19, <2>5 DEF HeldToDest, One, SendFrame
    <3>2. CASE sendCh' = sendCh
      <4>1. /\ HeldToDest > 0 /\ HeldToDest' = HeldToDest - 1
            /\ DueToDest' \in {DueToDest, DueToDest + 1}
        BY <2>1, <2>4, <3>1, <3>2, Numbers, WindowNumbers, SMTT(30)
      <4> QED
        BY <2>2, <3>1, <4>1, OriginSame DEF ToDestWindow!Next, ToDestWindow!Spend,
           ToDestWindow!Keeps
    <3>3. CASE sendCh' # sendCh
      <4>1. HeldToDest' = HeldToDest /\ DueToDest' = DueToDest
        BY <2>3, <2>4, <3>1, <3>3, Numbers, WindowNumbers, SMTT(30)
      <4> QED
        BY <2>2, <3>1, <4>1, DestSame, OriginSame
    <3> QED
      BY <3>2, <3>3
  <2>6. CASE ~held
    <3>1. HeldToDest = sendCh + 0 /\ HeldToDest' = sendCh' + 0 /\ free' = free + 1
      BY <1>19, <2>6 DEF HeldToDest, One, SendFrame
    <3>2. \/ HeldToDest' \in {HeldToDest, HeldToDest + 1} /\ DueToDest' = DueToDest
          \/ HeldToDest' = HeldToDest /\ DueToDest' \in {DueToDest, DueToDest + 1}
      BY <2>1, <2>3, <2>4, <3>1, Numbers, WindowNumbers, SMTT(30)
    <3> QED
      BY <2>2, <3>1, <3>2, OriginSame, DestExcept
  <2> QED
    BY <2>5, <2>6
<1>20. CASE DataToUser
  <2>1. Count(fwd', "data") = Count(fwd, "data")
    BY <1>20, DataCounted, FwdPut, Numbers, SMTT(30) DEF Change
  <2>2. Credits(back') = Credits(back) /\ Count(back', "data") = Count(back, "data") - 1
    BY <1>20, BackTaken, Numbers, SMTT(30) DEF Change, DataToUser
  <2>3. free' = free /\ HeldToDest' = HeldToDest /\ DueToDest' = DueToDest
    BY <1>20, <2>1, <2>2 DEF HeldToDest, DueToDest, AwayToDest, DataToUser
  <2>4. ~(active /\ hasState)
          => recvConsumed' = recvConsumed /\ fwd' = fwd /\ oretries' = oretries
    BY <1>20, DataCounted, Numbers, SMTT(30) DEF One
  <2>5. recvConsumed' + Credits(fwd') + Owed(oretries') <= recvConsumed + 1 + Credits(fwd) + Owed(oretries)
    BY <1>20, <2>4, DataReturned, Numbers, SMTT(30)
  <2>6. dfree' = dfree /\ HeldToOrigin' <= HeldToOrigin /\ DueToOrigin' <= DueToOrigin
    BY <1>20, <2>2, <2>5, Numbers, NumbersAfter, Ones, TunnelConstants, SMTT(30)
       DEF HeldToOrigin,
        DueToOrigin, AwayToOrigin, DataToUser
  <2> QED
    BY <1>20, <2>3, <2>6, DestSame, OriginLoses
<1>21. CASE DataRefused
  <2>1. Credits(back') = Credits(back) /\ Count(back', "data") = Count(back, "data") - 1
    BY <1>21, BackTaken, Numbers, SMTT(30) DEF Change, DataRefused
  <2>2. free' = free /\ HeldToDest' = HeldToDest /\ DueToDest' = DueToDest
    BY <1>21, <2>1 DEF HeldToDest, DueToDest, AwayToDest, DataRefused
  <2>3. dfree' = dfree /\ HeldToOrigin' <= HeldToOrigin /\ DueToOrigin' <= DueToOrigin
    BY <1>21, <2>1, Numbers, Ones, TunnelConstants, SMTT(30) DEF HeldToOrigin, DueToOrigin,
        AwayToOrigin, DataRefused
  <2> QED
    BY <1>21, <2>2, <2>3, DestSame, OriginLoses
<1>22. CASE CloseArrives
  <2>1. Count(back', "data") = Count(back, "data") /\ Credits(back') = Credits(back)
    BY <1>22, BackTaken, Numbers, SMTT(30) DEF Change, CloseArrives
  <2>2. free' = free /\ HeldToDest' = HeldToDest /\ DueToDest' = DueToDest
    BY <1>22, <2>1 DEF HeldToDest, DueToDest, AwayToDest, CloseArrives
  <2>3. dfree' = dfree /\ HeldToOrigin' = HeldToOrigin /\ DueToOrigin' = DueToOrigin
    BY <1>22, <2>1 DEF HeldToOrigin, DueToOrigin, AwayToOrigin, CloseArrives
  <2> QED
    BY <1>22, <2>2, <2>3, DestSame, OriginSame
<1>23. CASE PauseArrives
  <2>1. Count(back', "data") = Count(back, "data") /\ Credits(back') = Credits(back)
    BY <1>23, BackTaken, Numbers, SMTT(30) DEF Change, PauseArrives
  <2>2. free' = free /\ HeldToDest' = HeldToDest /\ DueToDest' = DueToDest
    BY <1>23, <2>1 DEF HeldToDest, DueToDest, AwayToDest, PauseArrives
  <2>3. dfree' = dfree /\ HeldToOrigin' = HeldToOrigin /\ DueToOrigin' = DueToOrigin
    BY <1>23, <2>1 DEF HeldToOrigin, DueToOrigin, AwayToOrigin, PauseArrives
  <2> QED
    BY <1>23, <2>2, <2>3, DestSame, OriginSame
<1>24. CASE ResumeArrives
  <2>1. Count(back', "data") = Count(back, "data") /\ Credits(back') = Credits(back)
    BY <1>24, BackTaken, Numbers, SMTT(30) DEF Change, ResumeArrives
  <2>2. free' = free /\ HeldToDest' = HeldToDest /\ DueToDest' = DueToDest
    BY <1>24, <2>1 DEF HeldToDest, DueToDest, AwayToDest, ResumeArrives
  <2>3. dfree' = dfree /\ HeldToOrigin' = HeldToOrigin /\ DueToOrigin' = DueToOrigin
    BY <1>24, <2>1 DEF HeldToOrigin, DueToOrigin, AwayToOrigin, ResumeArrives
  <2> QED
    BY <1>24, <2>2, <2>3, DestSame, OriginSame
<1>25. CASE CreditsArrive
  <2>1. Count(back', "data") = Count(back, "data")
          /\ Credits(back') = Credits(back) - Head(back).n
    BY <1>25, BackTaken, Numbers, TunnelConstants, SMTT(30) DEF Change, CreditsArrive, AtMost
  <2>2. dfree' = dfree /\ HeldToOrigin' = HeldToOrigin /\ DueToOrigin' = DueToOrigin
    BY <1>25, <2>1 DEF HeldToOrigin, DueToOrigin, AwayToOrigin, CreditsArrive, AtMost
  <2>3. Head(back).n \in Nat \ {0} /\ Credits(back') \in Nat
    BY <1>25, BackTaken, TunnelConstants DEF CreditsArrive, AtMost
  <2>4. sendCh' \in sendCh .. sendCh + Head(back).n
    BY <1>25, <2>3, TunnelConstants, SMTT(30) DEF Types, OriginTypes, CreditsArrive, AtMost
  <2>5. DueToDest' = DueToDest - Head(back).n
    BY <1>25, <2>1, <2>3, Numbers, Ones, TunnelConstants, SMTT(30) DEF HeldToDest, DueToDest,
        AwayToDest, CreditsArrive, AtMost
  <2>6. HeldToDest' \in HeldToDest .. HeldToDest + Head(back).n
    BY <1>25, <2>3, <2>4, Numbers, Ones, SMTT(30) DEF HeldToDest, CreditsArrive, AtMost
  <2>7. Head(back).n \in 1 .. DueToDest /\ free' = free
    BY <1>25, <2>3, <2>5, WindowNumbers, WindowNumbersAfter, SMTT(30) DEF CreditsArrive, AtMost
  <2>8. ToDestWindow!Return
    BY <1>25, <2>5, <2>6, <2>7 DEF ToDestWindow!Return, ToDestWindow!Keeps
  <2> QED
    BY <1>25, <2>2, <2>8, OriginSame DEF ToDestWindow!Next
<1>26. CASE RequestIgnored
  <2>1. Count(fwd', "data") = Count(fwd, "data") /\ Credits(fwd') = Credits(fwd)
    BY <1>26, FwdTaken, Numbers, SMTT(30) DEF Change, RequestIgnored
  <2>2. free' = free /\ HeldToDest' = HeldToDest /\ DueToDest' = DueToDest
    BY <1>26, <2>1 DEF HeldToDest, DueToDest, AwayToDest, RequestIgnored
  <2>3. dfree' = dfree /\ HeldToOrigin' = HeldToOrigin /\ DueToOrigin' = DueToOrigin
    BY <1>26, <2>1 DEF HeldToOrigin, DueToOrigin, AwayToOrigin, RequestIgnored
  <2> QED
    BY <1>26, <2>2, <2>3, DestSame, OriginSame
<1>27. CASE HandleTunnelRequest
  <2>1. Count(fwd', "request") \in Nat
    BY <1>27, ChannelNumbers DEF Types
  <2>2. Count(fwd', "data") = Count(fwd, "data") /\ Credits(fwd') = Credits(fwd) /\ dpc = "none"
    BY <1>27, <2>1, FwdTaken, Numbers, SMTT(30) DEF RequestFirst, Change, HandleTunnelRequest
  <2>3. Count(back', "data") = Count(back, "data")
          /\ Credits(back') \in {Credits(back), Credits(back) + Cap}
    BY <1>27, BackPut, Numbers, SMTT(30) DEF Change, HandleTunnelRequest
  <2>4. dfree' = dfree /\ HeldToOrigin' = HeldToOrigin /\ DueToOrigin' = DueToOrigin
    BY <1>27, <2>2, <2>3 DEF HeldToOrigin, DueToOrigin, AwayToOrigin, HandleTunnelRequest
  <2>5. free' = free /\ HeldToDest' <= HeldToDest /\ DueToDest' <= DueToDest
    BY <1>27, <2>2, <2>3, Numbers, Ones, TunnelConstants, SMTT(30) DEF HeldToDest, DueToDest,
        AwayToDest, HandleTunnelRequest
  <2> QED
    BY <1>27, <2>4, <2>5, DestLoses, OriginSame
<1>28. CASE HandleTunnelData
  <2>1. Count(fwd', "data") = Count(fwd, "data") - 1 /\ Credits(fwd') = Credits(fwd)
    BY <1>28, FwdTaken, Numbers, SMTT(30) DEF Change, HandleTunnelData
  <2>2. dfree' = dfree /\ HeldToOrigin' = HeldToOrigin /\ DueToOrigin' = DueToOrigin
    BY <1>28, <2>1 DEF HeldToOrigin, DueToOrigin, AwayToOrigin, HandleTunnelData
  <2>3. One(pipe) = 0 /\ One(pipe') \in {0, 1}
    BY <1>28, Ones, Taken DEF One, HandleTunnelData
  <2>4. UNCHANGED <<free, sendCh, held, dpc, fconsumed, back, dretries>>
    BY <1>28 DEF HandleTunnelData
  <2>5. AwayToDest' <= AwayToDest
    BY <2>1, <2>3, <2>4, Numbers, SMTT(30) DEF AwayToDest
  <2> QED
    BY <2>2, <2>4, <2>5, DestShrinks, OriginSame
<1>29. CASE HandleTunnelClose
  <2>1. Count(fwd', "data") = Count(fwd, "data") /\ Credits(fwd') = Credits(fwd)
    BY <1>29, FwdTaken, Numbers, SMTT(30) DEF Change, HandleTunnelClose, CloseConn, SendBack,
        QueuedBack
  <2>2. Count(back', "data") = Count(back, "data") /\ Credits(back') = Credits(back)
    BY <1>29, BackPut, Numbers, SMTT(30) DEF Change, HandleTunnelClose, CloseConn, SendBack,
       QueuedBack
  <2>3. free' = free /\ HeldToDest' = HeldToDest /\ DueToDest' = DueToDest
    BY <1>29, <2>1, <2>2 DEF HeldToDest, DueToDest, AwayToDest, HandleTunnelClose, CloseConn,
        SendBack, QueuedBack
  <2>4. dfree' = dfree /\ HeldToOrigin' = HeldToOrigin /\ DueToOrigin' = DueToOrigin
    BY <1>29, <2>1, <2>2 DEF HeldToOrigin, DueToOrigin, AwayToOrigin, HandleTunnelClose,
        CloseConn, SendBack, QueuedBack
  <2> QED
    BY <1>29, <2>3, <2>4, DestSame, OriginSame
<1>30. CASE AddTunnelCredits
  <2>1. Count(fwd', "data") = Count(fwd, "data") /\ Credits(fwd') = Credits(fwd) - Head(fwd).n
    BY <1>30, FwdTaken, Numbers, TunnelConstants, SMTT(30) DEF Change, AddTunnelCredits, AtMost
  <2>2. free' = free /\ HeldToDest' = HeldToDest /\ DueToDest' = DueToDest
    BY <1>30, <2>1 DEF HeldToDest, DueToDest, AwayToDest, AddTunnelCredits, AtMost
  <2>3. Head(fwd).n \in Nat \ {0} /\ Credits(fwd') \in Nat
    BY <1>30, FwdTaken, TunnelConstants DEF AddTunnelCredits, AtMost
  <2>4. dcred' \in dcred .. dcred + Head(fwd).n
    BY <1>30, <2>3, TunnelConstants, SMTT(30) DEF Types, DestTypes, AddTunnelCredits, AtMost
  <2>5. DueToOrigin' = DueToOrigin - Head(fwd).n
    BY <1>30, <2>1, <2>3, Numbers, TunnelConstants, SMTT(30) DEF HeldToOrigin, DueToOrigin,
        AwayToOrigin, AddTunnelCredits, AtMost
  <2>6. HeldToOrigin' \in HeldToOrigin .. HeldToOrigin + Head(fwd).n
    BY <1>30, <2>3, <2>4, Numbers, Ones, SMTT(30) DEF HeldToOrigin, AddTunnelCredits, AtMost
  <2>7. Head(fwd).n \in 1 .. DueToOrigin /\ dfree' = dfree
    BY <1>30, <2>3, <2>5, WindowNumbers, WindowNumbersAfter, SMTT(30) DEF AddTunnelCredits,
       AtMost
  <2>8. ToOriginWindow!Return
    BY <1>30, <2>5, <2>6, <2>7 DEF ToOriginWindow!Return, ToOriginWindow!Keeps
  <2> QED
    BY <1>30, <2>2, <2>8, DestSame DEF ToOriginWindow!Next
<1>31. CASE PipeRead
  <2>1. Count(back', "data") = Count(back, "data")
    BY <1>31, BackPut, Numbers, SMTT(30) DEF Change, PipeRead, QueuedBack
  <2>2. dfree' = dfree /\ HeldToOrigin' = HeldToOrigin /\ DueToOrigin' = DueToOrigin
    BY <1>31, <2>1 DEF HeldToOrigin, DueToOrigin, AwayToOrigin, PipeRead, QueuedBack
  <2>3. One(pipe) = 1 /\ One(pipe') = 0
    BY <1>31 DEF One, PipeRead, QueuedBack
  <2>4. fconsumed' + Credits(back') + Owed(dretries') <= fconsumed + 1 + Credits(back) + Owed(dretries)
    BY <1>31, FrameReturned
  <2>5. fwd' = fwd /\ sendCh' = sendCh /\ held' = held /\ free' = free
          /\ (dpc' = "none" <=> dpc = "none")
    BY <1>31 DEF PipeRead, QueuedBack
  <2>6. AwayToDest' <= AwayToDest
    BY <2>3, <2>4, <2>5, Numbers, NumbersAfter, SMTT(30) DEF AwayToDest
  <2> QED
    BY <2>2, <2>5, <2>6, DestShrinks, OriginSame
<1>32. CASE PipeClosed
  <2>1. dfree' = dfree /\ HeldToOrigin' = HeldToOrigin /\ DueToOrigin' = DueToOrigin
    BY <1>32 DEF HeldToOrigin, DueToOrigin, AwayToOrigin, PipeClosed
  <2>2. One(pipe') = 0 /\ One(pipe) \in {0, 1}
    BY <1>32 DEF One, PipeClosed
  <2>3. UNCHANGED <<free, sendCh, held, dpc, fwd, fconsumed, back, dretries>>
    BY <1>32 DEF PipeClosed
  <2>4. AwayToDest' <= AwayToDest
    BY <2>2, <2>3, Numbers, SMTT(30) DEF AwayToDest
  <2> QED
    BY <2>1, <2>3, <2>4, DestShrinks, OriginSame
<1>33. CASE AddClientFails
  <2>1. Count(back', "data") = Count(back, "data") /\ Credits(back') = Credits(back)
    BY <1>33, BackPut, Numbers, SMTT(30) DEF Change, AddClientFails, CloseConn, SendBack,
       QueuedBack
  <2>2. free' = free /\ HeldToDest' = HeldToDest /\ DueToDest' = DueToDest
    BY <1>33, <2>1 DEF HeldToDest, DueToDest, AwayToDest, AddClientFails, CloseConn,
        SendBack, QueuedBack
  <2>3. dfree' = dfree /\ HeldToOrigin' = HeldToOrigin /\ DueToOrigin' = DueToOrigin
    BY <1>33, <2>1 DEF HeldToOrigin, DueToOrigin, AwayToOrigin, AddClientFails, CloseConn,
        SendBack, QueuedBack
  <2> QED
    BY <1>33, <2>2, <2>3, DestSame, OriginSame
<1>34. CASE RemoveClient
  <2>1. Count(back', "data") = Count(back, "data") /\ Credits(back') = Credits(back)
    BY <1>34, BackPut, Numbers, SMTT(30) DEF Change, RemoveClient, CloseConn, SendBack,
       QueuedBack
  <2>2. free' = free /\ HeldToDest' = HeldToDest /\ DueToDest' = DueToDest
    BY <1>34, <2>1 DEF HeldToDest, DueToDest, AwayToDest, RemoveClient, CloseConn, SendBack,
        QueuedBack
  <2>3. dfree' = dfree /\ HeldToOrigin' = HeldToOrigin /\ DueToOrigin' = DueToOrigin
    BY <1>34, <2>1 DEF HeldToOrigin, DueToOrigin, AwayToOrigin, RemoveClient, CloseConn,
        SendBack, QueuedBack
  <2> QED
    BY <1>34, <2>2, <2>3, DestSame, OriginSame
<1>35. CASE BackendCloses
  <2>1. Count(back', "data") = Count(back, "data") /\ Credits(back') = Credits(back)
    BY <1>35, BackPut, Numbers, SMTT(30) DEF Change, BackendCloses, CloseConn, SendBack,
       QueuedBack
  <2>2. free' = free /\ HeldToDest' = HeldToDest /\ DueToDest' = DueToDest
    BY <1>35, <2>1 DEF HeldToDest, DueToDest, AwayToDest, BackendCloses, CloseConn, SendBack,
        QueuedBack
  <2>3. dfree' = dfree /\ HeldToOrigin' = HeldToOrigin /\ DueToOrigin' = DueToOrigin
    BY <1>35, <2>1 DEF HeldToOrigin, DueToOrigin, AwayToOrigin, BackendCloses, CloseConn,
        SendBack, QueuedBack
  <2> QED
    BY <1>35, <2>2, <2>3, DestSame, OriginSame
<1>36. CASE WriteAcquire
  <2>1. free' = free /\ HeldToDest' = HeldToDest /\ DueToDest' = DueToDest
    BY <1>36 DEF HeldToDest, DueToDest, AwayToDest, WriteAcquire
  <2>2. One(dw = "held") = 0 /\ One(dw' = "held") = 1
    BY <1>36 DEF One, WriteAcquire
  <2>3. dfree' = dfree /\ HeldToOrigin' = HeldToOrigin /\ DueToOrigin' = DueToOrigin
    BY <1>36, <2>2, Numbers, SMTT(30) DEF HeldToOrigin, DueToOrigin, AwayToOrigin, WriteAcquire
  <2> QED
    BY <1>36, <2>1, <2>3, DestSame, OriginSame
<1>37. CASE WriteSend
  <2>1. Count(back', "data") \in {Count(back, "data"), Count(back, "data") + 1}
          /\ Credits(back') = Credits(back)
    BY <1>37, BackPut, Numbers, SMTT(30) DEF Change, WriteSend, QueuedBack
  <2>2. free' = free /\ HeldToDest' = HeldToDest /\ DueToDest' = DueToDest
    BY <1>37, <2>1 DEF HeldToDest, DueToDest, AwayToDest, WriteSend, QueuedBack
  <2>3. One(dw' = "held") = 0 /\ One(dw = "held") = (IF dw = "held" THEN 1 ELSE 0)
    BY <1>37 DEF One, WriteSend, QueuedBack
  <2>4. DueToOrigin' = DueToOrigin + Count(back', "data") - Count(back, "data")
    BY <1>37, <2>1, Numbers, TunnelConstants, SMTT(30) DEF HeldToOrigin, DueToOrigin,
       AwayToOrigin,
        WriteSend, QueuedBack
  <2>5. HeldToOrigin' = dcred /\ HeldToOrigin = dcred + One(dw = "held")
    BY <1>37, <2>3, Numbers, SMTT(30) DEF HeldToOrigin, WriteSend, QueuedBack
  <2>6. dfree' = (IF dw = "held" THEN dfree ELSE dfree + 1)
    BY <1>37 DEF WriteSend, QueuedBack
  <2>7. dw = "held" => ToOriginWindow!Next
    BY <1>37, <2>1, <2>3, <2>4, <2>5, <2>6, Numbers, WindowNumbers, SMTT(30)
       DEF ToOriginWindow!Next,
        ToOriginWindow!Spend, ToOriginWindow!Keeps
  <2>8. dw # "held" => ToOriginWindow!Next
    <3>1. ASSUME dw # "held"
          PROVE  /\ dfree' = dfree + 1 /\ HeldToOrigin' = HeldToOrigin
                 /\ DueToOrigin' \in {DueToOrigin, DueToOrigin + 1}
      BY <1>37, <2>1, <2>3, <2>4, <2>5, <2>6, <3>1, Numbers, WindowNumbers, SMTT(30)
    <3> QED
      BY <3>1, OriginExcept
  <2> QED
    BY <1>37, <2>2, <2>7, <2>8, DestSame
<1>38. CASE Pause
  <2>1. back' = back \/ PutBack(Msg("pause", 0))
    BY <1>38 DEF Pause, Serving, Event, QueuedBack
  <2>2. Count(back', "data") = Count(back, "data") /\ Credits(back') = Credits(back)
    BY <1>38, <2>1, BackPut, Numbers, SMTT(30) DEF Change
  <2>3. free' = free /\ HeldToDest' = HeldToDest /\ DueToDest' = DueToDest
    BY <1>38, <2>2 DEF HeldToDest, DueToDest, AwayToDest, Pause, Serving, Event, QueuedBack
  <2>4. dfree' = dfree /\ HeldToOrigin' = HeldToOrigin /\ DueToOrigin' = DueToOrigin
    BY <1>38, <2>2 DEF HeldToOrigin, DueToOrigin, AwayToOrigin, Pause, Serving, Event,
        QueuedBack
  <2> QED
    BY <1>38, <2>3, <2>4, DestSame, OriginSame
<1>39. CASE Resume
  <2>1. back' = back \/ PutBack(Msg("resume", 0))
    BY <1>39 DEF Resume, QueuedBack
  <2>2. Count(back', "data") = Count(back, "data") /\ Credits(back') = Credits(back)
    BY <1>39, <2>1, BackPut, Numbers, SMTT(30) DEF Change
  <2>3. free' = free /\ HeldToDest' = HeldToDest /\ DueToDest' = DueToDest
    BY <1>39, <2>2 DEF HeldToDest, DueToDest, AwayToDest, Resume, Serving, Event, QueuedBack
  <2>4. dfree' = dfree /\ HeldToOrigin' = HeldToOrigin /\ DueToOrigin' = DueToOrigin
    BY <1>39, <2>2 DEF HeldToOrigin, DueToOrigin, AwayToOrigin, Resume, Serving, Event,
        QueuedBack
  <2> QED
    BY <1>39, <2>3, <2>4, DestSame, OriginSame
<1>40. CASE RetryToDest
  <2>1. Count(fwd', "data") = Count(fwd, "data")
    BY <1>40, FwdPut, Numbers, SMTT(30) DEF Change, RetryToDest
  <2>2. free' = free /\ HeldToDest' = HeldToDest /\ DueToDest' = DueToDest
    BY <1>40, <2>1 DEF HeldToDest, DueToDest, AwayToDest, RetryToDest
  <2>3. Credits(fwd') + Owed(oretries') <= Credits(fwd) + Owed(oretries)
    BY <1>40, RetriedToDest
  <2>4. recvConsumed' = recvConsumed /\ back' = back /\ dcred' = dcred /\ dw' = dw
          /\ dfree' = dfree /\ opc' = opc
    BY <1>40 DEF RetryToDest
  <2>5. dfree' = dfree /\ HeldToOrigin' <= HeldToOrigin /\ DueToOrigin' <= DueToOrigin
    BY <1>40, <2>3, <2>4, Numbers, NumbersAfter, Ones, TunnelConstants, SMTT(30)
       DEF HeldToOrigin,
        DueToOrigin, AwayToOrigin
  <2> QED
    BY <1>40, <2>2, <2>5, DestSame, OriginLoses
<1>41. CASE RetryToOrigin
  <2>1. Count(back', "data") = Count(back, "data")
    BY <1>41, BackPut, Numbers, SMTT(30) DEF Change, RetryToOrigin, QueuedBack
  <2>2. dfree' = dfree /\ HeldToOrigin' = HeldToOrigin /\ DueToOrigin' = DueToOrigin
    BY <1>41, <2>1 DEF HeldToOrigin, DueToOrigin, AwayToOrigin, RetryToOrigin, QueuedBack
  <2>3. Credits(back') + Owed(dretries') <= Credits(back) + Owed(dretries)
    BY <1>41, RetriedToOrigin
  <2>4. fconsumed' = fconsumed /\ fwd' = fwd /\ sendCh' = sendCh /\ held' = held
          /\ pipe' = pipe /\ free' = free /\ dpc' = dpc
    BY <1>41 DEF RetryToOrigin, QueuedBack
  <2>5. One(held) \in {0, 1} /\ One(pipe) \in {0, 1}
    BY <1>41 DEF One
  <2>6. free' = free /\ HeldToDest' <= HeldToDest /\ DueToDest' <= DueToDest
    BY <1>41, <2>3, <2>4, <2>5, Numbers, NumbersAfter, TunnelConstants, SMTT(30) DEF HeldToDest,
        DueToDest, AwayToDest
  <2> QED
    BY <1>41, <2>2, <2>6, DestLoses, OriginSame
<1>42. CASE Disconnect
  <2>1. Count(back', "data") = 0 /\ Credits(back') = 0
    BY <1>42, NoneInEmpty DEF Disconnect, Event
  <2>2. Count(fwd', "data") \in 0 .. Count(fwd, "data") /\ Credits(fwd') \in 0 .. Credits(fwd)
    BY <1>42, Lost DEF Disconnect, Event
  <2>3. UNCHANGED originVars /\ UNCHANGED destVars
    BY <1>42 DEF Disconnect
  <2>4. AwayToDest' <= AwayToDest
    <3>1. One(pipe') = One(pipe) /\ One(pipe) \in {0, 1}
      BY <2>3, Ones
    <3> QED
      BY <2>1, <2>2, <2>3, <3>1, Numbers, SMTT(30) DEF AwayToDest
  <2>5. AwayToOrigin' <= AwayToOrigin
    BY <2>1, <2>2, <2>3, Numbers, SMTT(30) DEF AwayToOrigin
  <2> QED
    BY <2>3, <2>4, <2>5, DestShrinks, OriginShrinks
<1> QED
  BY <1>1, <1>2, <1>3, <1>4, <1>5, <1>6, <1>7, <1>8, <1>9, <1>10, <1>11, <1>12, <1>13, <1>14,
      <1>15, <1>16, <1>17, <1>18, <1>19, <1>20, <1>21, <1>22, <1>23, <1>24, <1>25, <1>26,
      <1>27, <1>28, <1>29, <1>30, <1>31, <1>32, <1>33, <1>34, <1>35, <1>36, <1>37, <1>38,
      <1>39, <1>40, <1>41, <1>42 DEF Next, StartTunnel, OriginReader, DestReader, DestClient,
      DestWriter

-----------------------------------------------------------------------------
(* Counting the messages of a channel and the credits they carry *)

\* The library's facts on finite sets, under a name: in the model's own scope they
\* would be hypotheses of every step above.
F == INSTANCE FiniteSetTheorems

\* The facts of the library are about the finite sets and the sizes of the model.
LEMMA SameSets ==
  \A A : Cardinality(A) = F!Cardinality(A) /\ (IsFiniteSet(A) <=> F!IsFiniteSet(A))
<1>1. \A A : Cardinality(A) = F!Cardinality(A)
  BY DEF Cardinality, F!Cardinality
<1>2. \A A : IsFiniteSet(A) <=> F!IsFiniteSet(A)
  BY DEF IsFiniteSet, F!IsFiniteSet
<1> QED
  BY <1>1, <1>2

\* The size of a finite set is a number.
LEMMA SizeType ==
  ASSUME NEW S, IsFiniteSet(S)
  PROVE  Cardinality(S) \in Nat
  BY SameSets, F!FS_CardinalityType

\* The empty set is the one of size zero.
LEMMA SizeEmpty ==
  /\ IsFiniteSet({}) /\ Cardinality({}) = 0
  /\ \A S : IsFiniteSet(S) => (Cardinality(S) = 0 <=> S = {})
  BY SameSets, F!FS_EmptySet

\* A singleton has size one.
LEMMA SizeOne == \A x : IsFiniteSet({x}) /\ Cardinality({x}) = 1
  BY SameSets, F!FS_Singleton

\* One more element adds one.
LEMMA SizeAdd ==
  ASSUME NEW S, NEW x, IsFiniteSet(S)
  PROVE  Cardinality(S \cup {x}) = IF x \in S THEN Cardinality(S) ELSE Cardinality(S) + 1
  BY SameSets, F!FS_AddElement

\* One element less takes one away.
LEMMA SizeRemove ==
  ASSUME NEW S, NEW x, IsFiniteSet(S)
  PROVE  Cardinality(S \ {x}) = IF x \in S THEN Cardinality(S) - 1 ELSE Cardinality(S)
  BY SameSets, F!FS_RemoveElement

\* A subset is no larger.
LEMMA SizeSubset ==
  ASSUME NEW S, IsFiniteSet(S), NEW T \in SUBSET S
  PROVE  IsFiniteSet(T) /\ Cardinality(T) <= Cardinality(S)
  BY SameSets, F!FS_Subset

\* The size of an interval.
LEMMA SizeInterval ==
  ASSUME NEW a \in Int, NEW b \in Int
  PROVE  IsFiniteSet(a .. b) /\ Cardinality(a .. b) = IF a > b THEN 0 ELSE b - a + 1
  BY SameSets, F!FS_Interval

\* The size of a union.
LEMMA SizeUnion ==
  ASSUME NEW S, IsFiniteSet(S), NEW T, IsFiniteSet(T)
  PROVE  Cardinality(S \cup T) = Cardinality(S) + Cardinality(T) - Cardinality(S \cap T)
  BY SameSets, F!FS_Union

\* The size of a difference.
LEMMA SizeDifference ==
  ASSUME NEW S, NEW T, IsFiniteSet(S)
  PROVE  Cardinality(S \ T) = Cardinality(S) - Cardinality(S \cap T)
  BY SameSets, F!FS_Difference

\* The size of a product.
LEMMA SizeProduct ==
  ASSUME NEW S, IsFiniteSet(S), NEW T, IsFiniteSet(T)
  PROVE  IsFiniteSet(S \X T) /\ Cardinality(S \X T) = Cardinality(S) * Cardinality(T)
  BY SameSets, F!FS_Product

\* A set of positions, or of numbered credits, keeps its size when it is shifted.
LEMMA Shifted ==
  ASSUME NEW S, IsFiniteSet(S), NEW T, NEW f \in [S -> T],
         \A x, y \in S : f[x] = f[y] => x = y, \A y \in T : \E x \in S : f[x] = y
  PROVE  IsFiniteSet(T) /\ Cardinality(T) = Cardinality(S)
<1>1. f \in F!Injection(S, T) /\ f \in F!Surjection(S, T)
  BY DEF F!Injection, F!IsInjective, F!Surjection
<1>2. F!ExistsBijection(S, T)
  BY <1>1 DEF F!ExistsBijection, F!Bijection
<1> QED
  BY <1>2, SameSets, F!FS_Bijection

\* The messages of a kind and the credits of a channel are finitely many.
LEMMA ChannelSets ==
  ASSUME NEW s \in Seq(Message), NEW k
  PROVE  /\ IsFiniteSet(At(s, k)) /\ Count(s, k) \in Nat
         /\ IsFiniteSet(Units(s)) /\ Credits(s) \in Nat
<1>1. IsFiniteSet(1 .. Len(s)) /\ IsFiniteSet(1 .. Cap)
  BY SizeInterval, TunnelConstants, SMTT(30)
<1>2. IsFiniteSet((1 .. Len(s)) \X (1 .. Cap))
  BY <1>1, SizeProduct
<1>3. At(s, k) \in SUBSET (1 .. Len(s))
  BY DEF At
<1>4. Units(s) \in SUBSET ((1 .. Len(s)) \X (1 .. Cap))
  BY DEF Units
<1>5. IsFiniteSet(At(s, k)) /\ IsFiniteSet(Units(s))
  BY <1>1, <1>2, <1>3, <1>4, SizeSubset
<1> QED
  BY <1>5, SizeType DEF Count, Credits

\* An empty channel carries nothing.
LEMMA ChannelEmpty == \A k : Count(<<>>, k) = 0 /\ Credits(<<>>) = 0
<1>1. \A k : At(<<>>, k) = {} /\ Units(<<>>) = {}
  BY SMTT(30) DEF At, Units
<1> QED
  BY <1>1, SizeEmpty DEF Count, Credits

\* A message carries at most a window of credits.
LEMMA CarriedType == \A m \in Message : Carried(m) \in 0 .. Cap
  BY TunnelConstants, SMTT(30) DEF Carried, Message

\* Send: a message more at the end of the channel.
LEMMA ChannelAppend ==
  ASSUME NEW s \in Seq(Message), NEW m \in Message
  PROVE  /\ Append(s, m) \in Seq(Message)
         /\ Len(Append(s, m)) = Len(s) + 1 /\ Append(s, m)[Len(s) + 1] = m
         /\ \A i \in 1 .. Len(s) : Append(s, m)[i] = s[i]
         /\ \A k : Count(Append(s, m), k) = Count(s, k) + One(m.kind = k)
         /\ Credits(Append(s, m)) = Credits(s) + Carried(m)
<1> DEFINE t == Append(s, m)
           e == Len(s) + 1
<1>1. /\ t \in Seq(Message) /\ Len(t) = e /\ t[e] = m
      /\ \A i \in 1 .. Len(s) : t[i] = s[i]
  BY SMTT(30)
<1>2. ASSUME NEW k
      PROVE  Count(t, k) = Count(s, k) + One(m.kind = k)
  <2>1. IsFiniteSet(At(s, k)) /\ Count(s, k) \in Nat
    BY ChannelSets
  <2>2. CASE m.kind = k
    <3>1. At(t, k) = At(s, k) \cup {e} /\ e \notin At(s, k)
      BY <1>1, <2>2, SMTT(30) DEF At
    <3> QED
      BY <2>1, <2>2, <3>1, SizeAdd, SMTT(30) DEF Count, One
  <2>3. CASE m.kind # k
    <3>1. \A i : i \in 1 .. Len(t) <=> i \in 1 .. Len(s) \/ i = e
      BY <1>1, SMTT(30)
    <3>2. ASSUME NEW i
          PROVE  i \in At(t, k) <=> i \in At(s, k)
      <4>1. i \in 1 .. Len(s) => t[i] = s[i]
        BY <1>1
      <4>2. i = e => t[i].kind # k
        BY <1>1, <2>3
      <4>3. e \notin 1 .. Len(s)
        BY SMTT(30)
      <4> QED
        BY <3>1, <4>1, <4>2, <4>3 DEF At
    <3>3. At(t, k) = At(s, k)
      BY <3>2
    <3> QED
      BY <2>1, <2>3, <3>3, SMTT(30) DEF Count, One
  <2> QED
    BY <2>2, <2>3
<1>3. Credits(t) = Credits(s) + Carried(m)
  <2> DEFINE N == {e} \X (1 .. Carried(m))
  <2>1. IsFiniteSet(Units(s)) /\ Credits(s) \in Nat
    BY ChannelSets
  <2>2. Carried(m) \in 0 .. Cap
    BY CarriedType
  <2>3. IsFiniteSet(N) /\ Cardinality(N) = Carried(m)
    <3>1. IsFiniteSet(1 .. Carried(m)) /\ Cardinality(1 .. Carried(m)) = Carried(m)
      BY <2>2, SizeInterval, TunnelConstants, SMTT(30)
    <3>2. IsFiniteSet({e}) /\ Cardinality({e}) = 1
      BY SizeOne
    <3>3. IsFiniteSet(N) /\ Cardinality(N) = 1 * Cardinality(1 .. Carried(m))
      BY <3>1, <3>2, SizeProduct
    <3> QED
      BY <2>2, <3>1, <3>3, TunnelConstants, SMTT(30)
  <2>4. Units(t) = Units(s) \cup N
    BY <1>1, <2>2, TunnelConstants, SMTT(30) DEF Units, Carried
  <2>5. Units(s) \cap N = {}
    BY SMTT(30) DEF Units
  <2>6. Cardinality(Units(t)) = Cardinality(Units(s)) + Cardinality(N) - Cardinality({})
    BY <2>1, <2>3, <2>4, <2>5, SizeUnion, SMTT(30)
  <2> QED
    BY <2>1, <2>2, <2>3, <2>6, SizeEmpty, SMTT(30) DEF Credits
<1> QED
  BY <1>1, <1>2, <1>3

\* A channel without its first k messages has what is behind them.
LEMMA ChannelDrop ==
  ASSUME NEW s \in Seq(Message), NEW k \in 0 .. Len(s), NEW t \in Seq(Message),
         Len(t) = Len(s) - k, \A i \in 1 .. Len(t) : t[i] = s[i + k]
  PROVE  /\ \A q : Count(t, q) = Cardinality({i \in At(s, q) : i > k})
         /\ Credits(t) = Cardinality({u \in Units(s) : u[1] > k})
<1>1. ASSUME NEW q
      PROVE  Count(t, q) = Cardinality({i \in At(s, q) : i > k})
  <2> DEFINE T == {i \in At(s, q) : i > k}
             f == [i \in At(t, q) |-> i + k]
  <2>1. f \in [At(t, q) -> T]
    BY SMTT(30) DEF At
  <2>2. \A x, y \in At(t, q) : f[x] = f[y] => x = y
    BY SMTT(30) DEF At
  <2>3. \A y \in T : \E x \in At(t, q) : f[x] = y
    <3> SUFFICES ASSUME NEW y \in T
                 PROVE  y - k \in At(t, q) /\ f[y - k] = y
      OBVIOUS
    <3> QED
      BY SMTT(30) DEF At
  <2>4. IsFiniteSet(At(t, q))
    BY ChannelSets
  <2> HIDE DEF f, T
  <2>5. Cardinality(T) = Cardinality(At(t, q))
    BY <2>1, <2>2, <2>3, <2>4, Shifted
  <2> QED
    BY <2>5 DEF T, Count
<1>2. Credits(t) = Cardinality({u \in Units(s) : u[1] > k})
  <2> DEFINE T == {u \in Units(s) : u[1] > k}
             f == [u \in Units(t) |-> <<u[1] + k, u[2]>>]
  <2>1. f \in [Units(t) -> T]
    <3> SUFFICES ASSUME NEW u \in Units(t)
                 PROVE  <<u[1] + k, u[2]>> \in T
      OBVIOUS
    <3>1. u[1] \in 1 .. Len(t) /\ u[2] \in 1 .. Cap /\ t[u[1]] = s[u[1] + k]
            /\ u[1] + k \in 1 .. Len(s)
      BY SMTT(30) DEF Units
    <3> QED
      BY <3>1, SMTT(30) DEF Units
  <2>2. \A x, y \in Units(t) : f[x] = f[y] => x = y
    <3> SUFFICES ASSUME NEW x \in Units(t), NEW y \in Units(t), f[x] = f[y]
                 PROVE  x = y
      OBVIOUS
    <3>1. x[1] = y[1] /\ x[2] = y[2]
      BY SMTT(30) DEF Units
    <3> QED
      BY <3>1, SMTT(30) DEF Units
  <2>3. \A y \in T : \E x \in Units(t) : f[x] = y
    <3> SUFFICES ASSUME NEW y \in T
                 PROVE  <<y[1] - k, y[2]>> \in Units(t) /\ f[<<y[1] - k, y[2]>>] = y
      OBVIOUS
    <3>1. y[1] \in k + 1 .. Len(s) /\ y[2] \in 1 .. Cap /\ y = <<y[1], y[2]>>
            /\ y[1] - k \in 1 .. Len(t) /\ t[y[1] - k] = s[y[1]]
      BY SMTT(30) DEF Units
    <3>2. <<y[1] - k, y[2]>> \in Units(t)
      BY <3>1 DEF Units
    <3> QED
      BY <3>1, <3>2, SMTT(30)
  <2>4. IsFiniteSet(Units(t))
    BY ChannelSets
  <2> HIDE DEF f, T
  <2>5. Cardinality(T) = Cardinality(Units(t))
    BY <2>1, <2>2, <2>3, <2>4, Shifted
  <2> QED
    BY <2>5 DEF T, Credits
<1> QED
  BY <1>1, <1>2

\* Disconnect: messages that are lost are not counted any more, the others are.
LEMMA ChannelSuffix ==
  ASSUME NEW s \in Seq(Message), NEW k \in 0 .. Len(s)
  PROVE  LET t == SubSeq(s, k + 1, Len(s))
         IN  /\ t \in Seq(Message) /\ Len(t) = Len(s) - k
             /\ \A i \in 1 .. Len(t) : t[i] = s[i + k]
             /\ \A q : Count(t, q) \in 0 .. Count(s, q)
             /\ Credits(t) \in 0 .. Credits(s)
<1> DEFINE t == SubSeq(s, k + 1, Len(s))
<1>1. t \in Seq(Message) /\ Len(t) = Len(s) - k /\ \A i \in 1 .. Len(t) : t[i] = s[i + k]
  BY SMTT(30)
<1> HIDE DEF t
<1>2. ASSUME NEW q
      PROVE  Count(t, q) \in 0 .. Count(s, q)
  <2>1. IsFiniteSet(At(s, q)) /\ Count(s, q) \in Nat /\ Count(t, q) \in Nat
    BY <1>1, ChannelSets
  <2>2. {i \in At(s, q) : i > k} \in SUBSET At(s, q)
    OBVIOUS
  <2>3. Cardinality({i \in At(s, q) : i > k}) <= Cardinality(At(s, q))
    BY <2>1, <2>2, SizeSubset
  <2>4. Count(t, q) = Cardinality({i \in At(s, q) : i > k})
    <3>1. \A r : Count(t, r) = Cardinality({i \in At(s, r) : i > k})
      BY <1>1, ChannelDrop
    <3> QED
      BY <3>1
  <2> QED
    BY <2>1, <2>3, <2>4, SMTT(30) DEF Count
<1>3. Credits(t) \in 0 .. Credits(s)
  <2>1. IsFiniteSet(Units(s)) /\ Credits(s) \in Nat /\ Credits(t) \in Nat
    BY <1>1, ChannelSets
  <2>2. {u \in Units(s) : u[1] > k} \in SUBSET Units(s)
    OBVIOUS
  <2>3. Cardinality({u \in Units(s) : u[1] > k}) <= Cardinality(Units(s))
    BY <2>1, <2>2, SizeSubset
  <2>4. Credits(t) = Cardinality({u \in Units(s) : u[1] > k})
    BY <1>1, ChannelDrop
  <2> QED
    BY <2>1, <2>3, <2>4, SMTT(30) DEF Credits
<1> QED
  BY <1>1, <1>2, <1>3 DEF t

\* Receive: the first message is counted no longer.
LEMMA ChannelTail ==
  ASSUME NEW s \in Seq(Message), s # <<>>
  PROVE  /\ Tail(s) \in Seq(Message) /\ Head(s) \in Message /\ Head(s) = s[1]
         /\ Len(Tail(s)) = Len(s) - 1 /\ \A i \in 1 .. Len(Tail(s)) : Tail(s)[i] = s[i + 1]
         /\ \A q : Count(Tail(s), q) = Count(s, q) - One(Head(s).kind = q)
         /\ Credits(Tail(s)) = Credits(s) - Carried(Head(s))
<1> DEFINE t == Tail(s)
           m == Head(s)
<1>1. /\ t \in Seq(Message) /\ m \in Message /\ m = s[1] /\ 1 \in 0 .. Len(s)
      /\ Len(t) = Len(s) - 1 /\ \A i \in 1 .. Len(t) : t[i] = s[i + 1]
  BY SMTT(30)
<1> HIDE DEF t, m
<1>2. ASSUME NEW q
      PROVE  Count(t, q) = Count(s, q) - One(m.kind = q)
  <2>1. IsFiniteSet(At(s, q)) /\ Cardinality(At(s, q)) \in Nat
    BY ChannelSets DEF Count
  <2>2. Count(t, q) = Cardinality(At(s, q) \ {1})
    <3>1. {i \in At(s, q) : i > 1} = At(s, q) \ {1}
      BY SMTT(30) DEF At
    <3>2. \A r : Count(t, r) = Cardinality({i \in At(s, r) : i > 1})
      BY <1>1, ChannelDrop
    <3> QED
      BY <3>1, <3>2
  <2>3. 1 \in At(s, q) <=> m.kind = q
    BY <1>1, SMTT(30) DEF At
  <2>4. Cardinality(At(s, q) \ {1}) =
          IF 1 \in At(s, q) THEN Cardinality(At(s, q)) - 1 ELSE Cardinality(At(s, q))
    BY <2>1, SizeRemove
  <2> QED
    BY <2>1, <2>2, <2>3, <2>4, SMTT(30) DEF Count, One
<1>3. Credits(t) = Credits(s) - Carried(m)
  <2> DEFINE N == {1} \X (1 .. Carried(m))
  <2>1. IsFiniteSet(Units(s)) /\ Cardinality(Units(s)) \in Nat
    BY ChannelSets DEF Credits
  <2>2. Carried(m) \in 0 .. Cap
    BY <1>1, CarriedType
  <2>3. IsFiniteSet(N) /\ Cardinality(N) = Carried(m)
    <3>1. IsFiniteSet(1 .. Carried(m)) /\ Cardinality(1 .. Carried(m)) = Carried(m)
      BY <2>2, SizeInterval, TunnelConstants, SMTT(30)
    <3>2. IsFiniteSet({1}) /\ Cardinality({1}) = 1
      BY SizeOne
    <3>3. IsFiniteSet(N) /\ Cardinality(N) = 1 * Cardinality(1 .. Carried(m))
      BY <3>1, <3>2, SizeProduct
    <3> QED
      BY <2>2, <3>1, <3>3, TunnelConstants, SMTT(30)
  <2>4. {u \in Units(s) : u[1] > 1} = Units(s) \ N
    BY <1>1, <2>2, TunnelConstants, SMTT(30) DEF Units, Carried
  <2>5. Units(s) \cap N = N
    BY <1>1, <2>2, TunnelConstants, SMTT(30) DEF Units, Carried
  <2>6. Cardinality(Units(s) \ N) = Cardinality(Units(s)) - Cardinality(N)
    <3> HIDE DEF N
    <3>1. Cardinality(Units(s) \ N) = Cardinality(Units(s)) - Cardinality(Units(s) \cap N)
      BY <2>1, SizeDifference
    <3> QED
      BY <2>5, <3>1
  <2>7. Credits(t) = Cardinality({u \in Units(s) : u[1] > 1})
    BY <1>1, ChannelDrop
  <2> HIDE DEF N
  <2> QED
    BY <2>3, <2>4, <2>6, <2>7 DEF Credits
<1> QED
  BY <1>1, <1>2, <1>3 DEF t, m

\* Messages of a kind are counted if and only if there are some.
LEMMA Counted ==
  ASSUME NEW s \in Seq(Message), NEW k
  PROVE  Count(s, k) > 0 <=> \E i \in 1 .. Len(s) : s[i].kind = k
<1>1. IsFiniteSet(At(s, k)) /\ Count(s, k) \in Nat
  BY ChannelSets
<1>2. Count(s, k) = 0 <=> At(s, k) = {}
  BY <1>1, SizeEmpty DEF Count
<1> QED
  BY <1>1, <1>2, SMTT(30) DEF At

-----------------------------------------------------------------------------
(* The theorems *)

\* Counting a channel comes to what the lemmas above assume.
LEMMA ChannelCounting == Counting
<1>1. \A k : Count(<<>>, k) = 0 /\ Credits(<<>>) = 0
  BY ChannelEmpty
<1>2. ASSUME NEW s \in Seq(Message)
      PROVE  /\ \A k : Count(s, k) \in Nat
             /\ Credits(s) \in Nat
             /\ \A m \in Message : Grown(s, Append(s, m), m)
             /\ s # <<>> => Shrunk(s, Tail(s)) /\ Head(s) \in Message
             /\ \A k \in 0 .. Len(s) : Left(s, SubSeq(s, k + 1, Len(s)), k)
  <2>1. (\A k : Count(s, k) \in Nat) /\ Credits(s) \in Nat
    BY ChannelSets
  <2>2. ASSUME NEW m \in Message
        PROVE  Grown(s, Append(s, m), m)
    BY ChannelAppend, SMTT(30) DEF Grown
  <2>3. ASSUME s # <<>>
        PROVE  Shrunk(s, Tail(s)) /\ Head(s) \in Message
    BY <2>3, ChannelTail, SMTT(30) DEF Shrunk
  <2>4. ASSUME NEW k \in 0 .. Len(s)
        PROVE  Left(s, SubSeq(s, k + 1, Len(s)), k)
    BY ChannelSuffix DEF Left
  <2> QED
    BY <2>1, <2>2, <2>3, <2>4
<1> QED
  BY <1>1, <1>2 DEF Counting

\* The invariant holds before the request is sent.
LEMMA TunnelInit == ASSUME Init PROVE TunnelInv
<1>1. Types
  <2>1. fwd \in Seq(Message) /\ back \in Seq(Message) /\ gen \in Nat \ {0}
    BY SMTT(30) DEF Init
  <2>2. OriginTypes
    BY TunnelConstants, SMTT(30) DEF Init, OriginTypes, Starting
  <2>3. DestTypes
    BY TunnelConstants, SMTT(30) DEF Init, DestTypes
  <2> QED
    BY <2>1, <2>2, <2>3 DEF Types
<1>2. Count(fwd, "request") = 0 /\ Credits(fwd) = 0
  BY ChannelEmpty DEF Init
<1>3. RequestFirst
  BY <1>2 DEF Init, RequestFirst, Untouched
<1>4. StateFirst
  BY <1>2 DEF Init, StateFirst
<1>5. PauseInv
  BY SMTT(30) DEF Init, PauseInv
<1>6. BatchCirculates
  BY DEF Init, BatchCirculates, Linked
<1> QED
  BY <1>1, <1>3, <1>4, <1>5, <1>6 DEF TunnelInv

\* Nothing changes in a step that leaves the tunnel alone.
LEMMA TunnelUnchanged == ASSUME TunnelInv, UNCHANGED vars PROVE TunnelInv'
<1> USE DEF vars, linkVars, originVars, destVars
<1>1. Types'
  BY DEF TunnelInv, Types, OriginTypes, DestTypes
<1>2. RequestFirst'
  BY DEF TunnelInv, RequestFirst, Untouched
<1>3. StateFirst'
  BY DEF TunnelInv, StateFirst
<1>4. PauseInv'
  BY DEF TunnelInv, PauseInv
<1>5. BatchCirculates'
  BY DEF TunnelInv, BatchCirculates, Linked, ToDest, ToOrigin, HeldToDest, HeldToOrigin,
         AwayToDest, AwayToOrigin
<1> QED
  BY <1>1, <1>2, <1>3, <1>4, <1>5 DEF TunnelInv

\* For any capacity, batch and number of tries: the destination does nothing
\* before the one request, the origin counts and grants nothing before it has
\* stored the tunnel's state, and every pause under way is in force or withdrawn.
THEOREM TunnelKept == Spec => []TunnelInv
<1>1. Init => TunnelInv
  BY TunnelInit
<1>2. TunnelInv /\ [Next]_vars => TunnelInv'
  <2> SUFFICES ASSUME TunnelInv, [Next]_vars
               PROVE  TunnelInv'
    OBVIOUS
  <2>1. CASE Next
    <3>1. Types /\ RequestFirst /\ StateFirst /\ PauseInv /\ BatchCirculates
      BY DEF TunnelInv
    <3>2. Types'
      BY <2>1, <3>1, ChannelCounting, TypesStep
    <3>3. RequestFirst' /\ StateFirst'
      BY <2>1, <3>1, <3>2, ChannelCounting, RequestStep, StateStep
    <3>4. PauseInv' /\ BatchCirculates'
      BY <2>1, <3>1, <3>2, ChannelCounting, PauseStep, BatchStep
    <3> QED
      BY <3>2, <3>3, <3>4 DEF TunnelInv
  <2>2. CASE UNCHANGED vars
    BY <2>2, TunnelUnchanged
  <2> QED
    BY <2>1, <2>2
<1> QED
  BY <1>1, <1>2, PTL DEF Spec

\* For any capacity, batch and number of tries: an end user is held back
\* (PauseArrives) only while the destination knows that it paused, is closed or
\* has its resume on the way, as handlePauseStream and handleResumeStream change
\* the flag only with a message that was queued.
THEOREM PauseMirroredHolds == Spec => []PauseMirrored
<1>1. TunnelInv => PauseMirrored
  <2> SUFFICES ASSUME TunnelInv, opaused, ~oclosed, active, up, gen = 1
               PROVE  dpaused \/ Count(back, "resume") > 0
    BY DEF PauseMirrored
  <2>1. dpaused \/ \E j \in 1 .. Len(back) : back[j].kind = "resume"
    BY DEF TunnelInv, PauseInv
  <2>2. back \in Seq(Message)
    BY DEF TunnelInv, Types
  <2>3. (\E j \in 1 .. Len(back) : back[j].kind = "resume") => Count(back, "resume") > 0
    BY <2>2, Counted
  <2> QED
    BY <2>1, <2>3
<1> QED
  BY <1>1, TunnelKept, PTL

\* For any capacity, batch and number of tries: between two live ends, and as long
\* as no retryCreditSend gave up, at least a batch of credits circulates in either
\* direction, so no receiver's count below a batch holds back all of them.
THEOREM BatchCirculatesHolds == Spec => []BatchCirculates
<1>1. TunnelInv => BatchCirculates
  BY DEF TunnelInv
<1> QED
  BY <1>1, TunnelKept, PTL

\* A tunnel that has not been requested has a whole window in either direction.
LEMMA WindowsInit == ASSUME Init PROVE ToDestWindow!Init /\ ToOriginWindow!Init
<1>1. Count(fwd, "data") = 0 /\ Count(back, "data") = 0 /\ Credits(fwd) = 0 /\ Credits(back) = 0
  BY ChannelEmpty DEF Init
<1>2. Owed(oretries) = 0 /\ Owed(dretries) = 0
  BY TunnelConstants, SMTT(30) DEF Init, Owed
<1>3. One(held) = 0 /\ One(pipe) = 0 /\ One(dw = "held") = 0
  BY DEF Init, One
<1>4. /\ sendCh = 0 /\ dcred = 0 /\ fconsumed = 0 /\ recvConsumed = 0 /\ free = 0 /\ dfree = 0
      /\ dpc = "none" /\ opc = "request"
  BY DEF Init
<1>5. HeldToDest = 0 /\ HeldToOrigin = 0
  BY <1>3, <1>4, SMTT(30) DEF HeldToDest, HeldToOrigin
<1>6. AwayToDest = 0 /\ AwayToOrigin = 0
  BY <1>1, <1>2, <1>3, <1>4, SMTT(30) DEF AwayToDest, AwayToOrigin
<1>7. DueToDest = Cap + AwayToDest /\ DueToOrigin = Cap + AwayToOrigin
  BY <1>4 DEF DueToDest, DueToOrigin
<1>8. DueToDest = Cap /\ DueToOrigin = Cap /\ Cap \in Nat
  BY <1>6, <1>7, TunnelConstants, SMTT(30)
<1>9. ToDestWindow!Init
  BY <1>4, <1>5, <1>8, SMTT(30) DEF ToDestWindow!Init
<1>10. ToOriginWindow!Init
  BY <1>4, <1>5, <1>8, SMTT(30) DEF ToOriginWindow!Init
<1> QED
  BY <1>9, <1>10

\* For any capacity, batch and number of tries, both directions of a tunnel
\* implement the credit window: Send's drops, refunds, retryCreditSend and lost
\* links lose credits at most, and only frames sent before flow control was
\* active add any.
THEOREM ImplementsWindowsHolds == Spec => ImplementsWindows
<1>1. Init => ToDestWindow!Init /\ ToOriginWindow!Init
  BY WindowsInit
<1>2. TunnelInv /\ TunnelInv' /\ [Next]_vars
        => [ToDestWindow!Next]_ToDestWindow!vars /\ [ToOriginWindow!Next]_ToOriginWindow!vars
  <2> SUFFICES ASSUME TunnelInv, TunnelInv', [Next]_vars
               PROVE  /\ [ToDestWindow!Next]_ToDestWindow!vars
                      /\ [ToOriginWindow!Next]_ToOriginWindow!vars
    OBVIOUS
  <2>1. CASE Next
    BY <2>1, ChannelCounting, WindowStep DEF TunnelInv
  <2>2. CASE UNCHANGED vars
    BY <2>2 DEF vars, linkVars, originVars, destVars, ToDestWindow!vars, ToOriginWindow!vars,
         HeldToDest, DueToDest, AwayToDest, HeldToOrigin, DueToOrigin, AwayToOrigin
  <2> QED
    BY <2>1, <2>2
<1> QED
  BY <1>1, <1>2, TunnelKept, PTL
     DEF Spec, ImplementsWindows, ToDestWindow!Spec, ToOriginWindow!Spec

\* So no direction ever has more credits than its initial grant and the frames
\* that went without one (CreditWindow.Bounded): a sender is never ahead of the
\* receiver by more.
THEOREM CreditsBounded == Spec => [](ToDestWindow!Bounded /\ ToOriginWindow!Bounded)
<1> DEFINE B == ToDestWindow!Bounded /\ ToOriginWindow!Bounded
<1>1. Init => B
  <2>1. ToDestWindow!Init => ToDestWindow!Bounded
    BY TunnelConstants, SMTT(30) DEF ToDestWindow!Init, ToDestWindow!Bounded
  <2>2. ToOriginWindow!Init => ToOriginWindow!Bounded
    BY TunnelConstants, SMTT(30) DEF ToOriginWindow!Init, ToOriginWindow!Bounded
  <2> QED
    BY <2>1, <2>2, WindowsInit
<1>2. TunnelInv /\ TunnelInv' /\ B /\ [Next]_vars => B'
  <2> SUFFICES ASSUME TunnelInv, TunnelInv', B, [Next]_vars
               PROVE  B'
    OBVIOUS
  <2>1. CASE Next
    <3>1. ToDestWindow!Next /\ ToOriginWindow!Next
      BY <2>1, ChannelCounting, WindowStep DEF TunnelInv
    <3>2. HeldToDest \in Nat /\ DueToDest \in Nat /\ HeldToOrigin \in Nat /\ DueToOrigin \in Nat
      BY ChannelCounting, WindowNumbers DEF TunnelInv
    <3>3. free \in Nat /\ dfree \in Nat /\ Cap \in Nat
      BY TunnelConstants DEF TunnelInv, Types, OriginTypes, DestTypes
    <3>4. ToDestWindow!Bounded'
      BY <3>1, <3>2, <3>3, SMTT(30) DEF ToDestWindow!Bounded, ToDestWindow!Next,
         ToDestWindow!Spend,
           ToDestWindow!Return, ToDestWindow!Except, ToDestWindow!Lose
    <3>5. ToOriginWindow!Bounded'
      BY <3>1, <3>2, <3>3, SMTT(30) DEF ToOriginWindow!Bounded, ToOriginWindow!Next,
           ToOriginWindow!Spend, ToOriginWindow!Return, ToOriginWindow!Except,
           ToOriginWindow!Lose
    <3> QED
      BY <3>4, <3>5
  <2>2. CASE UNCHANGED vars
    BY <2>2 DEF vars, linkVars, originVars, destVars, ToDestWindow!Bounded,
         ToOriginWindow!Bounded, HeldToDest, DueToDest, AwayToDest, HeldToOrigin, DueToOrigin,
         AwayToOrigin
  <2> QED
    BY <2>1, <2>2
<1> QED
  BY <1>1, <1>2, TunnelKept, PTL DEF Spec

=============================================================================
