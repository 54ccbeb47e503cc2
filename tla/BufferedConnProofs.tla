------------------------- MODULE BufferedConnProofs -------------------------
(***************************************************************************)
(* BufferedConn implements CreditWindow for every window, batch and bound, *)
(* an honest sender overflows the buffer only after more than a window of  *)
(* exceptions, and a disconnect flushes before the half-close.             *)
(***************************************************************************)
EXTENDS BufferedConn, TLAPS

\* A leaf that names no prover is Zenon's.
USE ZenonT(30)

Ending == {"last", "flush", "flushing", "done"}
Drains == {"select", "gate", "write", "replenish", "gateReplenish"} \cup Ending
Phases == {"off", "delete", "start", "flush", "grace", "close", "stop", "wait", "end"}

TypeInv ==
  /\ avail \in Nat /\ avail <= MaxCap /\ extra \in Nat
  /\ wire \in Nat /\ returning \in Nat /\ writeCh \in Nat /\ consumed \in Nat
  /\ reg \in {"adding", "in", "out"}
  /\ reader \in {"idle", "enqueue", "remove", "closing"}
  /\ drain \in Drains /\ closer \in [Closers -> Phases]

\* drain leaves its loop only after quit.
QuitInv == drain \in Ending => quit

\* What the window promises, under the refinement mapping.
WindowInv == W!TypeOK /\ W!Bounded /\ W!Conserved

Inv == TypeInv /\ QuitInv /\ WindowInv

USE ConnConstants

LEMMA TypeInit == Init => TypeInv /\ QuitInv
BY SMTT(30) DEF Init, TypeInv, QuitInv, Drains, Ending, Phases

LEMMA TypeNext == ASSUME TypeInv, [Next]_vars PROVE TypeInv'
<1> USE DEF TypeInv, Drains, Ending, Phases
<1>1. CASE SendFrame
  BY <1>1, SMTT(30) DEF SendFrame, senderElse, pump, conn, replenish, ends
<1>2. CASE StallProbe
  BY <1>2, SMTT(30) DEF StallProbe, senderElse, pump, conn, replenish, ends
<1>3. CASE ResumeArrives
  BY <1>3, SMTT(30) DEF ResumeArrives, senderElse, pump, conn, replenish, ends, AtMost
<1>4. CASE StoreClient
  BY <1>4 DEF StoreClient, pumpElse, sender, replenish
<1>5. CASE HandleData
  BY <1>5, SMTT(30) DEF HandleData, pumpElse, sender, replenish
<1>6. CASE Enqueue
  BY <1>6, SMTT(30) DEF Enqueue, pumpElse, sender, replenish
<1>7. CASE ReaderRemoves
  BY <1>7, SMTT(30) DEF ReaderRemoves, removeElse, sender, Forgotten, conn, replenish
<1>8. CASE HandleDisconnect
  <2>1. closer' \in [Closers -> Phases]
    BY <1>8 DEF HandleDisconnect
  <2>2. avail' = 0 /\ 0 <= MaxCap /\ returning' = 0 /\ probeFired' = FALSE
    BY <1>8, SMTT(30) DEF HandleDisconnect, Forgotten
  <2> QED BY <1>8, <2>1, <2>2 DEF HandleDisconnect, removeElse, conn, replenish
<1>9. CASE TakeFrame
  BY <1>9, SMTT(30) DEF TakeFrame, drainElse, sender, pump, ends, replenish
<1>10. CASE TimerFires
  BY <1>10 DEF TimerFires, drainElse, sender, pump, ends, replenish
<1>11. CASE ReplenishBacksOff
  BY <1>11 DEF ReplenishBacksOff, drainElse, sender, pump, ends, replenish, BackFrom,
     Replenishing
<1>12. CASE ReplenishSent
  BY <1>12, SMTT(30) DEF ReplenishSent, drainElse, sender, pump, ends, replenish, BackFrom,
     Replenishing
<1>13. CASE ReplenishFails
  BY <1>13 DEF ReplenishFails, drainElse, sender, pump, ends, replenish, BackFrom, Replenishing
<1>14. CASE QuitSeen
  BY <1>14 DEF QuitSeen, LoopLeft, drainElse, sender, pump, ends, replenish
<1>15. CASE flushRemaining
  BY <1>15, SMTT(30) DEF flushRemaining, drainElse, sender, pump, ends, replenish
<1>16. CASE GateAllows
  BY <1>16 DEF GateAllows, drainElse, sender, pump, ends, replenish
<1>17. CASE BackoffOver
  BY <1>17 DEF BackoffOver, drainElse, sender, pump, ends, replenish
<1>18. CASE WriteOK
  BY <1>18, SMTT(30) DEF WriteOK, drainElse, sender, pump, ends, replenish
<1>19. CASE WriteFails
  BY <1>19 DEF WriteFails, LoopLeft, drainElse, sender, pump, ends, replenish
<1>20. CASE WriteLast
  BY <1>20 DEF WriteLast, drainElse, sender, pump, ends, replenish
<1>21. CASE FlushWrite
  BY <1>21 DEF FlushWrite, drainElse, sender, pump, ends, replenish
<1>22. CASE UserEnds
  <2>1. closer' \in [Closers -> Phases]
    BY <1>22 DEF UserEnds, At
  <2>2. avail' = 0 /\ 0 <= MaxCap /\ returning' = 0 /\ probeFired' = FALSE
    BY <1>22, SMTT(30) DEF UserEnds, Forgotten
  <2> QED BY <1>22, <2>1, <2>2 DEF UserEnds, replenish
<1>23. CASE SessionRange
  <2>1. closer' \in [Closers -> Phases]
    BY <1>23 DEF SessionRange, At
  <2>2. avail' = 0 /\ 0 <= MaxCap /\ wire' = 0 /\ returning' = 0
    BY <1>23, SMTT(30) DEF SessionRange, Forgotten
  <2> QED BY <1>23, <2>1, <2>2, SMTT(30) DEF SessionRange, replenish
<1>24. CASE SessionDelete
  <2> PICK l \in {"start", "close"} : closer' = [closer EXCEPT !["session"] = l]
    BY <1>24 DEF SessionDelete, At
  <2> QED BY <1>24 DEF SessionDelete, closeElse, sender, links, replenish, conn, Closers
<1>25. ASSUME NEW c \in Closers, Closing(c) PROVE TypeInv'
  <2>1. CASE StopWrites(c)
    BY <2>1 DEF StopWrites, closeElse, sender, links, replenish, conn, At
  <2>2. CASE CloseWrite(c)
    BY <2>2 DEF CloseWrite, closeElse, sender, links, replenish, conn, At
  <2>3. CASE CloseConn(c)
    BY <2>3 DEF CloseConn, closeElse, sender, links, replenish, conn, At
  <2>4. CASE CloseReturns(c)
    BY <2>4 DEF CloseReturns, closeElse, sender, links, replenish, conn, At
  <2> QED BY <1>25, <2>1, <2>2, <2>3, <2>4 DEF Closing
<1>26. CASE UNCHANGED vars
  BY <1>26 DEF vars, sender, links, pump, conn, replenish, ends
<1>27. CASE TransitionToClosed
  BY <1>27 DEF TransitionToClosed, senderElse, pump, conn, replenish, ends, links, AtMost
<1>28. CASE KickstartAndClose
  BY <1>28, SMTT(30) DEF KickstartAndClose, senderElse, pump, conn, replenish, ends, links,
       AtMost
<1>29. CASE RacedFrame
  BY <1>29, SMTT(30) DEF RacedFrame, senderElse, pump, conn, replenish, ends, links, AtMost
<1> QED BY <1>1, <1>2, <1>3, <1>4, <1>5, <1>6, <1>7, <1>8, <1>9, <1>10, <1>11, <1>12, <1>13,
   <1>14, <1>15, <1>16, <1>17, <1>18, <1>19, <1>20, <1>21, <1>22, <1>23, <1>24, <1>25,
   <1>26, <1>27, <1>28, <1>29 DEF Next, Reader, Drain, WriteReturns

LEMMA QuitNext == ASSUME TypeInv, QuitInv, [Next]_vars PROVE QuitInv'
<1> USE DEF TypeInv, QuitInv, Drains, Ending
<1>1. CASE SendFrame
  BY <1>1 DEF SendFrame, senderElse, pump, conn, replenish, ends
<1>2. CASE StallProbe
  BY <1>2 DEF StallProbe, senderElse, pump, conn, replenish, ends
<1>3. CASE ResumeArrives
  BY <1>3 DEF ResumeArrives, senderElse, pump, conn, replenish, ends, AtMost
<1>4. CASE StoreClient
  BY <1>4 DEF StoreClient, pumpElse, sender, replenish
<1>5. CASE HandleData
  BY <1>5 DEF HandleData, pumpElse, sender, replenish
<1>6. CASE Enqueue
  BY <1>6 DEF Enqueue, pumpElse, sender, replenish
<1>7. CASE ReaderRemoves
  BY <1>7 DEF ReaderRemoves, removeElse, sender, Forgotten, conn, replenish
<1>8. CASE HandleDisconnect
  BY <1>8 DEF HandleDisconnect, removeElse, Forgotten, conn, replenish
<1>9. CASE TakeFrame
  BY <1>9 DEF TakeFrame, drainElse, sender, pump, ends, replenish
<1>10. CASE TimerFires
  BY <1>10 DEF TimerFires, drainElse, sender, pump, ends, replenish
<1>11. CASE ReplenishBacksOff
  BY <1>11 DEF ReplenishBacksOff, drainElse, sender, pump, ends, replenish, BackFrom,
     Replenishing
<1>12. CASE ReplenishSent
  BY <1>12 DEF ReplenishSent, drainElse, sender, pump, ends, replenish, BackFrom, Replenishing
<1>13. CASE ReplenishFails
  BY <1>13 DEF ReplenishFails, drainElse, sender, pump, ends, replenish, BackFrom, Replenishing
<1>14. CASE QuitSeen
  BY <1>14 DEF QuitSeen, LoopLeft, drainElse, sender, pump, ends, replenish
<1>15. CASE flushRemaining
  BY <1>15 DEF flushRemaining, drainElse, sender, pump, ends, replenish
<1>16. CASE GateAllows
  BY <1>16 DEF GateAllows, drainElse, sender, pump, ends, replenish
<1>17. CASE BackoffOver
  BY <1>17 DEF BackoffOver, drainElse, sender, pump, ends, replenish
<1>18. CASE WriteOK
  BY <1>18 DEF WriteOK, drainElse, sender, pump, ends, replenish
<1>19. CASE WriteFails
  BY <1>19 DEF WriteFails, LoopLeft, drainElse, sender, pump, ends, replenish
<1>20. CASE WriteLast
  BY <1>20 DEF WriteLast, drainElse, sender, pump, ends, replenish
<1>21. CASE FlushWrite
  BY <1>21 DEF FlushWrite, drainElse, sender, pump, ends, replenish
<1>22. CASE UserEnds
  BY <1>22 DEF UserEnds, Forgotten, replenish, At
<1>23. CASE SessionRange
  BY <1>23 DEF SessionRange, Forgotten, closeElse, sender, links, replenish, conn, At
<1>24. CASE SessionDelete
  BY <1>24 DEF SessionDelete, closeElse, sender, links, replenish, conn, At
<1>25. ASSUME NEW c \in Closers, Closing(c) PROVE QuitInv'
  <2>1. CASE StopWrites(c)
    BY <2>1 DEF StopWrites, closeElse, sender, links, replenish, conn, At
  <2>2. CASE CloseWrite(c)
    BY <2>2 DEF CloseWrite, closeElse, sender, links, replenish, conn, At
  <2>3. CASE CloseConn(c)
    BY <2>3 DEF CloseConn, closeElse, sender, links, replenish, conn, At
  <2>4. CASE CloseReturns(c)
    BY <2>4 DEF CloseReturns, closeElse, sender, links, replenish, conn, At
  <2> QED BY <1>25, <2>1, <2>2, <2>3, <2>4 DEF Closing
<1>26. CASE UNCHANGED vars
  BY <1>26 DEF vars, sender, links, pump, conn, replenish, ends
<1>27. CASE TransitionToClosed
  BY <1>27 DEF TransitionToClosed, senderElse, pump, conn, replenish, ends, links
<1>28. CASE KickstartAndClose
  BY <1>28 DEF KickstartAndClose, senderElse, pump, conn, replenish, ends, links
<1>29. CASE RacedFrame
  BY <1>29 DEF RacedFrame, senderElse, pump, conn, replenish, ends, links
<1> QED BY <1>1, <1>2, <1>3, <1>4, <1>5, <1>6, <1>7, <1>8, <1>9, <1>10, <1>11, <1>12, <1>13,
   <1>14, <1>15, <1>16, <1>17, <1>18, <1>19, <1>20, <1>21, <1>22, <1>23, <1>24, <1>25,
   <1>26, <1>27, <1>28, <1>29 DEF Next, Reader, Drain, WriteReturns

\* What has ended stays so.
LEMMA OpenMono == ASSUME TypeInv, [Next]_vars PROVE Open' => Open
<1> USE DEF TypeInv, Open, Up
<1>1. CASE SendFrame
  BY <1>1 DEF SendFrame, senderElse, pump, conn, replenish, ends
<1>2. CASE StallProbe
  BY <1>2, SMTT(30) DEF StallProbe, senderElse, pump, conn, replenish, ends
<1>3. CASE ResumeArrives
  BY <1>3 DEF ResumeArrives, senderElse, pump, conn, replenish, ends, AtMost
<1>4. CASE StoreClient
  BY <1>4 DEF StoreClient, pumpElse, sender, replenish
<1>5. CASE HandleData
  BY <1>5 DEF HandleData, pumpElse, sender, replenish
<1>6. CASE Enqueue
  BY <1>6 DEF Enqueue, pumpElse, sender, replenish
<1>7. CASE ReaderRemoves
  BY <1>7 DEF ReaderRemoves, removeElse, sender, Forgotten, conn, replenish
<1>8. CASE HandleDisconnect
  BY <1>8 DEF HandleDisconnect, removeElse, Forgotten, conn, replenish
<1>9. CASE TakeFrame
  BY <1>9 DEF TakeFrame, drainElse, sender, pump, ends, replenish
<1>10. CASE TimerFires
  BY <1>10 DEF TimerFires, drainElse, sender, pump, ends, replenish
<1>11. CASE ReplenishBacksOff
  BY <1>11 DEF ReplenishBacksOff, drainElse, sender, pump, ends, replenish, BackFrom,
     Replenishing
<1>12. CASE ReplenishSent
  BY <1>12 DEF ReplenishSent, drainElse, sender, pump, ends, replenish, BackFrom, Replenishing
<1>13. CASE ReplenishFails
  BY <1>13 DEF ReplenishFails, drainElse, sender, pump, ends, replenish, BackFrom, Replenishing
<1>14. CASE QuitSeen
  BY <1>14 DEF QuitSeen, LoopLeft, drainElse, sender, pump, ends, replenish
<1>15. CASE flushRemaining
  BY <1>15 DEF flushRemaining, drainElse, sender, pump, ends, replenish
<1>16. CASE GateAllows
  BY <1>16 DEF GateAllows, drainElse, sender, pump, ends, replenish
<1>17. CASE BackoffOver
  BY <1>17 DEF BackoffOver, drainElse, sender, pump, ends, replenish
<1>18. CASE WriteOK
  BY <1>18 DEF WriteOK, drainElse, sender, pump, ends, replenish
<1>19. CASE WriteFails
  BY <1>19 DEF WriteFails, LoopLeft, drainElse, sender, pump, ends, replenish
<1>20. CASE WriteLast
  BY <1>20 DEF WriteLast, drainElse, sender, pump, ends, replenish
<1>21. CASE FlushWrite
  BY <1>21 DEF FlushWrite, drainElse, sender, pump, ends, replenish
<1>22. CASE UserEnds
  BY <1>22 DEF UserEnds, Forgotten, replenish, At
<1>23. CASE SessionRange
  BY <1>23 DEF SessionRange, Forgotten, closeElse, sender, links, replenish, conn, At
<1>24. CASE SessionDelete
  BY <1>24 DEF SessionDelete, closeElse, sender, links, replenish, conn, At
<1>25. ASSUME NEW c \in Closers, Closing(c) PROVE Open' => Open
  <2>1. CASE StopWrites(c)
    BY <2>1 DEF StopWrites, closeElse, sender, links, replenish, conn, At
  <2>2. CASE CloseWrite(c)
    BY <2>2, SMTT(30) DEF CloseWrite, closeElse, sender, links, replenish, conn, At
  <2>3. CASE CloseConn(c)
    BY <2>3 DEF CloseConn, closeElse, sender, links, replenish, conn, At
  <2>4. CASE CloseReturns(c)
    BY <2>4, SMTT(30) DEF CloseReturns, closeElse, sender, links, replenish, conn, At
  <2> QED BY <1>25, <2>1, <2>2, <2>3, <2>4 DEF Closing
<1>26. CASE UNCHANGED vars
  BY <1>26 DEF vars, sender, links, pump, conn, replenish, ends
<1>27. CASE TransitionToClosed
  BY <1>27 DEF TransitionToClosed, senderElse, pump, conn, replenish, ends, links
<1>28. CASE KickstartAndClose
  BY <1>28, SMTT(30) DEF KickstartAndClose, senderElse, pump, conn, replenish, ends, links
<1>29. CASE RacedFrame
  BY <1>29, SMTT(30) DEF RacedFrame, senderElse, pump, conn, replenish, ends, links
<1> QED BY <1>1, <1>2, <1>3, <1>4, <1>5, <1>6, <1>7, <1>8, <1>9, <1>10, <1>11, <1>12, <1>13,
   <1>14, <1>15, <1>16, <1>17, <1>18, <1>19, <1>20, <1>21, <1>22, <1>23, <1>24, <1>25,
   <1>26, <1>27, <1>28, <1>29 DEF Next, Reader, Drain, WriteReturns

-----------------------------------------------------------------------------
(* The window, for every size *)

\* Initially the window is whole.
LEMMA WindowInit == ASSUME W!Init PROVE WindowInv
BY SMTT(30) DEF W!Init, WindowInv, W!TypeOK, W!Bounded, W!Conserved

\* A step that keeps a total and moves no more than it preserves the invariant.
LEMMA WindowStep ==
  ASSUME WindowInv, NEW t \in Nat, W!Keeps(t),
         NEW h \in Nat, NEW a \in Nat, NEW e \in Nat,
         avail' = h, Away' = a, extra' = e,
         h + a <= t, t + extra = avail + Away + e
  PROVE  WindowInv'
<1>1. avail \in Nat /\ Away \in Nat /\ extra \in Nat /\ avail + Away <= Window + extra
  BY DEF WindowInv, W!TypeOK, W!Bounded
<1>2. W!TypeOK'
  BY DEF W!TypeOK, W!Keeps
<1>3. W!Bounded'
  BY <1>1, SMTT(30) DEF W!Bounded
<1>4. ASSUME Open' PROVE h + a = Window + e
  <2>1. Open /\ h + a = t
    BY <1>4 DEF W!Keeps
  <2>2. avail + Away = Window + extra
    BY <2>1 DEF WindowInv, W!Conserved
  <2> QED BY <1>1, <2>1, <2>2, SMTT(30)
<1> QED BY <1>2, <1>3, <1>4 DEF WindowInv, W!Conserved

LEMMA WindowNext == ASSUME WindowInv, [W!Next]_W!vars PROVE WindowInv'
<1>0. avail \in Nat /\ Away \in Nat /\ extra \in Nat
  BY DEF WindowInv, W!TypeOK
<1>1. CASE W!Spend
  <2> PICK a \in {Away, Away + 1} : Away' = a
    BY <1>1 DEF W!Spend
  <2>1. avail - 1 \in Nat /\ a \in Nat /\ avail - 1 + a <= avail + Away
    BY <1>0, <1>1, SMTT(30) DEF W!Spend
  <2> QED BY <1>0, <1>1, <2>1, WindowStep, SMTT(30) DEF W!Spend
<1>2. CASE W!Return
  <2> PICK n \in 1 .. Away : Away' = Away - n /\ avail' \in avail .. avail + n
    BY <1>2 DEF W!Return
  <2> PICK h \in avail .. avail + n : avail' = h
    OBVIOUS
  <2>1. Away - n \in Nat /\ h \in Nat /\ h + (Away - n) <= avail + Away
    BY <1>0, SMTT(30)
  <2> QED BY <1>0, <1>2, <2>1, WindowStep, SMTT(30) DEF W!Return
<1>3. CASE W!Except
  <2>1. PICK e \in Nat : extra' = e /\ e > extra
    BY <1>3 DEF W!Except
  <2> DEFINE n == e - extra
  <2>2. n \in Nat /\ e = extra + n
    BY <1>0, <2>1, SMTT(30)
  <2>3. /\ \/ avail' \in avail .. avail + n /\ Away' = Away
           \/ avail' = avail /\ Away' \in Away .. Away + n
        /\ W!Keeps(avail + Away + n)
    BY <1>3, <2>1 DEF W!Except
  <2> HIDE DEF n
  <2>4. /\ avail' \in Nat /\ Away' \in Nat /\ avail + Away + n \in Nat
        /\ avail' + Away' <= avail + Away + n
        /\ (avail + Away + n) + extra = avail + Away + e
    BY <1>0, <2>2, <2>3, SMTT(30)
  <2> QED BY <2>1, <2>3, <2>4, WindowStep
<1>4. CASE W!Lose
  <2> PICK h \in 0 .. avail, a \in 0 .. Away : avail' = h /\ Away' = a
    BY <1>4 DEF W!Lose
  <2>1. h \in Nat /\ a \in Nat /\ h + a <= avail + Away
    BY <1>0, SMTT(30)
  <2> QED BY <1>0, <1>4, <2>1, WindowStep, SMTT(30) DEF W!Lose
<1>5. CASE UNCHANGED W!vars
  BY <1>5 DEF W!vars, WindowInv, W!TypeOK, W!Bounded, W!Conserved
<1> QED BY <1>1, <1>2, <1>3, <1>4, <1>5 DEF W!Next

-----------------------------------------------------------------------------
(* The refinement *)

LEMMA AwayType == TypeInv => Away \in Nat
BY SMTT(30) DEF TypeInv, Away, One

\* The step forms of CreditWindow, in the variables of this module.
LEMMA AsLose ==
  ASSUME avail \in Nat, Away \in Nat, Open' => Open, Open' \in BOOLEAN,
         NEW h \in 0 .. avail, NEW d \in 0 .. Away,
         avail' = h, Away' = Away - d, extra' = extra, Open' => h = avail /\ d = 0
  PROVE  W!Lose
<1>1. avail' \in 0 .. avail /\ Away' \in 0 .. Away
  BY SMTT(30)
<1>2. ASSUME Open' PROVE Open /\ avail' + Away' = avail + Away
  BY <1>2, SMTT(30)
<1> QED BY <1>1, <1>2 DEF W!Lose, W!Keeps

LEMMA AsSame ==
  ASSUME avail \in Nat, Away \in Nat, Open' => Open, Open' \in BOOLEAN,
         avail' = avail, Away' = Away, extra' = extra
  PROVE  W!Lose
<1>1. 0 \in 0 .. Away /\ Away' = Away - 0 /\ avail \in 0 .. avail
  BY SMTT(30)
<1> QED BY <1>1, AsLose

\* An entry is removed, and with it what the sender held is forgotten.
LEMMA AsForget ==
  ASSUME TypeInv, avail \in Nat, Away \in Nat, Forgotten, reg' = "out",
         UNCHANGED <<wire, writeCh, drain, consumed, extra>>,
         reader' = "enqueue" <=> reader = "enqueue"
  PROVE  W!Lose
<1>1. returning \in 0 .. Away
  BY SMTT(30) DEF TypeInv, Away, One, InHand
<1>2. Away' = Away - returning
  BY SMTT(30) DEF TypeInv, Away, One, InHand, Forgotten
<1>3. ~Open' /\ Open' \in BOOLEAN
  BY DEF Open
<1>4. avail' = 0 /\ 0 \in 0 .. avail /\ extra' = extra
  BY SMTT(30) DEF Forgotten
<1> QED BY <1>1, <1>2, <1>3, <1>4, AsLose

LEMMA AsSpend ==
  ASSUME avail \in Nat, Away \in Nat, Open' => Open, Open' \in BOOLEAN,
         avail > 0, avail' = avail - 1, Away' = Away + 1, extra' = extra
  PROVE  W!Spend
<1>1. avail' + Away' = avail + Away
  BY SMTT(30)
<1> QED BY <1>1 DEF W!Spend, W!Keeps

\* An exception of n, as a self-grant or as frames without a credit.
LEMMA AsExcept ==
  ASSUME avail \in Nat, Away \in Nat, extra \in Nat, Open' => Open, Open' \in BOOLEAN,
         NEW n \in Nat, n > 0, extra' = extra + n,
         \/ avail' \in avail .. avail + n /\ Away' = Away
         \/ avail' = avail /\ Away' \in Away .. Away + n,
         Open' => avail' + Away' = avail + Away + n
  PROVE  W!Except
<1>1. extra' \in Nat /\ extra' > extra /\ extra' - extra = n
  BY SMTT(30)
<1>2. W!Keeps(avail + Away + n)
  BY DEF W!Keeps
<1> QED BY <1>1, <1>2 DEF W!Except

LEMMA AsProbe ==
  ASSUME avail \in Nat, Away \in Nat, extra \in Nat, Open' => Open, Open' \in BOOLEAN,
         avail' = avail + 1, Away' = Away, extra' = extra + 1
  PROVE  W!Except
<1>1. avail' + Away' = avail + Away + 1 /\ avail' \in avail .. avail + 1 /\ 1 \in Nat /\ 1 > 0
  BY SMTT(30)
<1> QED BY <1>1, AsExcept

LEMMA AsRaced ==
  ASSUME avail \in Nat, Away \in Nat, extra \in Nat, Open' => Open, Open' \in BOOLEAN,
         avail' = avail, Away' = Away + 1, extra' = extra + 1
  PROVE  W!Except
<1>1. avail' + Away' = avail + Away + 1 /\ Away' \in Away .. Away + 1 /\ 1 \in Nat /\ 1 > 0
  BY SMTT(30)
<1> QED BY <1>1, AsExcept

\* The clamp cuts the bonus of a teardown only when the connection is not open.
LEMMA AsBonus ==
  ASSUME avail \in Nat, Away \in Nat, extra \in Nat, Open' => Open, Open' \in BOOLEAN,
         avail <= MaxCap, avail + Away <= Window + extra,
         avail' = AtMost(avail + Batch, MaxCap), Away' = Away, extra' = extra + Batch
  PROVE  W!Except
<1>1. avail' \in avail .. avail + Batch /\ Batch \in Nat /\ Batch > 0
  BY SMTT(30) DEF AtMost
<1>2. ASSUME Open' PROVE avail' + Away' = avail + Away + Batch
  <2>1. Window + (extra + Batch) <= MaxCap
    BY <1>2 DEF Open
  <2>2. avail + Batch <= MaxCap
    BY <2>1, SMTT(30)
  <2> QED BY <2>2, SMTT(30) DEF AtMost
<1> QED BY <1>1, <1>2, AsExcept

\* While the connection is open the ledger's clamp cannot bite.
LEMMA AsReturn ==
  ASSUME avail \in Nat, Away \in Nat, Open' => Open, Open' \in BOOLEAN, avail <= MaxCap,
         extra \in Nat, avail + Away <= Window + extra, NEW n \in 1 .. Away,
         Away' = Away - n, avail' = AtMost(avail + n, MaxCap), extra' = extra
  PROVE  W!Return
<1>1. avail' \in avail .. avail + n
  BY SMTT(30) DEF AtMost
<1>2. ASSUME Open' PROVE avail' + Away' = avail + Away
  <2>1. avail + Away <= MaxCap
    BY <1>2, SMTT(30) DEF Open
  <2> QED BY <2>1, SMTT(30) DEF AtMost
<1> QED BY <1>1, <1>2 DEF W!Return, W!Keeps

LEMMA StepRefines == ASSUME Inv, [Next]_vars PROVE [W!Next]_W!vars
<1>0. /\ TypeInv /\ TypeInv' /\ QuitInv /\ (Open' => Open) /\ Open' \in BOOLEAN
      /\ Away \in Nat /\ avail \in Nat /\ avail <= MaxCap /\ extra \in Nat
  BY TypeNext, OpenMono, AwayType DEF Inv, TypeInv, Open
<1>b. avail + Away <= Window + extra
  BY DEF Inv, WindowInv, W!Bounded
<1> USE DEF W!Next
<1>1. CASE SendFrame
  <2>1. Away' = Away + 1 /\ avail' = avail - 1 /\ extra' = extra /\ avail > 0
    BY <1>0, <1>1, SMTT(30) DEF TypeInv, Away, One, InHand, SendFrame, senderElse, pump, conn,
       replenish, ends
  <2> QED BY <1>0, <2>1, AsSpend
<1>2. CASE StallProbe
  <2>1. Away' = Away /\ avail' = avail + 1 /\ extra' = extra + 1
    BY <1>0, <1>2, SMTT(30) DEF TypeInv, Away, One, InHand, StallProbe, senderElse, pump,
       conn, replenish, ends
  <2> QED BY <1>0, <2>1, AsProbe
<1>3. CASE ResumeArrives
  <2> PICK n \in Batch .. returning :
        returning' = returning - n /\ avail' = AtMost(avail + n, MaxCap)
    BY <1>3 DEF ResumeArrives
  <2>1. Away' = Away - n /\ n \in 1 .. Away /\ extra' = extra
    BY <1>0, <1>3, SMTT(30) DEF TypeInv, Away, One, InHand, ResumeArrives, senderElse, pump,
       conn, replenish, ends
  <2> QED BY <1>0, <1>b, <2>1, AsReturn
<1>4. CASE StoreClient
  <2>1. Away' = Away /\ avail' = avail /\ extra' = extra
    BY <1>0, <1>4 DEF TypeInv, Away, One, InHand, StoreClient, pumpElse, sender, replenish
  <2> QED BY <1>0, <2>1, AsSame
<1>5. CASE HandleData
  <2> DEFINE d == IF reg = "out" THEN wire ELSE IF reg = "adding" \/ quit THEN 1 ELSE 0
  <2>1. Away' = Away - d /\ avail' = avail /\ extra' = extra /\ d \in 0 .. Away
    BY <1>0, <1>5, SMTT(30) DEF TypeInv, Away, One, InHand, HandleData, pumpElse, sender,
       replenish
  <2>2. Open' => d = 0
    BY <1>0, <1>5 DEF HandleData, pumpElse, Open
  <2> QED BY <1>0, <2>1, <2>2, AsLose, SMTT(30)
<1>6. CASE Enqueue
  <2>1. CASE reader' = "idle"
    <3>1. Away' = Away /\ avail' = avail /\ extra' = extra
      BY <1>0, <1>6, <2>1, SMTT(30) DEF TypeInv, Away, One, InHand, Enqueue, pumpElse, sender,
         replenish
    <3> QED BY <1>0, <3>1, AsSame
  <2>2. CASE reader' = "remove"
    <3>0. UNCHANGED <<wire, writeCh, drain, consumed, returning, avail, extra>>
      BY <1>6, <2>2 DEF Enqueue, pumpElse, sender, replenish
    <3>1. Away' = Away - 1 /\ 1 \in 0 .. Away
      BY <1>0, <1>6, <2>2, <3>0, SMTT(30) DEF TypeInv, Away, One, InHand, Enqueue
    <3>2. quit \/ full' = TRUE
      BY <1>6, <2>2 DEF Enqueue
    <3>3. ~Open'
      BY <1>6, <3>2 DEF Enqueue, Open
    <3> QED BY <1>0, <3>0, <3>1, <3>3, AsLose, SMTT(30)
  <2> QED BY <1>6, <2>1, <2>2 DEF Enqueue
<1>7. CASE ReaderRemoves
  <2>1. CASE reg = "in"
    <3>1. /\ Forgotten /\ reg' = "out" /\ UNCHANGED <<wire, writeCh, drain, consumed, extra>>
          /\ reader' = "enqueue" <=> reader = "enqueue"
      BY <1>7, <2>1 DEF ReaderRemoves, removeElse, replenish
    <3> QED BY <1>0, <3>1, AsForget
  <2>2. CASE reg # "in"
    <3>1. Away' = Away /\ avail' = avail /\ extra' = extra
      BY <1>0, <1>7, <2>2 DEF TypeInv, Away, One, InHand, ReaderRemoves, removeElse, sender,
         replenish
    <3> QED BY <1>0, <3>1, AsSame
  <2> QED BY <2>1, <2>2
<1>8. CASE HandleDisconnect
  <2>1. /\ Forgotten /\ reg' = "out" /\ UNCHANGED <<wire, writeCh, drain, consumed, extra>>
        /\ reader' = "enqueue" <=> reader = "enqueue"
    BY <1>8 DEF HandleDisconnect, removeElse, replenish
  <2> QED BY <1>0, <2>1, AsForget
<1>9. CASE TakeFrame
  <2>1. Away' = Away /\ avail' = avail /\ extra' = extra
    BY <1>0, <1>9, SMTT(30) DEF TypeInv, Away, One, InHand, TakeFrame, drainElse, sender,
       pump, ends, replenish
  <2> QED BY <1>0, <2>1, AsSame
<1>10. CASE TimerFires
  <2>1. Away' = Away /\ avail' = avail /\ extra' = extra
    BY <1>0, <1>10 DEF TypeInv, Away, One, InHand, TimerFires, drainElse, sender, pump, ends,
       replenish
  <2> QED BY <1>0, <2>1, AsSame
<1>11. CASE ReplenishBacksOff
  <2>1. Away' = Away /\ avail' = avail /\ extra' = extra
    BY <1>0, <1>11 DEF TypeInv, Away, One, InHand, ReplenishBacksOff, drainElse, sender, pump,
       ends, replenish, BackFrom, Replenishing
  <2> QED BY <1>0, <2>1, AsSame
<1>12. CASE ReplenishSent
  <2>1. Away' = Away /\ avail' = avail /\ extra' = extra
    BY <1>0, <1>12, SMTT(30) DEF TypeInv, Away, One, InHand, ReplenishSent, drainElse, sender,
       pump, ends, replenish, BackFrom, Replenishing
  <2> QED BY <1>0, <2>1, AsSame
<1>13. CASE ReplenishFails
  <2>1. Away' = Away /\ avail' = avail /\ extra' = extra
    BY <1>0, <1>13 DEF TypeInv, Away, One, InHand, ReplenishFails, drainElse, sender, pump,
       ends, replenish, BackFrom, Replenishing
  <2> QED BY <1>0, <2>1, AsSame
<1>14. CASE QuitSeen
  <2> DEFINE d == IF drain = "gate" THEN 1 + consumed ELSE consumed
  <2>1. Away' = Away - d /\ avail' = avail /\ extra' = extra /\ d \in 0 .. Away
    BY <1>0, <1>14, SMTT(30) DEF TypeInv, Away, One, InHand, QuitSeen, LoopLeft, drainElse,
         sender,
       pump, ends, replenish
  <2>2. ~Open'
    BY <1>0, <1>14 DEF QuitSeen, LoopLeft, drainElse, sender, pump, ends, replenish, Open,
         QuitInv,
       Ending, Drains
  <2> QED BY <1>0, <2>1, <2>2, AsLose, SMTT(30)
<1>15. CASE flushRemaining
  <2> DEFINE d == IF writeCh > 0 THEN 1 ELSE 0
  <2>1. Away' = Away - d /\ avail' = avail /\ extra' = extra /\ d \in 0 .. Away
    BY <1>0, <1>15, SMTT(30) DEF TypeInv, Away, One, InHand, flushRemaining, drainElse,
       sender, pump, ends, replenish
  <2>2. ~Open'
    BY <1>0, <1>15 DEF flushRemaining, drainElse, sender, pump, ends, replenish, Open,
       QuitInv, Ending, Drains
  <2> QED BY <1>0, <2>1, <2>2, AsLose, SMTT(30)
<1>16. CASE GateAllows
  <2>1. Away' = Away /\ avail' = avail /\ extra' = extra
    BY <1>0, <1>16 DEF TypeInv, Away, One, InHand, GateAllows, drainElse, sender, pump, ends,
       replenish
  <2> QED BY <1>0, <2>1, AsSame
<1>17. CASE BackoffOver
  <2>1. Away' = Away /\ avail' = avail /\ extra' = extra
    BY <1>0, <1>17 DEF TypeInv, Away, One, InHand, BackoffOver, drainElse, sender, pump, ends,
       replenish
  <2> QED BY <1>0, <2>1, AsSame
<1>18. CASE WriteOK
  <2>1. Away' = Away /\ avail' = avail /\ extra' = extra
    BY <1>0, <1>18, SMTT(30) DEF TypeInv, Away, One, InHand, WriteOK, drainElse, sender, pump,
       ends, replenish
  <2> QED BY <1>0, <2>1, AsSame
<1>19. CASE WriteFails
  <2> DEFINE d == 1 + consumed
  <2>1. Away' = Away - d /\ avail' = avail /\ extra' = extra /\ d \in 0 .. Away
    BY <1>0, <1>19, SMTT(30) DEF TypeInv, Away, One, InHand, WriteFails, LoopLeft, drainElse,
         sender,
       pump, ends, replenish
  <2>2. ~Open'
    BY <1>0, <1>19 DEF WriteFails, LoopLeft, drainElse, sender, pump, ends, replenish, Open,
         QuitInv,
       Ending, Drains
  <2> QED BY <1>0, <2>1, <2>2, AsLose, SMTT(30)
<1>20. CASE WriteLast
  <2>1. Away' = Away /\ avail' = avail /\ extra' = extra
    BY <1>0, <1>20 DEF TypeInv, Away, One, InHand, WriteLast, drainElse, sender, pump, ends,
       replenish
  <2> QED BY <1>0, <2>1, AsSame
<1>21. CASE FlushWrite
  <2>1. Away' = Away /\ avail' = avail /\ extra' = extra
    BY <1>0, <1>21 DEF TypeInv, Away, One, InHand, FlushWrite, drainElse, sender, pump, ends,
       replenish
  <2> QED BY <1>0, <2>1, AsSame
<1>22. CASE UserEnds
  <2>1. /\ Forgotten /\ reg' = "out" /\ UNCHANGED <<wire, writeCh, drain, consumed, extra>>
        /\ reader' = "enqueue" <=> reader = "enqueue"
    BY <1>22 DEF UserEnds, replenish
  <2> QED BY <1>0, <2>1, AsForget
<1>23. CASE SessionRange
  <2> DEFINE d == wire + returning
  <2>1. wire' = 0 /\ returning' = 0 /\ UNCHANGED <<reader, writeCh, drain, consumed>>
    BY <1>23 DEF SessionRange, Forgotten, replenish
  <2>3. Away' = Away - d
    BY <1>0, <2>1, SMTT(30) DEF TypeInv, Away, One, InHand
  <2>4. avail' = 0 /\ extra' = extra /\ d \in 0 .. Away /\ 0 \in 0 .. avail
    BY <1>0, <1>23, SMTT(30) DEF TypeInv, Away, One, InHand, SessionRange, Forgotten
  <2>2. ~Open'
    BY <1>0, <1>0, <1>23 DEF SessionRange, At, Open, Up, TypeInv, Closers
  <2> QED BY <1>0, <2>2, <2>3, <2>4, AsLose
<1>24. CASE SessionDelete
  <2>1. Away' = Away /\ avail' = avail /\ extra' = extra
    BY <1>0, <1>24 DEF TypeInv, Away, One, InHand, SessionDelete, closeElse, sender, links,
       replenish, conn, At
  <2> QED BY <1>0, <2>1, AsSame
<1>25. ASSUME NEW c \in Closers, Closing(c) PROVE [W!Next]_W!vars
  <2>1. CASE StopWrites(c)
    <3>1. Away' = Away /\ avail' = avail /\ extra' = extra
      BY <1>0, <2>1 DEF TypeInv, Away, One, InHand, StopWrites, closeElse, sender, links,
         replenish, conn, At
    <3> QED BY <1>0, <3>1, AsSame
  <2>2. CASE CloseWrite(c)
    <3>1. Away' = Away /\ avail' = avail /\ extra' = extra
      BY <1>0, <2>2 DEF TypeInv, Away, One, InHand, CloseWrite, closeElse, sender, links,
         replenish, conn, At
    <3> QED BY <1>0, <3>1, AsSame
  <2>3. CASE CloseConn(c)
    <3>1. Away' = Away /\ avail' = avail /\ extra' = extra
      BY <1>0, <2>3 DEF TypeInv, Away, One, InHand, CloseConn, closeElse, sender, links,
         replenish, conn, At
    <3> QED BY <1>0, <3>1, AsSame
  <2>4. CASE CloseReturns(c)
    <3>1. Away' = Away /\ avail' = avail /\ extra' = extra
      BY <1>0, <2>4 DEF TypeInv, Away, One, InHand, CloseReturns, closeElse, sender, links,
         replenish, conn, At
    <3> QED BY <1>0, <3>1, AsSame
  <2> QED BY <1>25, <2>1, <2>2, <2>3, <2>4 DEF Closing
<1>26. CASE UNCHANGED vars
  BY <1>26 DEF vars, sender, links, pump, conn, replenish, ends, W!vars, Open, Up, Away, InHand
<1>27. CASE TransitionToClosed
  <2>1. Away' = Away /\ avail' = avail /\ extra' = extra
    BY <1>0, <1>27 DEF TypeInv, Away, One, InHand, TransitionToClosed, senderElse, pump, conn,
       links, replenish, ends
  <2> QED BY <1>0, <2>1, AsSame
<1>28. CASE KickstartAndClose
  <2>1. Away' = Away /\ avail' = AtMost(avail + Batch, MaxCap) /\ extra' = extra + Batch
    BY <1>0, <1>28 DEF TypeInv, Away, One, InHand, KickstartAndClose, senderElse, pump, conn,
       links, replenish, ends
  <2> QED BY <1>0, <1>b, <2>1, AsBonus
<1>29. CASE RacedFrame
  <2>1. Away' = Away + 1 /\ avail' = avail /\ extra' = extra + 1
    BY <1>0, <1>29, SMTT(30) DEF TypeInv, Away, One, InHand, RacedFrame, senderElse, pump,
       conn, replenish, ends
  <2> QED BY <1>0, <2>1, AsRaced
<1> QED BY <1>1, <1>2, <1>3, <1>4, <1>5, <1>6, <1>7, <1>8, <1>9, <1>10, <1>11, <1>12, <1>13,
   <1>14, <1>15, <1>16, <1>17, <1>18, <1>19, <1>20, <1>21, <1>22, <1>23, <1>24, <1>25,
   <1>26, <1>27, <1>28, <1>29 DEF Next, Reader, Drain, WriteReturns

LEMMA InvInit == Init => Inv /\ W!Init
<1> SUFFICES ASSUME Init PROVE Inv /\ W!Init
  OBVIOUS
<1>1. avail = Window /\ Away = 0 /\ extra = 0 /\ Window \in Nat
  BY SMTT(30) DEF Init, Away, One, InHand
<1>2. W!Init
  BY <1>1, SMTT(30) DEF W!Init, Open
<1>3. WindowInv
  BY <1>2, WindowInit
<1> QED BY <1>2, <1>3, TypeInit DEF Inv

\* The window bounds the credits here because it does so in CreditWindow.
LEMMA InvNext == ASSUME Inv, [Next]_vars PROVE Inv'
<1>1. TypeInv' /\ QuitInv'
  BY TypeNext, QuitNext DEF Inv
<1>2. WindowInv'
  BY StepRefines, WindowNext DEF Inv
<1> QED BY <1>1, <1>2 DEF Inv

LEMMA Invariance == Spec => []Inv
<1>1. Init => Inv
  BY InvInit
<1>2. Inv /\ [Next]_vars => Inv'
  BY InvNext
<1> QED BY <1>1, <1>2, PTL DEF Spec

\* Every step of the hub and the sender is a step of the credit window or
\* leaves it alone, whatever the window, the batch, the ledger's capacity and
\* the number of stall probes, and wherever the sender's teardown begins.
THEOREM Refinement == Spec => ImplementsWindow
<1>1. Init => W!Init
  BY InvInit
<1>2. Inv /\ [Next]_vars => [W!Next]_W!vars
  BY StepRefines
<1> QED BY <1>1, <1>2, Invariance, PTL DEF Spec, ImplementsWindow, W!Spec

\* So the credits of the direction never multiply, and none is lost while it is
\* open: what the sender holds, what is under way and what drain has counted
\* add up to the window and the exceptions.
THEOREM WindowKept == Spec => [](W!Bounded /\ W!Conserved)
<1>1. Inv => W!Bounded /\ W!Conserved
  BY DEF Inv, WindowInv
<1> QED BY <1>1, Invariance, PTL

LEMMA DropNext == ASSUME Inv, DropsOnlyInflated, [Next]_vars PROVE DropsOnlyInflated'
<1> USE DEF DropsOnlyInflated
<1>1. CASE SendFrame
  BY <1>1 DEF SendFrame, senderElse, pump, conn, replenish, ends
<1>2. CASE StallProbe
  BY <1>2, SMTT(30) DEF StallProbe, senderElse, pump, Inv, TypeInv
<1>3. CASE ResumeArrives
  BY <1>3 DEF ResumeArrives, senderElse, pump, conn, replenish, ends
<1>4. CASE StoreClient
  BY <1>4 DEF StoreClient, pumpElse, sender, replenish
<1>5. CASE HandleData
  BY <1>5 DEF HandleData, pumpElse, sender, replenish
<1>6. CASE Enqueue
  <2>1. CASE full' = full
    BY <1>6, <2>1 DEF Enqueue, pumpElse, sender
  <2>2. CASE full' # full
    <3>1. writeCh = 2 * Window /\ reader = "enqueue"
      BY <1>6, <2>2 DEF Enqueue, clientWriteBufferSize
    <3>2. Away >= 2 * Window + 1
      BY <3>1, SMTT(30) DEF Inv, TypeInv, Away, One, InHand
    <3>3. avail + Away <= Window + extra /\ avail \in Nat /\ Away \in Nat /\ extra \in Nat
      BY AwayType DEF Inv, TypeInv, WindowInv, W!Bounded
    <3>4. extra > Window /\ extra' = extra
      BY <1>6, <3>2, <3>3, SMTT(30) DEF Enqueue, pumpElse, sender
    <3> QED BY <3>4
  <2> QED BY <2>1, <2>2
<1>7. CASE ReaderRemoves
  BY <1>7 DEF ReaderRemoves, removeElse, sender, Forgotten, conn, replenish
<1>8. CASE HandleDisconnect
  BY <1>8 DEF HandleDisconnect, removeElse, Forgotten, conn, replenish
<1>9. CASE TakeFrame
  BY <1>9 DEF TakeFrame, drainElse, sender, pump, ends, replenish
<1>10. CASE TimerFires
  BY <1>10 DEF TimerFires, drainElse, sender, pump, ends, replenish
<1>11. CASE ReplenishBacksOff
  BY <1>11 DEF ReplenishBacksOff, drainElse, sender, pump, ends, replenish, BackFrom,
     Replenishing
<1>12. CASE ReplenishSent
  BY <1>12 DEF ReplenishSent, drainElse, sender, pump, ends, replenish, BackFrom, Replenishing
<1>13. CASE ReplenishFails
  BY <1>13 DEF ReplenishFails, drainElse, sender, pump, ends, replenish, BackFrom, Replenishing
<1>14. CASE QuitSeen
  BY <1>14 DEF QuitSeen, LoopLeft, drainElse, sender, pump, ends, replenish
<1>15. CASE flushRemaining
  BY <1>15 DEF flushRemaining, drainElse, sender, pump, ends, replenish
<1>16. CASE GateAllows
  BY <1>16 DEF GateAllows, drainElse, sender, pump, ends, replenish
<1>17. CASE BackoffOver
  BY <1>17 DEF BackoffOver, drainElse, sender, pump, ends, replenish
<1>18. CASE WriteOK
  BY <1>18 DEF WriteOK, drainElse, sender, pump, ends, replenish
<1>19. CASE WriteFails
  BY <1>19 DEF WriteFails, LoopLeft, drainElse, sender, pump, ends, replenish
<1>20. CASE WriteLast
  BY <1>20 DEF WriteLast, drainElse, sender, pump, ends, replenish
<1>21. CASE FlushWrite
  BY <1>21 DEF FlushWrite, drainElse, sender, pump, ends, replenish
<1>22. CASE UserEnds
  BY <1>22 DEF UserEnds, Forgotten, replenish, At, pump
<1>23. CASE SessionRange
  BY <1>23 DEF SessionRange, Forgotten, closeElse, sender, links, replenish, conn, At, pump
<1>24. CASE SessionDelete
  BY <1>24 DEF SessionDelete, closeElse, sender, links, replenish, conn, At, pump
<1>25. ASSUME NEW c \in Closers, Closing(c) PROVE DropsOnlyInflated'
  <2>1. CASE StopWrites(c)
    BY <2>1 DEF StopWrites, closeElse, sender, links, replenish, conn, At, pump
  <2>2. CASE CloseWrite(c)
    BY <2>2 DEF CloseWrite, closeElse, sender, links, replenish, conn, At, pump
  <2>3. CASE CloseConn(c)
    BY <2>3 DEF CloseConn, closeElse, sender, links, replenish, conn, At, pump
  <2>4. CASE CloseReturns(c)
    BY <2>4 DEF CloseReturns, closeElse, sender, links, replenish, conn, At, pump
  <2> QED BY <1>25, <2>1, <2>2, <2>3, <2>4 DEF Closing
<1>26. CASE UNCHANGED vars
  BY <1>26 DEF vars, sender, links, pump, conn, replenish, ends
<1>27. CASE TransitionToClosed
  BY <1>27 DEF TransitionToClosed, senderElse, pump, conn, replenish, ends, links, Inv, TypeInv
<1>28. CASE KickstartAndClose
  BY <1>28, SMTT(30) DEF KickstartAndClose, senderElse, pump, conn, replenish, ends, links,
       Inv, TypeInv
<1>29. CASE RacedFrame
  BY <1>29, SMTT(30) DEF RacedFrame, senderElse, pump, conn, replenish, ends, links, Inv,
       TypeInv
<1> QED BY <1>1, <1>2, <1>3, <1>4, <1>5, <1>6, <1>7, <1>8, <1>9, <1>10, <1>11, <1>12, <1>13,
   <1>14, <1>15, <1>16, <1>17, <1>18, <1>19, <1>20, <1>21, <1>22, <1>23, <1>24, <1>25,
   <1>26, <1>27, <1>28, <1>29 DEF Next, Reader, Drain, WriteReturns

\* For every window: Write refuses a frame of a sender that obeys its ledger
\* only after the stall probe, the bonus batch of its teardown and the one raced
\* frame have together added more than a whole window.
THEOREM HonestSendersFit == Spec => []DropsOnlyInflated
<1>1. Init => DropsOnlyInflated
  BY DEF Init, DropsOnlyInflated
<1>2. Inv /\ DropsOnlyInflated /\ [Next]_vars => DropsOnlyInflated'
  BY DropNext
<1> QED BY <1>1, <1>2, Invariance, PTL DEF Spec

-----------------------------------------------------------------------------
(* Flush before FIN: after an EventDisconnect nothing is enqueued, and as   *)
(* long as no write has failed drain ends with an empty channel.            *)

FlushInv ==
  /\ quit => failed \/ reg = "out"
  /\ \A c \in Closers : closer[c] \notin {"off", "delete"} => reg = "out"
  /\ closer["disconnect"] # "delete"
  /\ closer["disconnect"] # "off" => reader # "enqueue"
  /\ closer["disconnect"] # "off" /\ drain = "done" => writeCh = 0 \/ failed
  /\ closer["disconnect"] = "grace" /\ ~late => drain = "done"

LEMMA FlushInit == Init => FlushInv
BY DEF Init, FlushInv, Closers

LEMMA FlushNext == ASSUME TypeInv, QuitInv, FlushInv, [Next]_vars PROVE FlushInv'
<1> USE DEF TypeInv, FlushInv, Closers
<1>1. CASE SendFrame
  BY <1>1 DEF SendFrame, senderElse, pump, conn, replenish, ends
<1>2. CASE StallProbe
  BY <1>2 DEF StallProbe, senderElse, pump, conn, replenish, ends
<1>3. CASE ResumeArrives
  BY <1>3 DEF ResumeArrives, senderElse, pump, conn, replenish, ends
<1>4. CASE StoreClient
  BY <1>4 DEF StoreClient, pumpElse, sender, replenish
<1>5. CASE HandleData
  BY <1>5 DEF HandleData, pumpElse, sender, replenish
<1>6. CASE Enqueue
  BY <1>6 DEF Enqueue, pumpElse, sender, replenish
<1>7. CASE ReaderRemoves
  BY <1>7 DEF ReaderRemoves, removeElse, sender, Forgotten, conn, replenish
<1>8. CASE HandleDisconnect
  BY <1>8 DEF HandleDisconnect, removeElse, Forgotten, conn, replenish, QuitInv, Ending
<1>9. CASE TakeFrame
  BY <1>9 DEF TakeFrame, drainElse, sender, pump, ends, replenish
<1>10. CASE TimerFires
  BY <1>10 DEF TimerFires, drainElse, sender, pump, ends, replenish
<1>11. CASE ReplenishBacksOff
  BY <1>11 DEF ReplenishBacksOff, drainElse, sender, pump, ends, replenish, BackFrom,
     Replenishing
<1>12. CASE ReplenishSent
  BY <1>12 DEF ReplenishSent, drainElse, sender, pump, ends, replenish, BackFrom, Replenishing
<1>13. CASE ReplenishFails
  BY <1>13 DEF ReplenishFails, drainElse, sender, pump, ends, replenish, BackFrom, Replenishing
<1>14. CASE QuitSeen
  BY <1>14 DEF QuitSeen, LoopLeft, drainElse, sender, pump, ends, replenish
<1>15. CASE flushRemaining
  BY <1>15 DEF flushRemaining, drainElse, sender, pump, ends, replenish
<1>16. CASE GateAllows
  BY <1>16 DEF GateAllows, drainElse, sender, pump, ends, replenish
<1>17. CASE BackoffOver
  BY <1>17 DEF BackoffOver, drainElse, sender, pump, ends, replenish
<1>18. CASE WriteOK
  BY <1>18 DEF WriteOK, drainElse, sender, pump, ends, replenish
<1>19. CASE WriteFails
  BY <1>19 DEF WriteFails, LoopLeft, drainElse, sender, pump, ends, replenish
<1>20. CASE WriteLast
  BY <1>20 DEF WriteLast, drainElse, sender, pump, ends, replenish
<1>21. CASE FlushWrite
  BY <1>21 DEF FlushWrite, drainElse, sender, pump, ends, replenish
<1>22. CASE UserEnds
  BY <1>22 DEF UserEnds, Forgotten, replenish, At, pump
<1>23. CASE SessionRange
  BY <1>23 DEF SessionRange, Forgotten, closeElse, sender, links, replenish, conn, At, pump
<1>24. CASE SessionDelete
  BY <1>24 DEF SessionDelete, closeElse, sender, links, replenish, conn, At, pump
<1>25. ASSUME NEW c \in Closers, Closing(c) PROVE FlushInv'
  <2>1. CASE StopWrites(c)
    BY <2>1 DEF StopWrites, closeElse, sender, links, replenish, conn, At, pump
  <2>2. CASE CloseWrite(c)
    BY <2>2 DEF CloseWrite, closeElse, sender, links, replenish, conn, At, pump
  <2>3. CASE CloseConn(c)
    BY <2>3 DEF CloseConn, closeElse, sender, links, replenish, conn, At, pump
  <2>4. CASE CloseReturns(c)
    BY <2>4 DEF CloseReturns, closeElse, sender, links, replenish, conn, At, pump
  <2> QED BY <1>25, <2>1, <2>2, <2>3, <2>4 DEF Closing
<1>26. CASE UNCHANGED vars
  BY <1>26 DEF vars, sender, links, pump, conn, replenish, ends
<1>27. CASE TransitionToClosed
  BY <1>27 DEF TransitionToClosed, senderElse, pump, conn, replenish, ends, links
<1>28. CASE KickstartAndClose
  BY <1>28 DEF KickstartAndClose, senderElse, pump, conn, replenish, ends, links
<1>29. CASE RacedFrame
  BY <1>29 DEF RacedFrame, senderElse, pump, conn, replenish, ends, links
<1> QED BY <1>1, <1>2, <1>3, <1>4, <1>5, <1>6, <1>7, <1>8, <1>9, <1>10, <1>11, <1>12, <1>13,
   <1>14, <1>15, <1>16, <1>17, <1>18, <1>19, <1>20, <1>21, <1>22, <1>23, <1>24, <1>25,
   <1>26, <1>27, <1>28, <1>29 DEF Next, Reader, Drain, WriteReturns

\* For every window and channel size: what was buffered when the disconnect
\* arrived is written before the half-close, unless a write fails or the wait
\* for drain times out.
THEOREM FlushHolds == Spec => []FlushedBeforeFin
<1>1. FlushInv => FlushedBeforeFin
  BY DEF FlushInv, FlushedBeforeFin
<1>2. TypeInv /\ QuitInv /\ FlushInv /\ [Next]_vars => FlushInv'
  BY FlushNext
<1>3. Inv => TypeInv /\ QuitInv
  BY DEF Inv
<1> QED BY <1>1, <1>2, <1>3, FlushInit, Invariance, PTL DEF Spec
=============================================================================
