------------------------- MODULE CreditLedgerProofs -------------------------
(***************************************************************************)
(* Proofs about the reverse-credit ledger, for every capacity, batch,      *)
(* quantum, queue size and grant.  TypeInv is inductive on its own; the    *)
(* other invariants are proved on top of it, one at a time, so that each   *)
(* step of a proof sees only the state it is about.                        *)
(***************************************************************************)
EXTENDS CreditLedger, TLAPS

\* A leaf that names no prover is Zenon's.
USE ZenonT(30)

-----------------------------------------------------------------------------
(* Type correctness *)

\* A drain turn that may still send has not used up its quantum.
QuotaLeft == drain \in {"acquire", "pull", "write"} => quota < Quantum

TypeInv == TypeOK /\ QuotaLeft

LEMMA ClampTypes ==
  /\ \A n \in Nat : clampReverseCredits(n) \in 0 .. MaxCap
  /\ \A n \in Nat \ {0} : clampReverseCredits(n) > 0
  /\ \A c \in MinInt64 .. MaxInt64, n \in 0 .. MaxCap :
       AddClamped(c, n) \in MinInt64 .. MaxInt64
  /\ \A c \in MinInt64 .. MaxInt64 : AddOne(c) \in MinInt64 .. MaxInt64
  BY LedgerConstants, SMTT(30) DEF clampReverseCredits, AddClamped, AddOne, MaxInt64, MinInt64

LEMMA InitTyped == Init => TypeInv
  <1> SUFFICES ASSUME Init PROVE TypeInv
    OBVIOUS
  <1>1. PICK n \in InitialGrants :
          /\ unlimited = (~awaitInit /\ n = 0)
          /\ available = CASE awaitInit -> 0
                           [] unlimited -> MaxInt64
                           [] OTHER     -> clampReverseCredits(n)
    BY DEF Init
  <1>2. n \in Nat
    BY LedgerConstants
  <1>3. available \in MinInt64 .. MaxInt64
    BY <1>1, <1>2, LedgerConstants, SMTT(30) DEF Init, clampReverseCredits, MaxInt64, MinInt64
  <1>4. granted \in Nat
    BY <1>1, <1>2, LedgerConstants DEF Init, clampReverseCredits
  <1>5. FlagTypes
    BY <1>1 DEF Init, FlagTypes
  <1>6. DataTypes /\ QuotaLeft
    BY <1>3, <1>4, LedgerConstants, SMTT(30) DEF Init, DataTypes, QuotaLeft, DrainPCs, PreYield
  <1>. QED  BY <1>5, <1>6 DEF TypeInv, TypeOK

LEMMA StepFlags == FlagTypes /\ [Next]_vars => FlagTypes'
  <1> SUFFICES ASSUME FlagTypes, [Next]_vars PROVE FlagTypes'
    OBVIOUS
  <1> USE DEF FlagTypes, ledgerVars, probeVars, connVars, sendHistory
  <1>1. CASE Activate
    BY <1>1 DEF Activate
  <1>2. CASE Producer
    <2> USE DEF prodFrame
    <2>1. CASE ReadLocal
      BY <2>1 DEF ReadLocal
    <2>2. CASE PushFrame
      BY <2>2 DEF PushFrame
    <2>3. CASE EnqueueFails
      BY <2>3 DEF EnqueueFails
    <2>4. CASE NotifyLoad
      BY <2>4 DEF NotifyLoad
    <2>5. CASE NotifySignal
      BY <2>5 DEF NotifySignal, Signal
    <2>6. CASE NotifyArm
      BY <2>6 DEF NotifyArm, armStallProbe, CanArm
    <2>. QED  BY <1>2, <2>1, <2>2, <2>3, <2>4, <2>5, <2>6 DEF Producer
  <1>3. CASE Drainer
    <2> USE DEF drainFrame
    <2>1. CASE ReceiveReady
      BY <2>1 DEF ReceiveReady
    <2>2. CASE TryAcquire
      BY <2>2 DEF TryAcquire
    <2>3. CASE PullFrame
      BY <2>3 DEF PullFrame
    <2>4. CASE WriteFrame
      BY <2>4 DEF WriteFrame
    <2>5. CASE WriteError
      BY <2>5 DEF WriteError
    <2>6. CASE YieldClear
      BY <2>6 DEF YieldClear
    <2>7. CASE YieldMore
      BY <2>7 DEF YieldMore
    <2>8. CASE YieldLoad
      BY <2>8 DEF YieldLoad
    <2>9. CASE YieldSignal
      BY <2>9 DEF YieldSignal, Signal
    <2>10. CASE YieldArm
      BY <2>10 DEF YieldArm, armStallProbe, CanArm
    <2>11. CASE DeferCheck
      BY <2>11 DEF DeferCheck
    <2>12. CASE DeferSelect
      BY <2>12 DEF DeferSelect
    <2>13. CASE DeferRaced
      BY <2>13 DEF DeferRaced
    <2>. QED  BY <1>3, <2>1, <2>2, <2>3, <2>4, <2>5, <2>6, <2>7, <2>8, <2>9, <2>10, <2>11, <2>12, <2>13 DEF Drainer
  <1>4. CASE Reader
    <2> USE DEF readerFrame
    <2>1. CASE ResumeStream
      BY <2>1 DEF ResumeStream
    <2>2. CASE ReplenishClear
      BY <2>2 DEF ReplenishClear, clearStallCycle
    <2>3. CASE ReplenishAdd
      BY <2>3 DEF ReplenishAdd
    <2>4. CASE OutboundResult
      BY <2>4 DEF OutboundResult, clearStallCycle
    <2>5. CASE InitInstall
      BY <2>5 DEF InitInstall
    <2>6. CASE ReaderSignal
      BY <2>6 DEF ReaderSignal, Signal
    <2>7. CASE OutboundResultLate
      BY <2>7 DEF OutboundResultLate
    <2>. QED  BY <1>4, <2>1, <2>2, <2>3, <2>4, <2>5, <2>6, <2>7 DEF Reader
  <1>5. CASE Closer
    <2> USE DEF closerFrame
    <2>1. CASE BeginTeardown
      BY <2>1 DEF BeginTeardown
    <2>2. CASE CloseCAS
      BY <2>2 DEF CloseCAS
    <2>3. CASE CloseClear
      BY <2>3 DEF CloseClear, clearStallCycle
    <2>4. CASE KickstartAdd
      BY <2>4 DEF KickstartAdd
    <2>5. CASE KickstartSignal
      BY <2>5 DEF KickstartSignal, Signal
    <2>6. CASE DrainDone
      BY <2>6 DEF DrainDone
    <2>7. CASE DrainAbandoned
      BY <2>7 DEF DrainAbandoned
    <2>8. CASE Finalize
      BY <2>8 DEF Finalize
    <2>. QED  BY <1>5, <2>1, <2>2, <2>3, <2>4, <2>5, <2>6, <2>7, <2>8 DEF Closer
  <1>6. CASE Probe
    <2> USE DEF probeFrame
    <2>1. CASE TimerExpires
      BY <2>1 DEF TimerExpires
    <2>2. ASSUME NEW gen \in firing, ProbeCheck(gen) PROVE FlagTypes'
      BY <2>2 DEF ProbeCheck
    <2>3. CASE ProbeGrant
      BY <2>3 DEF ProbeGrant, Signal
    <2>. QED  BY <1>6, <2>1, <2>2, <2>3 DEF Probe
  <1>7. CASE Finished
    BY <1>7 DEF Finished, vars
  <1>8. CASE UNCHANGED vars
    BY <1>8 DEF vars
  <1>. QED  BY <1>1, <1>2, <1>3, <1>4, <1>5, <1>6, <1>7, <1>8 DEF Next

DataInv == DataTypes /\ QuotaLeft

LEMMA StepTyped == TypeInv /\ [Next]_vars => TypeInv'
  <1> SUFFICES ASSUME TypeInv, [Next]_vars PROVE DataInv'
    BY StepFlags DEF TypeInv, TypeOK, DataInv
  <1> USE LedgerConstants, ClampTypes DEF TypeInv, TypeOK, DataInv, DataTypes, QuotaLeft,
          DrainPCs, PreYield
  <1>1. CASE Activate
    BY <1>1, SMTT(30) DEF Activate, ledgerVars, probeVars, boundVars, creditHistory, sendHistory
  <1>2. CASE Producer
    BY <1>2, SMTT(30) DEF Producer, ReadLocal, PushFrame, EnqueueFails, NotifyLoad,
       NotifySignal,
       NotifyArm, prodFrame, Signal, armStallProbe, CanArm, probeVars, connVars,
       creditHistory, sendHistory
  <1>3. CASE Drainer
    <2> USE DEF drainFrame, probeVars, sendHistory, creditHistory, boundVars
    <2>1. CASE ReceiveReady
      BY <2>1, SMTT(30) DEF ReceiveReady
    <2>2. CASE TryAcquire
      BY <2>2, SMTT(30) DEF TryAcquire, Acquire, Spendable, MaxInt64, MinInt64
    <2>3. CASE PullFrame
      BY <2>3, SMTT(30) DEF PullFrame, Release, MaxInt64, MinInt64
    <2>4. CASE WriteFrame
      BY <2>4, SMTT(30) DEF WriteFrame
    <2>5. CASE WriteError
      BY <2>5, SMTT(30) DEF WriteError, Release, MaxInt64, MinInt64
    <2>6. CASE YieldClear
      BY <2>6, SMTT(30) DEF YieldClear
    <2>7. CASE YieldMore
      BY <2>7, SMTT(30) DEF YieldMore
    <2>8. CASE YieldLoad
      BY <2>8, SMTT(30) DEF YieldLoad
    <2>9. CASE YieldSignal
      BY <2>9, SMTT(30) DEF YieldSignal, Signal
    <2>10. CASE YieldArm
      BY <2>10, SMTT(30) DEF YieldArm, armStallProbe, CanArm
    <2>11. CASE DeferCheck
      BY <2>11, SMTT(30) DEF DeferCheck
    <2>12. CASE DeferSelect
      BY <2>12, SMTT(30) DEF DeferSelect
    <2>13. CASE DeferRaced
      BY <2>13, SMTT(30) DEF DeferRaced
    <2>. QED  BY <1>3, <2>1, <2>2, <2>3, <2>4, <2>5, <2>6, <2>7, <2>8, <2>9, <2>10,
                 <2>11, <2>12, <2>13 DEF Drainer
  <1>4. CASE Reader
    <2> USE DEF readerFrame, probeVars, connVars, sendHistory
    <2>1. CASE ResumeStream
      BY <2>1, SMTT(30) DEF ResumeStream
    <2>2. CASE ReplenishClear
      BY <2>2, SMTT(30) DEF ReplenishClear, clearStallCycle
    <2>3. CASE ReplenishAdd
      BY <2>3, SMTT(30) DEF ReplenishAdd
    <2>4. CASE OutboundResult
      BY <2>4, SMTT(30) DEF OutboundResult, clearStallCycle
    <2>5. CASE InitInstall
      BY <2>5, SMTT(30) DEF InitInstall, MaxInt64, MinInt64
    <2>6. CASE ReaderSignal
      BY <2>6, SMTT(30) DEF ReaderSignal, Signal
    <2>7. CASE OutboundResultLate
      BY <2>7, SMTT(30) DEF OutboundResultLate
    <2>. QED  BY <1>4, <2>1, <2>2, <2>3, <2>4, <2>5, <2>6, <2>7 DEF Reader
  <1>5. CASE Closer
    <2> USE DEF closerFrame, probeVars, connVars, boundVars, sendHistory
    <2>1. CASE BeginTeardown
      BY <2>1, SMTT(30) DEF BeginTeardown
    <2>2. CASE CloseCAS
      BY <2>2, SMTT(30) DEF CloseCAS
    <2>3. CASE CloseClear
      BY <2>3, SMTT(30) DEF CloseClear, clearStallCycle
    <2>4. CASE KickstartAdd
      <3>1. available' \in MinInt64 .. MaxInt64
        BY <2>4, SMTT(30) DEF KickstartAdd, AddClamped, MaxInt64, MinInt64
      <3>. QED  BY <2>4, <3>1, SMTT(30) DEF KickstartAdd
    <2>5. CASE KickstartSignal
      BY <2>5, SMTT(30) DEF KickstartSignal, Signal
    <2>6. CASE DrainDone
      BY <2>6, SMTT(30) DEF DrainDone
    <2>7. CASE DrainAbandoned
      BY <2>7, SMTT(30) DEF DrainAbandoned
    <2>8. CASE Finalize
      BY <2>8, SMTT(30) DEF Finalize
    <2>. QED  BY <1>5, <2>1, <2>2, <2>3, <2>4, <2>5, <2>6, <2>7, <2>8 DEF Closer
  <1>6. CASE Probe
    <2> USE DEF probeFrame, connVars, boundVars, sendHistory
    <2>1. CASE TimerExpires
      BY <2>1, SMTT(30) DEF TimerExpires
    <2>2. ASSUME NEW gen \in firing, ProbeCheck(gen) PROVE DataInv'
      BY <2>2, SMTT(30) DEF ProbeCheck
    <2>3. CASE ProbeGrant
      BY <2>3, SMTT(30) DEF ProbeGrant, Signal
    <2>. QED  BY <1>6, <2>1, <2>2, <2>3 DEF Probe
  <1>7. CASE UNCHANGED vars
    BY <1>7, SMTT(30) DEF vars, ledgerVars, probeVars, connVars, boundVars, creditHistory,
       sendHistory
  <1>. QED  BY <1>1, <1>2, <1>3, <1>4, <1>5, <1>6, <1>7 DEF Next, Finished

\* The ledger, the queue and every control point keep their types, whatever
\* the interleaving of the goroutines of client.go and credit_ledger.go.
THEOREM TypeCorrect == Spec => []TypeOK
  <1>1. Spec => []TypeInv
    BY InitTyped, StepTyped, PTL DEF Spec
  <1>2. TypeInv => TypeOK
    BY DEF TypeInv
  <1>. QED  BY <1>1, <1>2, PTL

-----------------------------------------------------------------------------
(* Wakeups.  OneWakeup is inductive with the types; NoMissedWakeup needs   *)
(* it, to know that a turn before DrainYielded has signaled set, and needs *)
(* that a finalized connection has no frames.                              *)

GoneIsEmpty == removed => queued = 0

WakeInv == OneWakeup /\ GoneIsEmpty /\ NoMissedWakeup

LEMMA StepWake == TypeInv /\ WakeInv /\ [Next]_vars => WakeInv'
  <1> SUFFICES ASSUME TypeInv, WakeInv, [Next]_vars PROVE WakeInv'
    OBVIOUS
  <1> USE LedgerConstants DEF TypeInv, TypeOK, FlagTypes, DataTypes, DrainPCs, WakeInv, OneWakeup,
          GoneIsEmpty, NoMissedWakeup, PreYield, Spendable,
          ledgerVars, probeVars, connVars, boundVars, creditHistory, sendHistory
  <1>1. CASE Activate
    BY <1>1 DEF Activate
  <1>2. CASE Producer
    <2> USE DEF prodFrame
    <2>1. CASE ReadLocal
      BY <2>1 DEF ReadLocal
    <2>2. CASE PushFrame
      BY <2>2 DEF PushFrame
    <2>3. CASE EnqueueFails
      BY <2>3 DEF EnqueueFails
    <2>4. CASE NotifyLoad
      BY <2>4, SMTT(30) DEF NotifyLoad
    <2>5. CASE NotifySignal
      BY <2>5, SMTT(30) DEF NotifySignal, Signal
    <2>6. CASE NotifyArm
      BY <2>6 DEF NotifyArm, armStallProbe, CanArm
    <2>. QED  BY <1>2, <2>1, <2>2, <2>3, <2>4, <2>5, <2>6 DEF Producer
  <1>3. CASE Drainer
    <2> USE DEF drainFrame
    <2>1. CASE ReceiveReady
      BY <2>1, SMTT(30) DEF ReceiveReady
    <2>2. CASE TryAcquire
      BY <2>2 DEF TryAcquire, Acquire
    <2>3. CASE PullFrame
      BY <2>3, SMTT(30) DEF PullFrame, Release
    <2>4. CASE WriteFrame
      BY <2>4 DEF WriteFrame
    <2>5. CASE WriteError
      BY <2>5, SMTT(30) DEF WriteError, Release
    <2>6. CASE YieldClear
      BY <2>6, SMTT(30) DEF YieldClear
    <2>7. CASE YieldMore
      BY <2>7 DEF YieldMore
    <2>8. CASE YieldLoad
      BY <2>8 DEF YieldLoad
    <2>9. CASE YieldSignal
      BY <2>9, SMTT(30) DEF YieldSignal, Signal
    <2>10. CASE YieldArm
      BY <2>10 DEF YieldArm, armStallProbe, CanArm
    <2>11. CASE DeferCheck
      BY <2>11 DEF DeferCheck
    <2>12. CASE DeferSelect
      BY <2>12, SMTT(30) DEF DeferSelect
    <2>13. CASE DeferRaced
      BY <2>13 DEF DeferRaced
    <2>. QED  BY <1>3, <2>1, <2>2, <2>3, <2>4, <2>5, <2>6, <2>7, <2>8, <2>9, <2>10,
                 <2>11, <2>12, <2>13 DEF Drainer
  <1>4. CASE Reader
    <2> USE DEF readerFrame
    <2>1. CASE ResumeStream
      BY <2>1 DEF ResumeStream
    <2>2. CASE ReplenishClear
      BY <2>2 DEF ReplenishClear, clearStallCycle
    <2>3. CASE ReplenishAdd
      BY <2>3 DEF ReplenishAdd
    <2>4. CASE OutboundResult
      BY <2>4 DEF OutboundResult, clearStallCycle
    <2>5. CASE OutboundResultLate
      BY <2>5 DEF OutboundResultLate
    <2>6. CASE InitInstall
      BY <2>6 DEF InitInstall
    <2>7. CASE ReaderSignal
      BY <2>7, SMTT(30) DEF ReaderSignal, Signal
    <2>. QED  BY <1>4, <2>1, <2>2, <2>3, <2>4, <2>5, <2>6, <2>7 DEF Reader
  <1>5. CASE Closer
    <2> USE DEF closerFrame
    <2>1. CASE BeginTeardown
      BY <2>1 DEF BeginTeardown
    <2>2. CASE CloseCAS
      BY <2>2 DEF CloseCAS
    <2>3. CASE CloseClear
      BY <2>3 DEF CloseClear, clearStallCycle
    <2>4. CASE KickstartAdd
      BY <2>4 DEF KickstartAdd
    <2>5. CASE KickstartSignal
      BY <2>5, SMTT(30) DEF KickstartSignal, Signal
    <2>6. CASE DrainDone
      BY <2>6 DEF DrainDone
    <2>7. CASE DrainAbandoned
      BY <2>7 DEF DrainAbandoned
    <2>8. CASE Finalize
      BY <2>8, SMTT(30) DEF Finalize
    <2>. QED  BY <1>5, <2>1, <2>2, <2>3, <2>4, <2>5, <2>6, <2>7, <2>8 DEF Closer
  <1>6. CASE Probe
    <2> USE DEF probeFrame
    <2>1. CASE TimerExpires
      BY <2>1 DEF TimerExpires
    <2>2. ASSUME NEW gen \in firing, ProbeCheck(gen) PROVE WakeInv'
      BY <2>2 DEF ProbeCheck
    <2>3. CASE ProbeGrant
      BY <2>3, SMTT(30) DEF ProbeGrant, Signal
    <2>. QED  BY <1>6, <2>1, <2>2, <2>3 DEF Probe
  <1>7. CASE UNCHANGED vars
    BY <1>7 DEF vars
  <1>. QED  BY <1>1, <1>2, <1>3, <1>4, <1>5, <1>6, <1>7 DEF Next, Finished

-----------------------------------------------------------------------------
(* Accounting.  The kickstart bonus is granted on one control path only,   *)
(* and the probe adds to a value it read as zero and that since then only  *)
(* clamped adds and releases have raised.                                  *)

BonusInv ==
  /\ closer \in {"open", "cas", "clear", "add"} => bonus = 0
  /\ bonus \in {0, Batch}
ProbeBelowCap == (probeMu /\ ~unlimited) => available <= MaxCap

AccountInv == SendsCovered /\ CapRespected /\ BonusInv /\ ProbeBelowCap

LEMMA StepAccount == TypeInv /\ AccountInv /\ [Next]_vars => AccountInv'
  <1> SUFFICES ASSUME TypeInv, AccountInv, [Next]_vars PROVE AccountInv'
    OBVIOUS
  <1> USE LedgerConstants DEF TypeInv, TypeOK, FlagTypes, DataTypes, DrainPCs, AccountInv, SendsCovered,
          CapRespected, BonusInv, ProbeBelowCap, PreYield, Spendable,
          ledgerVars, probeVars, connVars, boundVars, creditHistory, sendHistory
  <1>1. CASE Activate
    BY <1>1 DEF Activate
  <1>2. CASE Producer
    <2> USE DEF prodFrame
    <2>1. CASE ReadLocal
      BY <2>1 DEF ReadLocal
    <2>2. CASE PushFrame
      BY <2>2 DEF PushFrame
    <2>3. CASE EnqueueFails
      BY <2>3 DEF EnqueueFails
    <2>4. CASE NotifyLoad
      BY <2>4 DEF NotifyLoad
    <2>5. CASE NotifySignal
      BY <2>5 DEF NotifySignal, Signal
    <2>6. CASE NotifyArm
      BY <2>6 DEF NotifyArm, armStallProbe, CanArm
    <2>. QED  BY <1>2, <2>1, <2>2, <2>3, <2>4, <2>5, <2>6 DEF Producer
  <1>3. CASE Drainer
    <2> USE DEF drainFrame
    <2>1. CASE ReceiveReady
      BY <2>1 DEF ReceiveReady
    <2>2. CASE TryAcquire
      BY <2>2, SMTT(30) DEF TryAcquire, Acquire
    <2>3. CASE PullFrame
      BY <2>3, SMTT(30) DEF PullFrame, Release
    <2>4. CASE WriteFrame
      BY <2>4, SMTT(30) DEF WriteFrame
    <2>5. CASE WriteError
      BY <2>5, SMTT(30) DEF WriteError, Release
    <2>6. CASE YieldClear
      BY <2>6 DEF YieldClear
    <2>7. CASE YieldMore
      BY <2>7 DEF YieldMore
    <2>8. CASE YieldLoad
      BY <2>8 DEF YieldLoad
    <2>9. CASE YieldSignal
      BY <2>9 DEF YieldSignal, Signal
    <2>10. CASE YieldArm
      BY <2>10 DEF YieldArm, armStallProbe, CanArm
    <2>11. CASE DeferCheck
      BY <2>11 DEF DeferCheck
    <2>12. CASE DeferSelect
      BY <2>12 DEF DeferSelect
    <2>13. CASE DeferRaced
      BY <2>13 DEF DeferRaced
    <2>. QED  BY <1>3, <2>1, <2>2, <2>3, <2>4, <2>5, <2>6, <2>7, <2>8, <2>9, <2>10,
                 <2>11, <2>12, <2>13 DEF Drainer
  <1>4. CASE Reader
    <2> USE DEF readerFrame
    <2>1. CASE ResumeStream
      BY <2>1 DEF ResumeStream
    <2>2. CASE ReplenishClear
      BY <2>2 DEF ReplenishClear, clearStallCycle
    <2>3. CASE ReplenishAdd
      BY <2>3, SMTT(30) DEF ReplenishAdd, AddClamped
    <2>4. CASE OutboundResult
      BY <2>4 DEF OutboundResult, clearStallCycle
    <2>5. CASE OutboundResultLate
      BY <2>5 DEF OutboundResultLate
    <2>6. CASE InitInstall
      <3>1. CASE grant = 0
        BY <2>6, <3>1 DEF InitInstall
      <3>2. CASE grant # 0
        BY <2>6, <3>2, SMTT(30) DEF InitInstall, AddClamped
      <3>. QED  BY <3>1, <3>2
    <2>7. CASE ReaderSignal
      BY <2>7 DEF ReaderSignal, Signal
    <2>. QED  BY <1>4, <2>1, <2>2, <2>3, <2>4, <2>5, <2>6, <2>7 DEF Reader
  <1>5. CASE Closer
    <2> USE DEF closerFrame
    <2>1. CASE BeginTeardown
      BY <2>1 DEF BeginTeardown
    <2>2. CASE CloseCAS
      BY <2>2 DEF CloseCAS
    <2>3. CASE CloseClear
      BY <2>3 DEF CloseClear, clearStallCycle
    <2>4. CASE KickstartAdd
      BY <2>4, SMTT(30) DEF KickstartAdd, AddClamped
    <2>5. CASE KickstartSignal
      BY <2>5 DEF KickstartSignal, Signal
    <2>6. CASE DrainDone
      BY <2>6 DEF DrainDone
    <2>7. CASE DrainAbandoned
      BY <2>7 DEF DrainAbandoned
    <2>8. CASE Finalize
      BY <2>8 DEF Finalize
    <2>. QED  BY <1>5, <2>1, <2>2, <2>3, <2>4, <2>5, <2>6, <2>7, <2>8 DEF Closer
  <1>6. CASE Probe
    <2> USE DEF probeFrame
    <2>1. CASE TimerExpires
      BY <2>1 DEF TimerExpires
    <2>2. ASSUME NEW gen \in firing, ProbeCheck(gen) PROVE AccountInv'
      BY <2>2, SMTT(30) DEF ProbeCheck
    <2>3. CASE ProbeGrant
      BY <2>3, SMTT(30) DEF ProbeGrant, Signal, AddOne, MaxInt64
    <2>. QED  BY <1>6, <2>1, <2>2, <2>3 DEF Probe
  <1>7. CASE UNCHANGED vars
    BY <1>7 DEF vars
  <1>. QED  BY <1>1, <1>2, <1>3, <1>4, <1>5, <1>6, <1>7 DEF Next, Finished

-----------------------------------------------------------------------------
(* The stall probe.  At most one AfterFunc body is of the current          *)
(* generation; it exists only while probeFired is set and before this      *)
(* cycle's grant.                                                          *)

ProbePending == timer # 0 \/ probeGen \in firing \/ probeMu

ProbeInv ==
  /\ timer # 0 => timer = probeGen /\ probeGen \notin firing /\ ~probeMu
  /\ probeMu => probeGen \notin firing
  /\ \A g \in firing : g <= probeGen
  /\ ProbePending => probeFired /\ cycleGrants = 0
  /\ cycleGrants > 0 => probeFired
  /\ cycleGrants <= 1
  /\ (probeFired /\ ~closed) => ProbePending \/ cycleGrants > 0

LEMMA StepProbe == TypeInv /\ ProbeInv /\ [Next]_vars => ProbeInv'
  <1> SUFFICES ASSUME TypeInv, ProbeInv, [Next]_vars PROVE ProbeInv'
    OBVIOUS
  <1> USE LedgerConstants DEF TypeInv, TypeOK, FlagTypes, DataTypes, DrainPCs, ProbeInv, ProbePending,
          PreYield, Spendable,
          ledgerVars, probeVars, connVars, boundVars, creditHistory, sendHistory
  <1>1. CASE Activate
    BY <1>1 DEF Activate
  <1>2. CASE Producer
    <2> USE DEF prodFrame
    <2>1. CASE ReadLocal
      BY <2>1 DEF ReadLocal
    <2>2. CASE PushFrame
      BY <2>2 DEF PushFrame
    <2>3. CASE EnqueueFails
      BY <2>3 DEF EnqueueFails
    <2>4. CASE NotifyLoad
      BY <2>4 DEF NotifyLoad
    <2>5. CASE NotifySignal
      BY <2>5 DEF NotifySignal, Signal
    <2>6. CASE NotifyArm
      <3>1. CASE CanArm
        <4>1. ~probeMu /\ ~probeFired /\ cycleGrants = 0
          BY <2>6, <3>1, SMTT(30) DEF NotifyArm, armStallProbe, CanArm
        <4>2. probeFired' /\ probeGen' = probeGen + 1 /\ timer' = probeGen + 1
          BY <2>6, <3>1 DEF NotifyArm, armStallProbe
        <4>3. UNCHANGED <<firing, probeMu, cycleGrants>>
          BY <2>6 DEF NotifyArm, armStallProbe
        <4>4. probeGen' \notin firing' /\ \A g \in firing' : g <= probeGen'
          BY <4>2, <4>3, SMTT(30)
        <4>. QED  BY <4>1, <4>2, <4>3, <4>4, SMTT(30)
      <3>2. CASE ~CanArm
        <4>1. UNCHANGED probeVars
          BY <2>6, <3>2 DEF NotifyArm, armStallProbe
        <4>. QED  BY <2>6, <3>2, <4>1 DEF NotifyArm, CanArm
      <3>. QED  BY <3>1, <3>2
    <2>. QED  BY <1>2, <2>1, <2>2, <2>3, <2>4, <2>5, <2>6 DEF Producer
  <1>3. CASE Drainer
    <2> USE DEF drainFrame
    <2>1. CASE ReceiveReady
      BY <2>1 DEF ReceiveReady
    <2>2. CASE TryAcquire
      BY <2>2 DEF TryAcquire, Acquire
    <2>3. CASE PullFrame
      BY <2>3 DEF PullFrame, Release
    <2>4. CASE WriteFrame
      BY <2>4 DEF WriteFrame
    <2>5. CASE WriteError
      BY <2>5 DEF WriteError, Release
    <2>6. CASE YieldClear
      BY <2>6 DEF YieldClear
    <2>7. CASE YieldMore
      BY <2>7 DEF YieldMore
    <2>8. CASE YieldLoad
      BY <2>8 DEF YieldLoad
    <2>9. CASE YieldSignal
      BY <2>9 DEF YieldSignal, Signal
    <2>10. CASE YieldArm
      <3>1. CASE CanArm
        <4>1. ~probeMu /\ ~probeFired /\ cycleGrants = 0
          BY <2>10, <3>1, SMTT(30) DEF YieldArm, armStallProbe, CanArm
        <4>2. probeFired' /\ probeGen' = probeGen + 1 /\ timer' = probeGen + 1
          BY <2>10, <3>1 DEF YieldArm, armStallProbe
        <4>3. UNCHANGED <<firing, probeMu, cycleGrants>>
          BY <2>10 DEF YieldArm, armStallProbe
        <4>4. probeGen' \notin firing' /\ \A g \in firing' : g <= probeGen'
          BY <4>2, <4>3, SMTT(30)
        <4>. QED  BY <4>1, <4>2, <4>3, <4>4, SMTT(30)
      <3>2. CASE ~CanArm
        <4>1. UNCHANGED probeVars
          BY <2>10, <3>2 DEF YieldArm, armStallProbe
        <4>. QED  BY <2>10, <3>2, <4>1 DEF YieldArm, CanArm
      <3>. QED  BY <3>1, <3>2
    <2>11. CASE DeferCheck
      BY <2>11 DEF DeferCheck
    <2>12. CASE DeferSelect
      BY <2>12 DEF DeferSelect
    <2>13. CASE DeferRaced
      BY <2>13 DEF DeferRaced
    <2>. QED  BY <1>3, <2>1, <2>2, <2>3, <2>4, <2>5, <2>6, <2>7, <2>8, <2>9, <2>10,
                 <2>11, <2>12, <2>13 DEF Drainer
  <1>4. CASE Reader
    <2> USE DEF readerFrame
    <2>1. CASE ResumeStream
      BY <2>1 DEF ResumeStream
    <2>2. CASE ReplenishClear
      BY <2>2, SMTT(30) DEF ReplenishClear, clearStallCycle
    <2>3. CASE ReplenishAdd
      BY <2>3 DEF ReplenishAdd
    <2>4. CASE OutboundResult
      BY <2>4, SMTT(30) DEF OutboundResult, clearStallCycle
    <2>5. CASE OutboundResultLate
      BY <2>5 DEF OutboundResultLate
    <2>6. CASE InitInstall
      BY <2>6 DEF InitInstall
    <2>7. CASE ReaderSignal
      BY <2>7 DEF ReaderSignal, Signal
    <2>. QED  BY <1>4, <2>1, <2>2, <2>3, <2>4, <2>5, <2>6, <2>7 DEF Reader
  <1>5. CASE Closer
    <2> USE DEF closerFrame
    <2>1. CASE BeginTeardown
      BY <2>1 DEF BeginTeardown
    <2>2. CASE CloseCAS
      BY <2>2 DEF CloseCAS
    <2>3. CASE CloseClear
      BY <2>3, SMTT(30) DEF CloseClear, clearStallCycle
    <2>4. CASE KickstartAdd
      BY <2>4 DEF KickstartAdd
    <2>5. CASE KickstartSignal
      BY <2>5 DEF KickstartSignal, Signal
    <2>6. CASE DrainDone
      BY <2>6 DEF DrainDone
    <2>7. CASE DrainAbandoned
      BY <2>7 DEF DrainAbandoned
    <2>8. CASE Finalize
      BY <2>8 DEF Finalize
    <2>. QED  BY <1>5, <2>1, <2>2, <2>3, <2>4, <2>5, <2>6, <2>7, <2>8 DEF Closer
  <1>6. CASE Probe
    <2> USE DEF probeFrame
    <2>1. CASE TimerExpires
      BY <2>1, SMTT(30) DEF TimerExpires
    <2>2. ASSUME NEW gen \in firing, ProbeCheck(gen) PROVE ProbeInv'
      BY <2>2, SMTT(30) DEF ProbeCheck
    <2>3. CASE ProbeGrant
      BY <2>3, SMTT(30) DEF ProbeGrant, Signal
    <2>. QED  BY <1>6, <2>1, <2>2, <2>3 DEF Probe
  <1>7. CASE UNCHANGED vars
    BY <1>7 DEF vars
  <1>. QED  BY <1>1, <1>2, <1>3, <1>4, <1>5, <1>6, <1>7 DEF Next, Finished

-----------------------------------------------------------------------------
(* A stalled connection is probed *)

ClosedLater == closer \notin {"open", "cas"} => closed

StallInv ==
  /\ ClosedLater
  /\ (queued > 0 /\ ~Spendable /\ ~signaled /\ ~closed) =>
       \/ probeFired
       \/ prod \in {"load", "signal", "arm"}
       \/ drain \in {"more", "load", "signal", "arm"}
       \/ reader \in {"add", "init", "signal"}

LEMMA StepStall == TypeInv /\ WakeInv /\ AccountInv /\ StallInv /\ [Next]_vars => StallInv'
  <1> SUFFICES ASSUME TypeInv, WakeInv, AccountInv, StallInv, [Next]_vars PROVE StallInv'
    OBVIOUS
  <1> USE LedgerConstants DEF TypeInv, TypeOK, FlagTypes, DataTypes, DrainPCs, WakeInv, OneWakeup,
          GoneIsEmpty,          AccountInv, CapRespected, StallInv, ClosedLater, PreYield, Spendable,
          ledgerVars, probeVars, connVars, boundVars, creditHistory, sendHistory
  <1>1. CASE Activate
    BY <1>1 DEF Activate
  <1>2. CASE Producer
    <2> USE DEF prodFrame
    <2>1. CASE ReadLocal
      BY <2>1 DEF ReadLocal
    <2>2. CASE PushFrame
      BY <2>2 DEF PushFrame
    <2>3. CASE EnqueueFails
      BY <2>3 DEF EnqueueFails
    <2>4. CASE NotifyLoad
      BY <2>4, SMTT(30) DEF NotifyLoad
    <2>5. CASE NotifySignal
      BY <2>5 DEF NotifySignal, Signal
    <2>6. CASE NotifyArm
      <3>1. CASE CanArm
        BY <2>6, <3>1 DEF NotifyArm, armStallProbe, CanArm
      <3>2. CASE ~CanArm
        <4>1. UNCHANGED probeVars
          BY <2>6, <3>2 DEF NotifyArm, armStallProbe
        <4>. QED  BY <2>6, <3>2, <4>1, SMTT(30) DEF NotifyArm, CanArm
      <3>. QED  BY <3>1, <3>2
    <2>. QED  BY <1>2, <2>1, <2>2, <2>3, <2>4, <2>5, <2>6 DEF Producer
  <1>3. CASE Drainer
    <2> USE DEF drainFrame
    <2>1. CASE ReceiveReady
      BY <2>1 DEF ReceiveReady
    <2>2. CASE TryAcquire
      BY <2>2, SMTT(30) DEF TryAcquire, Acquire
    <2>3. CASE PullFrame
      BY <2>3, SMTT(30) DEF PullFrame, Release
    <2>4. CASE WriteFrame
      BY <2>4 DEF WriteFrame
    <2>5. CASE WriteError
      BY <2>5, SMTT(30) DEF WriteError, Release
    <2>6. CASE YieldClear
      BY <2>6 DEF YieldClear
    <2>7. CASE YieldMore
      BY <2>7 DEF YieldMore
    <2>8. CASE YieldLoad
      BY <2>8 DEF YieldLoad
    <2>9. CASE YieldSignal
      BY <2>9 DEF YieldSignal, Signal
    <2>10. CASE YieldArm
      <3>1. CASE CanArm
        BY <2>10, <3>1 DEF YieldArm, armStallProbe, CanArm
      <3>2. CASE ~CanArm
        <4>1. UNCHANGED probeVars
          BY <2>10, <3>2 DEF YieldArm, armStallProbe
        <4>. QED  BY <2>10, <3>2, <4>1, SMTT(30) DEF YieldArm, CanArm
      <3>. QED  BY <3>1, <3>2
    <2>11. CASE DeferCheck
      BY <2>11 DEF DeferCheck
    <2>12. CASE DeferSelect
      BY <2>12 DEF DeferSelect
    <2>13. CASE DeferRaced
      BY <2>13 DEF DeferRaced
    <2>. QED  BY <1>3, <2>1, <2>2, <2>3, <2>4, <2>5, <2>6, <2>7, <2>8, <2>9, <2>10,
                 <2>11, <2>12, <2>13 DEF Drainer
  <1>4. CASE Reader
    <2> USE DEF readerFrame
    <2>1. CASE ResumeStream
      BY <2>1 DEF ResumeStream
    <2>2. CASE ReplenishClear
      BY <2>2 DEF ReplenishClear, clearStallCycle
    <2>3. CASE ReplenishAdd
      BY <2>3 DEF ReplenishAdd, AddClamped
    <2>4. CASE OutboundResult
      BY <2>4 DEF OutboundResult, clearStallCycle
    <2>5. CASE OutboundResultLate
      BY <2>5 DEF OutboundResultLate
    <2>6. CASE InitInstall
      BY <2>6 DEF InitInstall, AddClamped
    <2>7. CASE ReaderSignal
      BY <2>7 DEF ReaderSignal, Signal
    <2>. QED  BY <1>4, <2>1, <2>2, <2>3, <2>4, <2>5, <2>6, <2>7 DEF Reader
  <1>5. CASE Closer
    <2> USE DEF closerFrame
    <2>1. CASE BeginTeardown
      BY <2>1 DEF BeginTeardown
    <2>2. CASE CloseCAS
      BY <2>2 DEF CloseCAS
    <2>3. CASE CloseClear
      BY <2>3 DEF CloseClear, clearStallCycle
    <2>4. CASE KickstartAdd
      BY <2>4 DEF KickstartAdd, AddClamped
    <2>5. CASE KickstartSignal
      BY <2>5 DEF KickstartSignal, Signal
    <2>6. CASE DrainDone
      BY <2>6 DEF DrainDone
    <2>7. CASE DrainAbandoned
      BY <2>7 DEF DrainAbandoned
    <2>8. CASE Finalize
      BY <2>8 DEF Finalize
    <2>. QED  BY <1>5, <2>1, <2>2, <2>3, <2>4, <2>5, <2>6, <2>7, <2>8 DEF Closer
  <1>6. CASE Probe
    <2> USE DEF probeFrame
    <2>1. CASE TimerExpires
      BY <2>1 DEF TimerExpires
    <2>2. ASSUME NEW gen \in firing, ProbeCheck(gen) PROVE StallInv'
      BY <2>2, SMTT(30) DEF ProbeCheck
    <2>3. CASE ProbeGrant
      BY <2>3 DEF ProbeGrant, Signal, AddOne, MaxInt64
    <2>. QED  BY <1>6, <2>1, <2>2, <2>3 DEF Probe
  <1>7. CASE UNCHANGED vars
    BY <1>7 DEF vars
  <1>. QED  BY <1>1, <1>2, <1>3, <1>4, <1>5, <1>6, <1>7 DEF Next, Finished

-----------------------------------------------------------------------------
(* Frames sent past the credits *)

\* What may still race in: a frame in the producer's hands, or one already
\* pushed behind the deferred length check.
RacedInv ==
  /\ ~isClosing => raced = 0 /\ drain \notin {"select", "raced"}
  /\ isClosing =>
       raced + (IF drain = "raced" THEN 1 ELSE 0)
             + (IF drain = "select" THEN queued ELSE 0)
             + (IF prod = "have" THEN 1 ELSE 0) <= 1

LEMMA StepRaced == TypeInv /\ RacedInv /\ [Next]_vars => RacedInv'
  <1> SUFFICES ASSUME TypeInv, RacedInv, [Next]_vars PROVE RacedInv'
    OBVIOUS
  <1> USE LedgerConstants DEF TypeInv, TypeOK, FlagTypes, DataTypes, DrainPCs, RacedInv, isClosing,
          PreYield, Spendable,
          ledgerVars, probeVars, connVars, boundVars, creditHistory, sendHistory
  <1>1. CASE Activate
    BY <1>1 DEF Activate
  <1>2. CASE Producer
    <2> USE DEF prodFrame
    <2>1. CASE ReadLocal
      BY <2>1 DEF ReadLocal
    <2>2. CASE PushFrame
      BY <2>2, SMTT(30) DEF PushFrame
    <2>3. CASE EnqueueFails
      BY <2>3, SMTT(30) DEF EnqueueFails
    <2>4. CASE NotifyLoad
      BY <2>4 DEF NotifyLoad
    <2>5. CASE NotifySignal
      BY <2>5 DEF NotifySignal, Signal
    <2>6. CASE NotifyArm
      BY <2>6 DEF NotifyArm, armStallProbe, CanArm
    <2>. QED  BY <1>2, <2>1, <2>2, <2>3, <2>4, <2>5, <2>6 DEF Producer
  <1>3. CASE Drainer
    <2> USE DEF drainFrame
    <2>1. CASE ReceiveReady
      BY <2>1 DEF ReceiveReady
    <2>2. CASE TryAcquire
      BY <2>2 DEF TryAcquire, Acquire
    <2>3. CASE PullFrame
      BY <2>3 DEF PullFrame, Release
    <2>4. CASE WriteFrame
      BY <2>4 DEF WriteFrame
    <2>5. CASE WriteError
      BY <2>5 DEF WriteError, Release
    <2>6. CASE YieldClear
      BY <2>6 DEF YieldClear
    <2>7. CASE YieldMore
      BY <2>7 DEF YieldMore
    <2>8. CASE YieldLoad
      BY <2>8 DEF YieldLoad
    <2>9. CASE YieldSignal
      BY <2>9 DEF YieldSignal, Signal
    <2>10. CASE YieldArm
      BY <2>10 DEF YieldArm, armStallProbe, CanArm
    <2>11. CASE DeferCheck
      BY <2>11 DEF DeferCheck
    <2>12. CASE DeferSelect
      BY <2>12, SMTT(30) DEF DeferSelect
    <2>13. CASE DeferRaced
      BY <2>13, SMTT(30) DEF DeferRaced
    <2>. QED  BY <1>3, <2>1, <2>2, <2>3, <2>4, <2>5, <2>6, <2>7, <2>8, <2>9, <2>10,
                 <2>11, <2>12, <2>13 DEF Drainer
  <1>4. CASE Reader
    <2> USE DEF readerFrame
    <2>1. CASE ResumeStream
      BY <2>1 DEF ResumeStream
    <2>2. CASE ReplenishClear
      BY <2>2 DEF ReplenishClear, clearStallCycle
    <2>3. CASE ReplenishAdd
      BY <2>3 DEF ReplenishAdd
    <2>4. CASE OutboundResult
      BY <2>4 DEF OutboundResult, clearStallCycle
    <2>5. CASE OutboundResultLate
      BY <2>5 DEF OutboundResultLate
    <2>6. CASE InitInstall
      BY <2>6 DEF InitInstall
    <2>7. CASE ReaderSignal
      BY <2>7 DEF ReaderSignal, Signal
    <2>. QED  BY <1>4, <2>1, <2>2, <2>3, <2>4, <2>5, <2>6, <2>7 DEF Reader
  <1>5. CASE Closer
    <2> USE DEF closerFrame
    <2>1. CASE BeginTeardown
      BY <2>1, SMTT(30) DEF BeginTeardown
    <2>2. CASE CloseCAS
      BY <2>2 DEF CloseCAS
    <2>3. CASE CloseClear
      BY <2>3 DEF CloseClear, clearStallCycle
    <2>4. CASE KickstartAdd
      BY <2>4 DEF KickstartAdd
    <2>5. CASE KickstartSignal
      BY <2>5 DEF KickstartSignal, Signal
    <2>6. CASE DrainDone
      BY <2>6 DEF DrainDone
    <2>7. CASE DrainAbandoned
      BY <2>7 DEF DrainAbandoned
    <2>8. CASE Finalize
      BY <2>8, SMTT(30) DEF Finalize
    <2>. QED  BY <1>5, <2>1, <2>2, <2>3, <2>4, <2>5, <2>6, <2>7, <2>8 DEF Closer
  <1>6. CASE Probe
    <2> USE DEF probeFrame
    <2>1. CASE TimerExpires
      BY <2>1 DEF TimerExpires
    <2>2. ASSUME NEW gen \in firing, ProbeCheck(gen) PROVE RacedInv'
      BY <2>2 DEF ProbeCheck
    <2>3. CASE ProbeGrant
      BY <2>3 DEF ProbeGrant, Signal
    <2>. QED  BY <1>6, <2>1, <2>2, <2>3 DEF Probe
  <1>7. CASE UNCHANGED vars
    BY <1>7 DEF vars
  <1>. QED  BY <1>1, <1>2, <1>3, <1>4, <1>5, <1>6, <1>7 DEF Next, Finished

-----------------------------------------------------------------------------
(* The invariants together *)

IInv == TypeInv /\ WakeInv /\ AccountInv /\ ProbeInv /\ StallInv /\ RacedInv

LEMMA InitInv == Init => IInv
  <1> SUFFICES ASSUME Init PROVE IInv
    OBVIOUS
  <1>1. TypeInv
    BY InitTyped
  <1>2. WakeInv /\ StallInv /\ ProbeInv
    BY <1>1, SMTT(30) DEF Init, WakeInv, OneWakeup, GoneIsEmpty, NoMissedWakeup, PreYield,
       StallInv,
       ClosedLater, ProbeInv, ProbePending
  <1>3. RacedInv
    BY DEF Init, RacedInv, isClosing
  <1>4. ~unlimited => granted = available /\ available \in 0 .. MaxCap
    BY LedgerConstants, SMTT(30) DEF Init, clampReverseCredits
  <1>5. AccountInv
    BY <1>1, <1>4, LedgerConstants, SMTT(30) DEF Init, AccountInv, SendsCovered, CapRespected,
       BonusInv, ProbeBelowCap, TypeInv, TypeOK, DataTypes
  <1>. QED  BY <1>1, <1>2, <1>3, <1>5 DEF IInv

LEMMA Inductive == Spec => []IInv
  <1>1. IInv /\ [Next]_vars => IInv'
    BY StepTyped, StepWake, StepAccount, StepProbe, StepStall, StepRaced DEF IInv
  <1>. QED  BY InitInv, <1>1, PTL DEF Spec

\* The signaled flag of credit_ledger.go is exactly one wakeup: in dataReady,
\* being served by a drain turn, or lost to a failed write or a dead connection.
THEOREM OneWakeupHolds == Spec => []OneWakeup
  <1>1. IInv => OneWakeup
    BY DEF IInv, WakeInv
  <1>. QED  BY <1>1, Inductive, PTL

\* Queued frames and spendable credits are never left without a wakeup,
\* whatever NotifyEnqueue, DrainYielded, Replenish, InitCredits,
\* KickstartAndClose and the probe interleave.
THEOREM NoMissedWakeupHolds == Spec => []NoMissedWakeup
  <1>1. IInv => NoMissedWakeup
    BY DEF IInv, WakeInv
  <1>. QED  BY <1>1, Inductive, PTL

\* Every frame the drain loop sends is covered by a grant of the relay, the one
\* kickstart batch of KickstartAndClose or a self-grant of the stall probe.
THEOREM SendsCoveredHolds == Spec => []SendsCovered
  <1>1. IInv => SendsCovered
    BY DEF IInv, AccountInv
  <1>. QED  BY <1>1, Inductive, PTL

\* A capped ledger is never negative and exceeds maxCap by at most the one
\* credit of a probe that a clamped add has overtaken.
THEOREM CapRespectedHolds == Spec => []CapRespected
  <1>1. IInv => CapRespected
    BY DEF IInv, AccountInv
  <1>. QED  BY <1>1, Inductive, PTL

\* Invariant I7 of credit_ledger.go: one self-grant per stall cycle.
THEOREM ProbeOncePerCycleHolds == Spec => []ProbeOncePerCycle
  <1>1. IInv => ProbeOncePerCycle
    BY DEF IInv, ProbeInv, ProbeOncePerCycle
  <1>. QED  BY <1>1, Inductive, PTL

\* Frames that wait for a credit on an open ledger always have a stall probe
\* armed, running or spent, or a goroutine that is about to arm it.
THEOREM StallIsProbedHolds == Spec => []StallIsProbed
  <1>1. IInv => StallIsProbed
    BY DEF IInv, StallInv, ProbeInv, ProbePending, StallIsProbed
  <1>. QED  BY <1>1, Inductive, PTL

\* drainConnectionQueue's deferred select sends at most one frame past the
\* credits in the life of a connection.
THEOREM RacedAtMostOnceHolds == Spec => []RacedAtMostOnce
  <1>1. IInv => RacedAtMostOnce
    BY SMTT(30) DEF IInv, RacedInv, RacedAtMostOnce, TypeInv, TypeOK, DataTypes
  <1>. QED  BY <1>1, Inductive, PTL
=============================================================================
