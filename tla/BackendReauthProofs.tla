------------------------- MODULE BackendReauthProofs -------------------------
(***************************************************************************)
(* Proofs about BackendReauth for every interval, jitter, grace, cap,      *)
(* timeout and queue capacity, and any number of rounds and answers.       *)
(*                                                                         *)
(* Three arguments that meet only in the types.  TimeInv: what has passed  *)
(* plus what the running timer may still add is bounded at every control   *)
(* point; the health checks of a round are counted by what the deferrals   *)
(* between them have used of the cap.  CloseInv: while the 1008 frame is   *)
(* on the wire either connWriteMu is still held by sendPolicyClose or      *)
(* closed is set. FreshInv: there is at most one challenge on its way to   *)
(* the backend, it is the newest, and no token answers a challenge the     *)
(* backend has not read.                                                   *)
(***************************************************************************)
EXTENDS BackendReauth, TLAPS

\* A leaf that names no prover is Zenon's.
USE ZenonT(30)

TypeInv ==
  /\ timer \in Nat /\ delay \in Nat /\ used \in Nat /\ since \in Nat
  /\ interval \in {0, Interval} /\ cap \in Caps
  /\ nonce \in Nat /\ got \in Nat /\ tokens \in Nat /\ rtok \in Nat /\ dev \in Nat
  /\ wmsg \in Nat /\ left \in Nat
  /\ ctl \in Seq(Nat) /\ inn \in Seq(Nat) /\ out \in Seq(Nat \cup {CloseFrame})
  /\ pc \in {"rest", "health", "defer", "nonce", "queue", "drain", "wait", "apply", "fail",
              "unlock", "shut", "gone"}
  /\ wpc \in {"select", "lock", "write", "exit", "gone"}
  /\ mu \in {"free", "write", "policy"} /\ rpc \in {"read", "push", "gone"}

Base == interval + Jitter

\* The health checks begun once u of a cap of c is used in deferrals of i at
\* least, or of all that is left.
ChecksIn(c, i, u) == IF u < c THEN u \div i + 1 ELSE (c + i - 1) \div i + 1
Spent == ChecksIn(cap, interval, used) * CheckTime

TimeInv ==
  interval > 0 =>
    /\ used <= cap
    /\ pc = "rest" => used = 0 /\ since + timer <= Base
    /\ pc = "health" => uri /\ since + timer <= Base + used + Spent
    /\ pc = "defer" => /\ uri /\ since + timer <= Base + used + delay + Spent
                       /\ used < cap /\ used + delay <= cap
                       /\ delay >= interval \/ used + delay = cap
    /\ pc \in {"nonce", "queue", "drain"} => since <= Base + Maintenance
    /\ pc = "wait" => since + timer <= Base + Maintenance + Grace
    /\ pc = "apply" => since + timer <= Base + Maintenance + Grace + AuthTime

Shown == \E i \in 1 .. Len(out) : out[i] = CloseFrame

CloseInv ==
  /\ mu = "write" <=> wpc = "write"
  /\ mu = "policy" <=> pc = "unlock"
  /\ Shown => pc \in {"unlock", "shut", "gone"}
  /\ Shown => (pc = "unlock" \/ closed)
  /\ NoFrameAfterClose

\* The challenges on their way: in the lane, in writePump's hand, on the wire.
InLane == {i \in 1 .. Len(ctl) : ctl[i] # 0}
InHand == wpc \in {"lock", "write"} /\ wmsg # 0
OnWire == {i \in 1 .. Len(out) : out[i] \notin {0, CloseFrame}}

FreshInv ==
  /\ dev <= nonce /\ got <= dev /\ tokens <= dev /\ rtok <= dev
  /\ \A i \in 1 .. Len(inn) : inn[i] <= dev
  /\ \A i \in InLane : ctl[i] = nonce
  /\ InHand => wmsg = nonce
  /\ \A i \in OnWire : out[i] = nonce
  /\ \A i, j \in InLane : i = j
  /\ \A i, j \in OnWire : i = j
  /\ InLane # {} => ~InHand
  /\ InLane # {} => OnWire = {}
  /\ InHand => OnWire = {}
  /\ dev = nonce \/ pc = "queue" => InLane = {} /\ ~InHand /\ OnWire = {}
  /\ pc \in {"rest", "health", "defer", "nonce"} => dev = nonce
  /\ pc = "queue" => dev < nonce

IInv == TypeInv /\ TimeInv /\ CloseInv /\ FreshInv

-----------------------------------------------------------------------------
LEMMA AtMostType ==
  ASSUME NEW n \in Nat, NEW m \in Nat
  PROVE  AtMost(n, m) \in Nat /\ AtMost(n, m) <= m /\ AtMost(n, m) <= n
BY SMTT(30) DEF AtMost

\* It is the first number unless that exceeds the second.
LEMMA AtMostIs ==
  ASSUME NEW n \in Nat, NEW m \in Nat
  PROVE  AtMost(n, m) = n \/ AtMost(n, m) = m
BY DEF AtMost

LEMMA InitInv == Init => IInv
<1> SUFFICES ASSUME Init PROVE IInv
  OBVIOUS
<1> USE ReauthConstants
<1>1. TypeInv
  BY SMTT(30) DEF Init, TypeInv, Jittered
<1>2. TimeInv
  BY SMTT(30) DEF Init, TimeInv, Jittered, Base
<1>3. CloseInv
  BY SMTT(30) DEF Init, CloseInv, Shown, NoFrameAfterClose
<1>4. FreshInv
  BY SMTT(30) DEF Init, FreshInv, InLane, InHand, OnWire
<1> QED
  BY <1>1, <1>2, <1>3, <1>4 DEF IInv

\* A deferral fits what remains of the cap; it takes the interval at least, or
\* all that remains.
LEMMA DeferFits ==
  ASSUME TypeInv, deferForMaintenance, cap - used > 0
  PROVE  /\ delay' \in Nat /\ timer' = delay' /\ used + delay' <= cap /\ pc' = "defer"
         /\ delay' >= interval \/ used + delay' = cap
<1> USE ReauthConstants
<1>1. cap \in Nat /\ used \in Nat /\ interval \in Nat
  BY SMTT(30) DEF TypeInv
<1> DEFINE rest == cap - used
<1>2. rest \in Nat /\ ~(cap - used <= 0)
  BY <1>1, SMTT(30)
<1>3. /\ \E d \in Jittered(AtMost(interval, rest)) : delay' = AtMost(d, rest)
      /\ timer' = delay' /\ pc' = "defer"
  BY <1>2 DEF deferForMaintenance
<1>4. PICK d \in Jittered(AtMost(interval, rest)) : delay' = AtMost(d, rest)
  BY <1>3
<1> HIDE DEF rest
<1>5. AtMost(interval, rest) \in Nat
  BY <1>1, <1>2, AtMostType
<1>6. d \in Nat /\ d >= AtMost(interval, rest)
  BY <1>5, SMTT(30) DEF Jittered
<1>7. delay' \in Nat /\ delay' <= rest
  BY <1>2, <1>4, <1>6, AtMostType
<1>8. delay' = rest \/ delay' = d
  BY <1>2, <1>4, <1>6, AtMostIs
<1>9. delay' >= interval \/ delay' = rest
  BY <1>1, <1>2, <1>6, <1>7, <1>8, AtMostIs, SMTT(30)
<1> QED
  BY <1>1, <1>3, <1>7, <1>9, SMTT(30) DEF rest

\* The cap is used up: go on to the challenge.
LEMMA CapSpent ==
  ASSUME TypeInv, deferForMaintenance, ~(cap - used > 0)
  PROVE  pc' = "nonce" /\ timer' = 0 /\ UNCHANGED delay
<1>1. cap \in Nat /\ used \in Nat
  BY ReauthConstants DEF TypeInv
<1>2. cap - used <= 0
  BY <1>1, SMTT(30)
<1> QED
  BY <1>2 DEF deferForMaintenance

LEMMA SeqFacts ==
  ASSUME NEW S, NEW s \in Seq(S), NEW x \in S
  PROVE  /\ Append(s, x) \in Seq(S)
         /\ s # <<>> => Head(s) \in S /\ Tail(s) \in Seq(S)
BY SMTT(30)

-----------------------------------------------------------------------------
LEMMA TypeStep ==
  ASSUME TypeInv, Next
  PROVE  TypeInv'
<1> USE ReauthConstants
<1>1. CASE TimerFires
  BY <1>1 DEF TimerFires, AskAuthorizer, TypeInv, loopElse, sessionVars, writeVars, readVars,
       devVars
<1>2. CASE RestQuits
  BY <1>2 DEF RestQuits, TypeInv, loopElse, sessionVars, writeVars, readVars, devVars
<1>4. CASE Healthy
  BY <1>4 DEF Healthy, TypeInv, loopElse, sessionVars, writeVars, readVars, devVars
<1>5. CASE deferForMaintenance
  <2>1. timer' \in Nat /\ delay' \in Nat /\ pc' \in {"nonce", "defer"}
    <3>1. 0 \in Nat
      BY SMTT(30)
    <3>2. CASE cap - used > 0
      BY <1>5, <3>2, DeferFits
    <3>3. CASE ~(cap - used > 0)
      BY <1>5, <3>1, <3>3, CapSpent DEF TypeInv
    <3> QED
      BY <3>2, <3>3
  <2> QED
    BY <1>5, <2>1 DEF deferForMaintenance, TypeInv, loopElse, sessionVars, writeVars,
         readVars, devVars
<1>6. CASE DeferOver
  BY <1>6, SMTT(30) DEF DeferOver, AskAuthorizer, TypeInv, loopElse, sessionVars, writeVars,
       readVars, devVars
<1>7. CASE DeferQuits
  BY <1>7 DEF DeferQuits, TypeInv, loopElse, sessionVars, writeVars, readVars, devVars
<1>8. CASE prepareForNonce
  BY <1>8, SMTT(30) DEF prepareForNonce, TypeInv, loopElse, sessionVars, writeVars, readVars,
     devVars
<1>9. CASE QueueFails
  BY <1>9 DEF QueueFails, TypeInv, loopElse, sessionVars, writeVars, readVars, devVars
<1>10. CASE WaitFails
  BY <1>10 DEF WaitFails, TypeInv, loopElse, sessionVars, writeVars, readVars, devVars
<1>11. CASE TokenRejected
  BY <1>11 DEF TokenRejected, TypeInv, loopElse, sessionVars, writeVars, readVars, devVars
<1>12. CASE QueueChallenge
  <2>1. ctl' \in Seq(Nat) /\ pc' = "drain"
    BY <1>12, SeqFacts DEF QueueChallenge, TypeInv
  <2> QED
    BY <1>12, <2>1 DEF QueueChallenge, TypeInv, sessionVars, writeVars, readVars, devVars
<1>13. CASE DrainStale
  BY <1>13 DEF DrainStale, TypeInv, sessionVars, writeVars, readVars, devVars
<1>14. CASE TakeToken
  BY <1>14 DEF TakeToken, TypeInv, sessionVars, writeVars, readVars, devVars
<1>15. CASE applyClaims
  <2>1. interval' \in {0, Interval} /\ cap' \in Caps /\ used' = 0 /\ since' = 0
    BY <1>15 DEF applyClaims
  <2>2. ctl' = ctl \/ ctl' = Append(ctl, 0)
    BY <1>15 DEF applyClaims
  <2>3. ctl' \in Seq(Nat)
    <3>1. ctl \in Seq(Nat) /\ 0 \in Nat
      BY DEF TypeInv
    <3>2. Append(ctl, 0) \in Seq(Nat)
      BY <3>1, SeqFacts
    <3> QED
      BY <2>2, <3>1, <3>2
  <2>4. timer' \in Nat /\ pc' \in {"gone", "rest"}
    BY <1>15, <2>1, SMTT(30) DEF applyClaims, TypeInv, Jittered
  <2> QED
    BY <1>15, <2>1, <2>3, <2>4, SMTT(30) DEF applyClaims, TypeInv, sessionVars, writeVars,
       readVars,
         devVars
<1>16. CASE PolicyFrame
  <2>1. out' = out \/ out' = Append(out, CloseFrame)
    BY <1>16 DEF PolicyFrame, Written
  <2>2. out' \in Seq(Nat \cup {CloseFrame})
    <3>1. out \in Seq(Nat \cup {CloseFrame}) /\ CloseFrame \in Nat \cup {CloseFrame}
      BY DEF TypeInv
    <3>2. Append(out, CloseFrame) \in Seq(Nat \cup {CloseFrame})
      BY <3>1, SeqFacts
    <3> QED
      BY <2>1, <3>1, <3>2
  <2> QED
    BY <1>16, <2>2 DEF PolicyFrame, TypeInv, failElse, Close, sessionVars, writeVars,
         readVars, devVars
<1>17. CASE PolicyUnlock
  BY <1>17 DEF PolicyUnlock, TypeInv, failElse, Close, sessionVars, writeVars, readVars,
       devVars
<1>18. CASE PolicyClose
  BY <1>18 DEF PolicyClose, TypeInv, failElse, Close, sessionVars, writeVars, readVars, devVars
<1>19. CASE WriteQuits
  BY <1>19 DEF WriteQuits, TypeInv, writeElse, Close, loopVars, readVars, devVars
<1>20. CASE TakeControl
  <2>1. ctl' \in Seq(Nat) /\ wmsg' \in Nat
    BY <1>20, SeqFacts DEF TakeControl, TypeInv
  <2> QED
    BY <1>20, <2>1 DEF TakeControl, TypeInv, writeElse, Close, loopVars, readVars, devVars
<1>21. CASE TakeData
  BY <1>21 DEF TakeData, TypeInv, writeElse, Close, loopVars, readVars, devVars
<1>22. CASE WriteLock
  BY <1>22 DEF WriteLock, TypeInv, writeElse, Close, loopVars, readVars, devVars
<1>23. CASE WriteFails
  BY <1>23 DEF WriteFails, TypeInv, writeElse, Close, loopVars, readVars, devVars
<1>24. CASE WriteFrame
  <2>1. out' = out \/ out' = Append(out, wmsg)
    BY <1>24 DEF WriteFrame, Written
  <2>2. out' \in Seq(Nat \cup {CloseFrame})
    <3>1. out \in Seq(Nat \cup {CloseFrame}) /\ wmsg \in Nat \cup {CloseFrame}
      BY DEF TypeInv
    <3>2. Append(out, wmsg) \in Seq(Nat \cup {CloseFrame})
      BY <3>1, SeqFacts
    <3> QED
      BY <2>1, <3>1, <3>2
  <2>3. wpc' \in {"select", "exit"} /\ mu' = "free"
    BY <1>24 DEF WriteFrame
  <2> QED
    BY <1>24, <2>2, <2>3 DEF WriteFrame, TypeInv, writeElse, Close, loopVars, readVars, devVars
<1>25. CASE WriteExit
  BY <1>25 DEF WriteExit, TypeInv, writeElse, Close, loopVars, readVars, devVars
<1>26. CASE ReadText
  <2>1. inn' \in Seq(Nat) /\ rtok' \in Nat
    BY <1>26, SeqFacts DEF ReadText, TypeInv
  <2> QED
    BY <1>26, <2>1 DEF ReadText, TypeInv, readElse, Close, loopVars, writeVars
<1>27. CASE PushToken
  BY <1>27 DEF PushToken, TypeInv, readElse, Close, loopVars, writeVars
<1>28. CASE ReadFails
  BY <1>28 DEF ReadFails, TypeInv, readElse, Close, loopVars, writeVars
<1>29. CASE BackendReads
  <2>1. out' \in Seq(Nat \cup {CloseFrame}) /\ Head(out) \in Nat
    BY <1>29, SeqFacts, SMTT(30) DEF BackendReads, TypeInv
  <2>2. dev' \in Nat /\ left' \in Nat
    BY <1>29, <2>1 DEF BackendReads, TypeInv
  <2> QED
    BY <1>29, <2>1, <2>2 DEF BackendReads, TypeInv, devElse, loopVars, writeVars, readVars
<1>30. CASE BackendAnswers
  <2>1. inn' \in Seq(Nat) /\ left' \in Nat
    BY <1>30, SeqFacts, SMTT(30) DEF BackendAnswers, TypeInv
  <2> QED
    BY <1>30, <2>1 DEF BackendAnswers, TypeInv, devElse, loopVars, writeVars, readVars
<1>31. CASE BackendLeaves
  BY <1>31 DEF BackendLeaves, TypeInv, devElse, loopVars, writeVars, readVars
<1>32. CASE Tick
  BY <1>32, SMTT(30) DEF Tick, TypeInv, writeVars, readVars, devVars
<1> QED
  BY <1>1, <1>2, <1>4, <1>5, <1>6, <1>7, <1>8, <1>9, <1>10, <1>11, <1>12, <1>13, <1>14,
       <1>15, <1>16, <1>17, <1>18, <1>19, <1>20, <1>21, <1>22, <1>23, <1>24, <1>25, <1>26,
            <1>27, <1>28, <1>29, <1>30, <1>31, <1>32 DEF Next, reauthLoop, performReauth,
                 sendPolicyClose, writePump, readPump

-----------------------------------------------------------------------------
LEMMA Division ==
  ASSUME NEW a \in Nat, NEW b \in Nat \ {0}
  PROVE  a \div b \in Nat /\ (a \div b) * b <= a /\ a < (a \div b) * b + b
BY SMTT(30)

LEMMA TimesMonotone ==
  ASSUME NEW m \in Nat, NEW n \in Nat, NEW b \in Nat, m <= n
  PROVE  m * b \in Nat /\ n * b \in Nat /\ m * b <= n * b
BY SMTT(30)

LEMMA TimesNext ==
  ASSUME NEW m \in Nat, NEW b \in Nat
  PROVE  m * b \in Nat /\ (m + 1) * b = m * b + b
BY SMTT(30)

LEMMA DivisionGrows ==
  ASSUME NEW a \in Nat, NEW b \in Nat \ {0}, NEW d \in Nat, d >= b
  PROVE  a \div b + 1 <= (a + d) \div b
<1> DEFINE p == a \div b
           q == (a + d) \div b
<1>1. p \in Nat /\ p * b <= a
  BY Division
<1>2. q \in Nat /\ a + d < q * b + b
  <2>1. a + d \in Nat
    BY SMTT(30)
  <2> QED
    BY <2>1, Division
<1> HIDE DEF p, q
<1>3. SUFFICES ASSUME ~(p + 1 <= q) PROVE FALSE
  BY DEF p, q
<1>4. q <= p
  BY <1>1, <1>2, <1>3, SMTT(30)
<1>5. q * b <= p * b /\ q * b \in Nat /\ p * b \in Nat
  BY <1>1, <1>2, <1>4, TimesMonotone
<1> DEFINE x == p * b
           y == q * b
<1>6. x \in Nat /\ y \in Nat /\ y <= x /\ x <= a /\ a + d < y + b
  BY <1>1, <1>2, <1>5
<1> HIDE DEF x, y
<1> QED
  BY <1>6, SMTT(30)

LEMMA ChecksType ==
  ASSUME NEW c \in Nat, NEW i \in Nat \ {0}, NEW u \in Nat
  PROVE  ChecksIn(c, i, u) \in Nat /\ ChecksIn(c, i, u) >= 1
<1>1. c + i - 1 \in Nat
  BY SMTT(30)
<1>2. u \div i \in Nat /\ (c + i - 1) \div i \in Nat
  BY <1>1, Division
<1> DEFINE p == u \div i
           q == (c + i - 1) \div i
<1>3. ChecksIn(c, i, u) = p + 1 \/ ChecksIn(c, i, u) = q + 1
  BY DEF ChecksIn
<1>4. p \in Nat /\ q \in Nat
  BY <1>2
<1> HIDE DEF p, q
<1> QED
  BY <1>3, <1>4, SMTT(30)

\* One more check follows a deferral.
LEMMA ChecksGrow ==
  ASSUME NEW c \in Nat, NEW i \in Nat \ {0}, NEW u \in Nat, NEW d \in Nat,
         u < c, u + d <= c, d >= i \/ u + d = c
  PROVE  ChecksIn(c, i, u) + 1 <= ChecksIn(c, i, u + d)
<1>1. ChecksIn(c, i, u) = u \div i + 1
  BY DEF ChecksIn
<1>2. u \div i \in Nat
  BY Division
<1>3. CASE u + d < c
  <2>1. d >= i
    BY <1>3, SMTT(30)
  <2>2. u \div i + 1 <= (u + d) \div i
    BY <2>1, DivisionGrows
  <2>3. ChecksIn(c, i, u + d) = (u + d) \div i + 1
    BY <1>3 DEF ChecksIn
  <2>4. u + d \in Nat
    BY SMTT(30)
  <2>5. (u + d) \div i \in Nat
    BY <2>4, Division
  <2> DEFINE p == u \div i
             q == (u + d) \div i
  <2>6. p \in Nat /\ q \in Nat /\ p + 1 <= q
    BY <1>2, <2>2, <2>5
  <2> HIDE DEF p, q
  <2>7. p + 1 + 1 <= q + 1
    BY <2>6, SMTT(30)
  <2> QED
    BY <1>1, <2>3, <2>7 DEF p, q
<1>4. CASE ~(u + d < c)
  <2> DEFINE e == c - 1 - u + i
  <2>1. e \in Nat /\ e >= i /\ u + e = c + i - 1
    BY SMTT(30)
  <2> HIDE DEF e
  <2>2. u \div i + 1 <= (u + e) \div i
    BY <2>1, DivisionGrows
  <2>3. ChecksIn(c, i, u + d) = (u + e) \div i + 1
    BY <1>4, <2>1 DEF ChecksIn
  <2>4. u + e \in Nat
    BY <2>1, SMTT(30)
  <2>5. (u + e) \div i \in Nat
    BY <2>4, Division
  <2> DEFINE p == u \div i
             q == (u + e) \div i
  <2>6. p \in Nat /\ q \in Nat /\ p + 1 <= q
    BY <1>2, <2>2, <2>5
  <2> HIDE DEF p, q
  <2>7. p + 1 + 1 <= q + 1
    BY <2>6, SMTT(30)
  <2> QED
    BY <1>1, <2>3, <2>7 DEF p, q
<1> QED
  BY <1>3, <1>4

LEMMA ChecksMost ==
  ASSUME NEW c \in Nat, NEW i \in Nat \ {0}, NEW u \in Nat, u <= c
  PROVE  ChecksIn(c, i, u) <= (c + i - 1) \div i + 1
<1>1. (c + i - 1) \div i + 1 = ChecksIn(c, i, c)
  BY SMTT(30) DEF ChecksIn
<1>2. ChecksIn(c, i, u) \in Nat /\ ChecksIn(c, i, c) \in Nat
  BY ChecksType
<1> DEFINE d == c - u
<1>3. d \in Nat /\ u + d = c
  BY SMTT(30)
<1> HIDE DEF d
<1>4. CASE u < c
  <2>1. ChecksIn(c, i, u) + 1 <= ChecksIn(c, i, u + d)
    BY <1>3, <1>4, ChecksGrow, SMTT(30)
  <2> DEFINE p == ChecksIn(c, i, u)
             q == ChecksIn(c, i, c)
  <2>2. p \in Nat /\ q \in Nat /\ p + 1 <= q
    BY <1>2, <1>3, <2>1
  <2> HIDE DEF p, q
  <2>3. p <= q
    BY <2>2, SMTT(30)
  <2> QED
    BY <1>1, <2>3 DEF p, q
<1>5. CASE u = c
  BY <1>1, <1>2, <1>5, SMTT(30)
<1> QED
  BY <1>4, <1>5, SMTT(30)

LEMMA Numbers ==
  ASSUME TypeInv
  PROVE  /\ interval \in Nat /\ cap \in Nat /\ used \in Nat /\ since \in Nat
         /\ timer \in Nat /\ delay \in Nat
         /\ Jitter \in Nat /\ Grace \in Nat /\ CheckTime \in Nat /\ AuthTime \in Nat
BY ReauthConstants, SMTT(30) DEF TypeInv

\* The checks of a round: one at least, and no more than MaxChecks.
LEMMA SpentBounds ==
  ASSUME TypeInv, interval > 0, used <= cap
  PROVE  /\ Spent \in Nat /\ Maintenance \in Nat
         /\ CheckTime <= Spent
         /\ uri => cap + Spent <= Maintenance
<1> DEFINE n == ChecksIn(cap, interval, used)
           most == MaxChecks * CheckTime
<1>1. interval \in Nat \ {0} /\ cap \in Nat /\ used \in Nat /\ CheckTime \in Nat
  BY Numbers, SMTT(30)
<1>2. n \in Nat /\ n >= 1
  BY <1>1, ChecksType
<1>3. n <= MaxChecks
  BY <1>1, ChecksMost DEF MaxChecks
<1>4. MaxChecks \in Nat
  <2>1. cap + interval - 1 \in Nat
    BY <1>1, SMTT(30)
  <2>2. (cap + interval - 1) \div interval \in Nat
    BY <1>1, <2>1, Division
  <2> DEFINE q == (cap + interval - 1) \div interval
  <2>3. q \in Nat
    BY <2>2
  <2> HIDE DEF q
  <2>4. q + 1 \in Nat
    BY <2>3, SMTT(30)
  <2> QED
    BY <2>4 DEF q, MaxChecks
<1>5. Spent = n * CheckTime
  BY DEF Spent
<1> HIDE DEF n
<1>6. Spent \in Nat /\ most \in Nat /\ Spent <= most
  BY <1>1, <1>2, <1>3, <1>4, <1>5, TimesMonotone
<1>7. CheckTime <= Spent
  <2>1. 1 * CheckTime <= n * CheckTime
    BY <1>1, <1>2, TimesMonotone, SMTT(30)
  <2>2. 1 * CheckTime = CheckTime
    BY <1>1, SMTT(30)
  <2> QED
    BY <1>5, <2>1, <2>2
<1>8. Maintenance = IF uri THEN cap + most ELSE 0
  BY DEF Maintenance
<1> HIDE DEF most
<1>9. cap + most \in Nat /\ cap + Spent <= cap + most
  BY <1>1, <1>6, SMTT(30)
<1> QED
  BY <1>6, <1>7, <1>8, <1>9

\* A deferral pays for the check that follows it.
LEMMA SpentGrows ==
  ASSUME TypeInv, TimeInv, interval > 0, DeferOver
  PROVE  Spent' \in Nat /\ Spent + CheckTime <= Spent'
<1>1. interval \in Nat \ {0} /\ cap \in Nat /\ used \in Nat /\ CheckTime \in Nat
      /\ delay \in Nat
  BY Numbers, SMTT(30)
<1>2. /\ used < cap /\ used + delay <= cap
      /\ delay >= interval \/ used + delay = cap
  BY DEF TimeInv, DeferOver
<1>3. UNCHANGED <<cap, interval>> /\ used' = used + delay
  BY DEF DeferOver, sessionVars
<1> DEFINE m == ChecksIn(cap, interval, used)
           n == ChecksIn(cap, interval, used + delay)
<1>4. m + 1 <= n
  BY <1>1, <1>2, ChecksGrow
<1>5. used + delay \in Nat
  BY <1>1, SMTT(30)
<1>6. m \in Nat /\ n \in Nat
  BY <1>1, <1>5, ChecksType
<1>7. Spent = m * CheckTime /\ Spent' = n * CheckTime
  BY <1>3 DEF Spent
<1> HIDE DEF m, n
<1>8. m + 1 \in Nat
  BY <1>6, SMTT(30)
<1>9. n * CheckTime \in Nat /\ (m + 1) * CheckTime <= n * CheckTime
  BY <1>1, <1>4, <1>6, <1>8, TimesMonotone
<1>10. (m + 1) * CheckTime = m * CheckTime + CheckTime
  BY <1>1, <1>6, TimesNext
<1> QED
  BY <1>7, <1>9, <1>10

\* The control points of reauthLoop and the ticks spent at them.
LEMMA TimeStep ==
  ASSUME TypeInv, TypeInv', TimeInv, Next
  PROVE  TimeInv'
<1>a. /\ interval \in Nat /\ cap \in Nat /\ used \in Nat /\ since \in Nat
      /\ timer \in Nat /\ delay \in Nat
      /\ Jitter \in Nat /\ Grace \in Nat /\ CheckTime \in Nat /\ AuthTime \in Nat
  BY Numbers
<1>b. interval > 0 => /\ Spent \in Nat /\ Maintenance \in Nat /\ CheckTime <= Spent
                      /\ uri => cap + Spent <= Maintenance
  BY SpentBounds DEF TimeInv
<1>c. Base \in Nat
  BY <1>a, SMTT(30) DEF Base
<1>d. ASSUME UNCHANGED <<interval, cap, uri>>
      PROVE  /\ Base' = Base /\ Maintenance' = Maintenance
             /\ used' = used => Spent' = Spent
  BY <1>d DEF Base, Maintenance, MaxChecks, Spent
<1>e. ASSUME UNCHANGED loopVars PROVE TimeInv'
  BY <1>d, <1>e DEF TimeInv, loopVars
<1>1. CASE TimerFires
  <2>1. UNCHANGED <<interval, cap, uri, used, since>> /\ pc = "rest" /\ timer = 0
    BY <1>1 DEF TimerFires, sessionVars
  <2>2. CASE uri
    <3>1. pc' = "health" /\ timer' = CheckTime
      BY <1>1, <2>2 DEF TimerFires, AskAuthorizer
    <3> QED
      BY <1>a, <1>b, <1>c, <1>d, <2>1, <2>2, <3>1, SMTT(30) DEF TimeInv
  <2>3. CASE ~uri
    <3>1. pc' = "nonce"
      BY <1>1, <2>3 DEF TimerFires
    <3> QED
      BY <1>a, <1>b, <1>c, <1>d, <2>1, <3>1, SMTT(30) DEF TimeInv
  <2> QED
    BY <2>2, <2>3
<1>2. CASE RestQuits
  BY <1>2, <1>d DEF RestQuits, TimeInv, sessionVars
<1>4. CASE Healthy
  <2>1. UNCHANGED <<interval, cap, uri, since>> /\ pc = "health" /\ pc' = "nonce" /\ used' = 0
    BY <1>4 DEF Healthy, sessionVars
  <2> QED
    BY <1>a, <1>b, <1>c, <1>d, <2>1, SMTT(30) DEF TimeInv
<1>5. CASE deferForMaintenance
  <2>0. UNCHANGED <<interval, cap, uri, used, since>> /\ pc = "health"
    BY <1>5 DEF deferForMaintenance, sessionVars
  <2>1. CASE cap - used > 0
    <3>1. /\ delay' \in Nat /\ timer' = delay' /\ used + delay' <= cap /\ pc' = "defer"
          /\ delay' >= interval \/ used + delay' = cap
      BY <1>5, <2>1, DeferFits
    <3>2. ASSUME interval > 0
          PROVE  uri /\ since + delay' <= Base + used + delay' + Spent /\ used < cap
      BY <1>a, <1>b, <1>c, <2>0, <2>1, <3>1, <3>2, SMTT(30) DEF TimeInv
    <3>3. interval > 0 => used <= cap
      BY DEF TimeInv
    <3>4. UNCHANGED <<Base, Spent>>
      BY <1>d, <2>0
    <3> QED
      BY <2>0, <3>1, <3>2, <3>3, <3>4 DEF TimeInv
  <2>2. CASE ~(cap - used > 0)
    <3>1. pc' = "nonce"
      BY <1>5, <2>2, CapSpent
    <3> QED
      BY <1>a, <1>b, <1>c, <1>d, <2>0, <3>1, SMTT(30) DEF TimeInv
  <2> QED
    BY <2>1, <2>2
<1>6. CASE DeferOver
  <2>1. /\ UNCHANGED <<interval, cap, uri, since>> /\ pc = "defer" /\ timer = 0
        /\ pc' = "health" /\ timer' = CheckTime /\ used' = used + delay
    BY <1>6 DEF DeferOver, AskAuthorizer, sessionVars
  <2>2. interval > 0 => Spent' \in Nat /\ Spent + CheckTime <= Spent'
    BY <1>6, SpentGrows
  <2>3. Base' = Base
    BY <1>d, <2>1
  <2> QED
    BY <1>a, <1>b, <1>c, <2>1, <2>2, <2>3, SMTT(30) DEF TimeInv
<1>7. CASE DeferQuits
  <2>1. UNCHANGED <<interval, cap, uri, used, since>> /\ pc = "defer" /\ pc' = "nonce"
    BY <1>7 DEF DeferQuits, sessionVars
  <2> QED
    BY <1>a, <1>b, <1>c, <1>d, <2>1, SMTT(30) DEF TimeInv
<1>8. CASE prepareForNonce
  BY <1>8, <1>d DEF prepareForNonce, TimeInv, sessionVars
<1>9. CASE QueueFails
  BY <1>9, <1>d DEF QueueFails, TimeInv, sessionVars
<1>10. CASE WaitFails
  BY <1>10, <1>d DEF WaitFails, TimeInv, sessionVars
<1>11. CASE TokenRejected
  BY <1>11, <1>d DEF TokenRejected, TimeInv, sessionVars
<1>12. CASE QueueChallenge
  BY <1>12, <1>d DEF QueueChallenge, TimeInv, sessionVars
<1>13. CASE DrainStale
  <2>1. /\ UNCHANGED <<interval, cap, uri, used, since>> /\ pc = "drain" /\ pc' = "wait"
        /\ timer' = Grace
    BY <1>13 DEF DrainStale, sessionVars
  <2> QED
    BY <1>a, <1>b, <1>c, <1>d, <2>1, SMTT(30) DEF TimeInv
<1>14. CASE TakeToken
  <2>1. /\ UNCHANGED <<interval, cap, uri, used, since>> /\ pc = "wait" /\ pc' = "apply"
        /\ timer' = AuthTime
    BY <1>14 DEF TakeToken, sessionVars
  <2> QED
    BY <1>a, <1>b, <1>c, <1>d, <2>1, SMTT(30) DEF TimeInv
<1>15. CASE applyClaims
  <2>1. used' = 0 /\ since' = 0 /\ interval' \in Nat /\ cap' \in Nat
    BY <1>15, ReauthConstants, SMTT(30) DEF applyClaims
  <2>2. pc' = "gone" \/ (pc' = "rest" /\ timer' \in Jittered(interval'))
    BY <1>15 DEF applyClaims
  <2>3. pc' = "rest" => since' + timer' <= interval' + Jitter
    BY <1>a, <2>1, <2>2, SMTT(30) DEF Jittered
  <2>4. used' <= cap'
    BY <2>1, SMTT(30)
  <2> QED
    BY <2>1, <2>2, <2>3, <2>4 DEF TimeInv, Base
<1>16. CASE PolicyFrame
  BY <1>16, <1>d DEF PolicyFrame, TimeInv, failElse, sessionVars
<1>17. CASE PolicyUnlock
  BY <1>17, <1>d DEF PolicyUnlock, TimeInv, failElse, sessionVars
<1>18. CASE PolicyClose
  BY <1>18, <1>d DEF PolicyClose, TimeInv, failElse, sessionVars
<1>19. CASE writePump \/ TakeData
  BY <1>19, <1>e DEF writePump, WriteQuits, TakeControl, TakeData, WriteLock, WriteFails,
       WriteFrame, WriteExit, writeElse
<1>20. CASE readPump
  BY <1>20, <1>e DEF readPump, ReadText, PushToken, ReadFails, readElse
<1>21. CASE BackendReads \/ BackendAnswers \/ BackendLeaves
  BY <1>21, <1>e DEF BackendReads, BackendAnswers, BackendLeaves, devElse
<1>22. CASE Tick
  <2>1. /\ UNCHANGED <<interval, cap, uri, used, pc, delay>> /\ timer > 0
        /\ timer' = timer - 1 /\ since' = since + 1
        /\ pc \in {"rest", "health", "defer", "wait", "apply"}
    BY <1>22 DEF Tick
  <2>2. since' + timer' = since + timer
    BY <1>a, <2>1, SMTT(30)
  <2> QED
    BY <1>d, <2>1, <2>2 DEF TimeInv
<1> QED
  BY <1>1, <1>2, <1>4, <1>5, <1>6, <1>7, <1>8, <1>9, <1>10, <1>11, <1>12, <1>13, <1>14, <1>15,
       <1>16, <1>17, <1>18, <1>19, <1>20, <1>21, <1>22 DEF Next, reauthLoop, performReauth,
       sendPolicyClose

-----------------------------------------------------------------------------
LEMMA SeqShift ==
  ASSUME NEW S, NEW s \in Seq(S), NEW x \in S
  PROVE  /\ Len(s) \in Nat /\ Len(Append(s, x)) = Len(s) + 1
         /\ \A i \in 1 .. Len(s) : Append(s, x)[i] = s[i]
         /\ Append(s, x)[Len(s) + 1] = x
         /\ s # <<>> => /\ Len(s) # 0 /\ Len(Tail(s)) = Len(s) - 1 /\ Head(s) = s[1]
                        /\ \A i \in 1 .. Len(Tail(s)) : Tail(s)[i] = s[i + 1]
BY SMTT(30)

\* connWriteMu and the 1008 frame.
LEMMA CloseStep ==
  ASSUME TypeInv, CloseInv, Next
  PROVE  CloseInv'
<1>0. ASSUME out' = out
      PROVE  (Shown' <=> Shown) /\ (NoFrameAfterClose' <=> NoFrameAfterClose)
  BY <1>0 DEF Shown, NoFrameAfterClose
<1>1. CASE TimerFires
  BY <1>1, <1>0 DEF TimerFires, AskAuthorizer, CloseInv, loopElse, sessionVars, writeVars,
       readVars, devVars
<1>2. CASE RestQuits
  BY <1>2, <1>0 DEF RestQuits, CloseInv, loopElse, sessionVars, writeVars, readVars, devVars
<1>4. CASE Healthy
  BY <1>4, <1>0 DEF Healthy, CloseInv, loopElse, sessionVars, writeVars, readVars, devVars
<1>5. CASE deferForMaintenance
  BY <1>5, <1>0 DEF deferForMaintenance, CloseInv, loopElse, sessionVars, writeVars, readVars,
       devVars
<1>6. CASE DeferOver
  BY <1>6, <1>0 DEF DeferOver, AskAuthorizer, CloseInv, loopElse, sessionVars, writeVars,
       readVars, devVars
<1>7. CASE DeferQuits
  BY <1>7, <1>0 DEF DeferQuits, CloseInv, loopElse, sessionVars, writeVars, readVars, devVars
<1>8. CASE prepareForNonce
  BY <1>8, <1>0 DEF prepareForNonce, CloseInv, loopElse, sessionVars, writeVars, readVars,
       devVars
<1>9. CASE QueueFails
  BY <1>9, <1>0 DEF QueueFails, CloseInv, loopElse, sessionVars, writeVars, readVars, devVars
<1>10. CASE WaitFails
  BY <1>10, <1>0 DEF WaitFails, CloseInv, loopElse, sessionVars, writeVars, readVars, devVars
<1>11. CASE TokenRejected
  BY <1>11, <1>0 DEF TokenRejected, CloseInv, loopElse, sessionVars, writeVars, readVars,
       devVars
<1>12. CASE QueueChallenge
  BY <1>12, <1>0 DEF QueueChallenge, CloseInv, sessionVars, writeVars, readVars, devVars
<1>13. CASE DrainStale
  BY <1>13, <1>0 DEF DrainStale, CloseInv, sessionVars, writeVars, readVars, devVars
<1>14. CASE TakeToken
  BY <1>14, <1>0 DEF TakeToken, CloseInv, sessionVars, writeVars, readVars, devVars
<1>15. CASE applyClaims
  BY <1>15, <1>0 DEF applyClaims, CloseInv, sessionVars, writeVars, readVars, devVars
<1>16. CASE PolicyFrame
  <2>1. ~Shown /\ pc = "fail" /\ mu = "free"
    BY <1>16 DEF PolicyFrame, CloseInv
  <2>2. out' = out \/ out' = Append(out, CloseFrame)
    BY <1>16 DEF PolicyFrame, Written
  <2>3. NoFrameAfterClose'
    <3>1. CASE out' = out
      BY <1>0, <3>1 DEF CloseInv
    <3>2. CASE out' = Append(out, CloseFrame)
      <4>1. out \in Seq(Nat \cup {CloseFrame}) /\ CloseFrame \in Nat \cup {CloseFrame}
        BY DEF TypeInv
      <4>2. /\ Len(out) \in Nat /\ Len(out') = Len(out) + 1
            /\ \A i \in 1 .. Len(out) : out'[i] = out[i]
        BY <3>2, <4>1, SeqShift, SMTT(30)
      <4>3. SUFFICES ASSUME NEW i \in 1 .. Len(out'), out'[i] = CloseFrame
                     PROVE  i = Len(out')
        BY DEF NoFrameAfterClose
      <4> QED
        BY <2>1, <4>2, <4>3, SMTT(30) DEF Shown
    <3> QED
      BY <2>2, <3>1, <3>2
  <2> QED
    BY <1>16, <2>1, <2>3 DEF PolicyFrame, CloseInv, failElse, Close, sessionVars, writeVars,
         readVars, devVars
<1>17. CASE PolicyUnlock
  BY <1>17, <1>0 DEF PolicyUnlock, CloseInv, failElse, Close, sessionVars, writeVars,
       readVars, devVars
<1>18. CASE PolicyClose
  BY <1>18, <1>0 DEF PolicyClose, CloseInv, failElse, Close, sessionVars, writeVars, readVars,
       devVars
<1>19. CASE WriteQuits
  BY <1>19, <1>0 DEF WriteQuits, CloseInv, writeElse, Close, loopVars, readVars, devVars
<1>20. CASE TakeControl
  BY <1>20, <1>0 DEF TakeControl, CloseInv, writeElse, Close, loopVars, readVars, devVars
<1>21. CASE TakeData
  BY <1>21, <1>0 DEF TakeData, CloseInv, writeElse, Close, loopVars, readVars, devVars
<1>22. CASE WriteLock
  BY <1>22, <1>0 DEF WriteLock, CloseInv, writeElse, Close, loopVars, readVars, devVars
<1>23. CASE WriteFails
  BY <1>23, <1>0 DEF WriteFails, CloseInv, writeElse, Close, loopVars, readVars, devVars
<1>24. CASE WriteFrame
  <2>1. ~Shown /\ ~closed
    BY <1>24 DEF WriteFrame, CloseInv
  <2>2. out' = out \/ out' = Append(out, wmsg)
    BY <1>24 DEF WriteFrame, Written
  <2>3. ~Shown'
    <3>1. CASE out' = out
      BY <1>0, <2>1, <3>1
    <3>2. CASE out' = Append(out, wmsg)
      <4>1. out \in Seq(Nat \cup {CloseFrame}) /\ wmsg \in Nat \cup {CloseFrame} /\ wmsg \in
           Nat
        BY DEF TypeInv
      <4>2. /\ Len(out) \in Nat /\ Len(out') = Len(out) + 1
            /\ \A i \in 1 .. Len(out) : out'[i] = out[i]
            /\ out'[Len(out) + 1] = wmsg
        BY <3>2, <4>1, SeqShift, SMTT(30)
      <4>3. wmsg # CloseFrame
        BY <4>1, SMTT(30) DEF CloseFrame
      <4> QED
        BY <2>1, <4>2, <4>3, SMTT(30) DEF Shown
    <3> QED
      BY <2>2, <3>1, <3>2
  <2>4. NoFrameAfterClose'
    BY <2>3 DEF Shown, NoFrameAfterClose
  <2>5. UNCHANGED pc
    BY <1>24 DEF WriteFrame, writeElse, loopVars
  <2>6. mu' = "free" /\ wpc' # "write" /\ mu = "write"
    BY <1>24 DEF WriteFrame, CloseInv
  <2> QED
    BY <2>3, <2>4, <2>5, <2>6 DEF CloseInv
<1>25. CASE WriteExit
  BY <1>25, <1>0 DEF WriteExit, CloseInv, writeElse, Close, loopVars, readVars, devVars
<1>26. CASE ReadText
  BY <1>26, <1>0 DEF ReadText, CloseInv, readElse, Close, loopVars, writeVars
<1>27. CASE PushToken
  BY <1>27, <1>0 DEF PushToken, CloseInv, readElse, Close, loopVars, writeVars
<1>28. CASE ReadFails
  BY <1>28, <1>0 DEF ReadFails, CloseInv, readElse, Close, loopVars, writeVars
<1>29. CASE BackendReads
  <2>1. out \in Seq(Nat \cup {CloseFrame}) /\ out # <<>> /\ out' = Tail(out)
    BY <1>29 DEF BackendReads, TypeInv
  <2>2. CloseFrame \in Nat \cup {CloseFrame}
    OBVIOUS
  <2>3. /\ Len(out) \in Nat /\ Len(out) # 0 /\ Len(out') = Len(out) - 1
        /\ \A i \in 1 .. Len(out') : out'[i] = out[i + 1]
    BY <2>1, <2>2, SeqShift
  <2>4. Shown' => Shown
    BY <2>3, SMTT(30) DEF Shown
  <2>5. NoFrameAfterClose'
    <3>1. SUFFICES ASSUME NEW i \in 1 .. Len(out'), out'[i] = CloseFrame
                   PROVE  i = Len(out')
      BY DEF NoFrameAfterClose
    <3>2. i + 1 \in 1 .. Len(out) /\ out[i + 1] = CloseFrame
      BY <2>3, <3>1, SMTT(30)
    <3>3. i + 1 = Len(out)
      BY <3>2 DEF CloseInv, NoFrameAfterClose
    <3> QED
      BY <2>3, <3>3, SMTT(30)
  <2> QED
    BY <1>29, <2>4, <2>5 DEF BackendReads, CloseInv, devElse, loopVars, writeVars, readVars
<1>30. CASE BackendAnswers
  BY <1>30, <1>0 DEF BackendAnswers, CloseInv, devElse, loopVars, writeVars, readVars
<1>31. CASE BackendLeaves
  BY <1>31, <1>0 DEF BackendLeaves, CloseInv, devElse, loopVars, writeVars, readVars
<1>32. CASE Tick
  BY <1>32, <1>0 DEF Tick, CloseInv, writeVars, readVars, devVars
<1> QED
  BY <1>1, <1>2, <1>4, <1>5, <1>6, <1>7, <1>8, <1>9, <1>10, <1>11, <1>12, <1>13, <1>14,
       <1>15, <1>16, <1>17, <1>18, <1>19, <1>20, <1>21, <1>22, <1>23, <1>24, <1>25, <1>26,
            <1>27, <1>28, <1>29, <1>30, <1>31, <1>32 DEF Next, reauthLoop, performReauth,
                 sendPolicyClose, writePump, readPump

-----------------------------------------------------------------------------
\* The way of a challenge to the backend and of its answers back.
LEMMA FreshStep ==
  ASSUME TypeInv, FreshInv, Next
  PROVE  FreshInv'
<1>a. nonce \in Nat /\ dev \in Nat /\ got \in Nat /\ tokens \in Nat /\ rtok \in Nat
      /\ wmsg \in Nat
  BY DEF TypeInv
<1>b. /\ ctl' = ctl => InLane' = InLane
      /\ UNCHANGED <<wpc, wmsg>> => (InHand' <=> InHand)
      /\ out' = out => OnWire' = OnWire
  BY DEF InLane, InHand, OnWire
<1>c. wpc' \notin {"lock", "write"} => ~InHand'
  BY DEF InHand
<1>d. /\ Len(ctl) \in Nat /\ Len(out) \in Nat /\ Len(inn) \in Nat
      /\ ctl \in Seq(Nat) /\ inn \in Seq(Nat) /\ out \in Seq(Nat \cup {CloseFrame})
  BY SMTT(30) DEF TypeInv
<1>1. CASE TimerFires
  BY <1>1, <1>a, <1>b, <1>c DEF TimerFires, AskAuthorizer, FreshInv, loopElse, sessionVars,
       writeVars,
       readVars, devVars
<1>2. CASE RestQuits
  BY <1>2, <1>a, <1>b, <1>c DEF RestQuits, FreshInv, loopElse, sessionVars, writeVars,
       readVars, devVars
<1>4. CASE Healthy
  BY <1>4, <1>a, <1>b, <1>c DEF Healthy, FreshInv, loopElse, sessionVars, writeVars, readVars,
       devVars
<1>5. CASE deferForMaintenance
  BY <1>5, <1>a, <1>b, <1>c DEF deferForMaintenance, FreshInv, loopElse, sessionVars,
       writeVars, readVars, devVars
<1>6. CASE DeferOver
  BY <1>6, <1>a, <1>b, <1>c DEF DeferOver, AskAuthorizer, FreshInv, loopElse, sessionVars,
       writeVars,
       readVars, devVars
<1>7. CASE DeferQuits
  BY <1>7, <1>a, <1>b, <1>c DEF DeferQuits, FreshInv, loopElse, sessionVars, writeVars,
       readVars, devVars
<1>8. CASE prepareForNonce
  BY <1>8, <1>a, <1>b, <1>c, SMTT(30) DEF prepareForNonce, FreshInv, loopElse, sessionVars,
     writeVars,
       readVars, devVars
<1>9. CASE QueueFails
  BY <1>9, <1>a, <1>b, <1>c DEF QueueFails, FreshInv, loopElse, sessionVars, writeVars,
       readVars, devVars
<1>10. CASE WaitFails
  BY <1>10, <1>a, <1>b, <1>c DEF WaitFails, FreshInv, loopElse, sessionVars, writeVars,
       readVars, devVars
<1>11. CASE TokenRejected
  BY <1>11, <1>a, <1>b, <1>c DEF TokenRejected, FreshInv, loopElse, sessionVars, writeVars,
       readVars, devVars
<1>12. CASE QueueChallenge
  <2>1. /\ ctl' = Append(ctl, nonce)
        /\ UNCHANGED <<wpc, wmsg, out, inn, dev, nonce, got, tokens, rtok>>
    BY <1>12 DEF QueueChallenge, sessionVars, writeVars, readVars, devVars
  <2>2. InLane = {} /\ ~InHand /\ OnWire = {} /\ dev < nonce
    BY <1>12 DEF QueueChallenge, FreshInv
  <2>3. /\ Len(ctl') = Len(ctl) + 1 /\ \A i \in 1 .. Len(ctl) : ctl'[i] = ctl[i]
        /\ ctl'[Len(ctl) + 1] = nonce
    BY <1>a, <1>d, <2>1, SeqShift, SMTT(30)
  <2>4. \A i \in InLane' : i = Len(ctl) + 1
    <3>1. SUFFICES ASSUME NEW i \in InLane', i # Len(ctl) + 1 PROVE FALSE
      OBVIOUS
    <3>2. i \in 1 .. Len(ctl) /\ ctl'[i] = ctl[i]
      BY <1>d, <2>3, <3>1, SMTT(30) DEF InLane
    <3>3. i \in InLane
      BY <3>1, <3>2 DEF InLane
    <3> QED
      BY <2>2, <3>3
  <2>5. \A i \in InLane' : ctl'[i] = nonce'
    BY <2>1, <2>3, <2>4
  <2>6. pc' = "drain" /\ ~InHand' /\ OnWire' = {} /\ dev' < nonce'
    BY <1>12, <1>b, <2>1, <2>2 DEF QueueChallenge
  <2> QED
    BY <1>a, <2>1, <2>4, <2>5, <2>6, SMTT(30) DEF FreshInv
<1>13. CASE DrainStale
  BY <1>13, <1>a, <1>b, <1>c, SMTT(30) DEF DrainStale, FreshInv, sessionVars, writeVars,
     readVars,
       devVars
<1>14. CASE TakeToken
  BY <1>14, <1>a, <1>b, <1>c, SMTT(30) DEF TakeToken, FreshInv, sessionVars, writeVars,
     readVars, devVars
<1>15. CASE applyClaims
  <2>1. UNCHANGED <<wpc, wmsg, out, inn, dev, nonce, got, tokens, rtok>> /\ got = nonce
    BY <1>15 DEF applyClaims, sessionVars, writeVars, readVars, devVars
  <2>2. dev = nonce
    BY <1>a, <2>1, SMTT(30) DEF FreshInv
  <2>3. InLane = {} /\ ~InHand' /\ OnWire' = {}
    BY <1>b, <2>1, <2>2 DEF FreshInv
  <2>4. InLane' = {}
    <3>1. CASE ctl' = ctl
      BY <1>b, <2>3, <3>1
    <3>2. CASE ctl' = Append(ctl, 0)
      <4>1. /\ Len(ctl') = Len(ctl) + 1 /\ \A i \in 1 .. Len(ctl) : ctl'[i] = ctl[i]
            /\ ctl'[Len(ctl) + 1] = 0
        BY <1>d, <3>2, SeqShift, SMTT(30)
      <4>2. SUFFICES ASSUME NEW i \in InLane' PROVE FALSE
        OBVIOUS
      <4>3. i \in 1 .. Len(ctl) /\ ctl'[i] = ctl[i]
        BY <1>d, <4>1, <4>2, SMTT(30) DEF InLane
      <4>4. i \in InLane
        BY <4>2, <4>3 DEF InLane
      <4> QED
        BY <2>3, <4>4
    <3> QED
      BY <1>15, <3>1, <3>2 DEF applyClaims
  <2>5. pc' \in {"gone", "rest"}
    BY <1>15 DEF applyClaims
  <2> QED
    BY <1>a, <2>1, <2>2, <2>3, <2>4, <2>5 DEF FreshInv
<1>16. CASE PolicyFrame
  <2>1. UNCHANGED <<ctl, wpc, wmsg, inn, dev, nonce, got, tokens, rtok>> /\ pc' = "unlock"
    BY <1>16 DEF PolicyFrame, failElse, Close, sessionVars, writeVars, readVars, devVars
  <2>2. OnWire' = OnWire /\ \A i \in OnWire : out'[i] = out[i]
    <3>1. CASE out' = out
      BY <1>b, <3>1
    <3>2. CASE out' = Append(out, CloseFrame)
      <4>1. CloseFrame \in Nat \cup {CloseFrame}
        OBVIOUS
      <4>2. /\ Len(out') = Len(out) + 1 /\ \A i \in 1 .. Len(out) : out'[i] = out[i]
            /\ out'[Len(out) + 1] = CloseFrame
        BY <1>d, <3>2, <4>1, SeqShift, SMTT(30)
      <4> QED
        BY <1>d, <4>2, SMTT(30) DEF OnWire
    <3> QED
      BY <1>16, <3>1, <3>2 DEF PolicyFrame, Written
  <2> QED
    BY <1>b, <2>1, <2>2 DEF FreshInv
<1>17. CASE PolicyUnlock
  BY <1>17, <1>a, <1>b, <1>c DEF PolicyUnlock, FreshInv, failElse, Close, sessionVars,
       writeVars, readVars, devVars
<1>18. CASE PolicyClose
  BY <1>18, <1>a, <1>b, <1>c DEF PolicyClose, FreshInv, failElse, Close, sessionVars,
       writeVars, readVars, devVars
<1>19. CASE WriteQuits
  BY <1>19, <1>a, <1>b, <1>c DEF WriteQuits, FreshInv, writeElse, Close, loopVars, readVars,
       devVars
<1>20. CASE TakeControl
  <2>1. /\ ctl # <<>> /\ ctl' = Tail(ctl) /\ wmsg' = Head(ctl) /\ wpc = "select"
        /\ UNCHANGED <<out, inn, dev, nonce, got, tokens, rtok, pc>>
    BY <1>20 DEF TakeControl, writeElse, Close, loopVars, readVars, devVars
  <2>2. /\ Len(ctl) # 0 /\ Len(ctl') = Len(ctl) - 1 /\ Head(ctl) = ctl[1]
        /\ \A i \in 1 .. Len(ctl') : ctl'[i] = ctl[i + 1]
    BY <1>a, <1>d, <2>1, SeqShift
  <2>3. \A i \in InLane' : i + 1 \in InLane /\ i \in Nat /\ i # 0 /\ ctl'[i] = ctl[i + 1]
    BY <1>d, <2>2, SMTT(30) DEF InLane
  <2>4. InHand' => 1 \in InLane /\ wmsg' = ctl[1]
    BY <1>d, <2>1, <2>2, SMTT(30) DEF InLane, InHand
  <2>5. InHand' => InLane' = {}
    <3>1. SUFFICES ASSUME InHand', NEW i \in InLane' PROVE FALSE
      OBVIOUS
    <3>2. i + 1 = 1
      BY <2>3, <2>4, <3>1 DEF FreshInv
    <3> QED
      BY <2>3, <3>2, SMTT(30)
  <2>6. \A i, j \in InLane' : i = j
    <3>1. SUFFICES ASSUME NEW i \in InLane', NEW j \in InLane' PROVE i = j
      OBVIOUS
    <3>2. i + 1 = j + 1
      BY <2>3 DEF FreshInv
    <3> QED
      BY <2>3, <3>2, SMTT(30)
  <2>7. \A i \in InLane' : ctl'[i] = nonce'
    BY <2>1, <2>3 DEF FreshInv
  <2>8. InHand' => wmsg' = nonce'
    BY <2>1, <2>4 DEF FreshInv
  <2>9. InLane' # {} \/ InHand' => InLane # {}
    BY <2>3, <2>4
  <2>10. OnWire' = OnWire
    BY <1>b, <2>1
  <2> QED
    BY <2>1, <2>5, <2>6, <2>7, <2>8, <2>9, <2>10 DEF FreshInv
<1>21. CASE TakeData
  <2>1. ~InHand /\ ~InHand'
    BY <1>21 DEF TakeData, InHand
  <2> QED
    BY <1>b, <1>21, <2>1 DEF TakeData, FreshInv, writeElse, Close, loopVars, readVars, devVars
<1>22. CASE WriteLock
  <2>1. InHand' <=> InHand
    BY <1>22 DEF WriteLock, InHand
  <2> QED
    BY <1>b, <1>22, <2>1 DEF WriteLock, FreshInv, writeElse, Close, loopVars, readVars, devVars
<1>23. CASE WriteFails
  BY <1>23, <1>a, <1>b, <1>c DEF WriteFails, FreshInv, writeElse, Close, loopVars, readVars,
       devVars
<1>24. CASE WriteFrame
  <2>1. /\ wpc = "write" /\ wpc' \in {"select", "exit"}
        /\ UNCHANGED <<ctl, inn, dev, nonce, got, tokens, rtok, pc>>
    BY <1>24 DEF WriteFrame, writeElse, Close, loopVars, readVars, devVars
  <2>2. ~InHand' /\ InLane' = InLane
    BY <1>b, <1>c, <2>1
  <2>3. CASE out' = out
    BY <1>b, <2>1, <2>2, <2>3 DEF FreshInv
  <2>4. CASE out' = Append(out, wmsg)
    <3>1. wmsg \in Nat \cup {CloseFrame}
      BY <1>a
    <3>2. /\ Len(out') = Len(out) + 1 /\ \A i \in 1 .. Len(out) : out'[i] = out[i]
          /\ out'[Len(out) + 1] = wmsg
      BY <1>d, <2>4, <3>1, SeqShift, SMTT(30)
    <3>3. CASE wmsg = 0
      <4>1. OnWire' = OnWire /\ \A i \in OnWire : out'[i] = out[i]
        BY <1>d, <3>2, <3>3, SMTT(30) DEF OnWire
      <4> QED
        BY <2>1, <2>2, <4>1 DEF FreshInv
    <3>4. CASE wmsg # 0
      <4>1. InHand
        BY <2>1, <3>4 DEF InHand
      <4>2. OnWire = {} /\ InLane = {} /\ wmsg = nonce /\ dev # nonce /\ pc # "queue"
        BY <4>1 DEF FreshInv
      <4>3. \A i \in OnWire' : i = Len(out) + 1
        <5>1. SUFFICES ASSUME NEW i \in OnWire', i # Len(out) + 1 PROVE FALSE
          OBVIOUS
        <5>2. i \in 1 .. Len(out) /\ out'[i] = out[i]
          BY <1>d, <3>2, <5>1, SMTT(30) DEF OnWire
        <5>3. i \in OnWire
          BY <5>1, <5>2 DEF OnWire
        <5> QED
          BY <4>2, <5>3
      <4>4. \A i \in OnWire' : out'[i] = nonce'
        BY <2>1, <3>2, <4>2, <4>3
      <4> QED
        BY <2>1, <2>2, <4>2, <4>3, <4>4 DEF FreshInv
    <3> QED
      BY <3>3, <3>4
  <2> QED
    BY <1>24, <2>3, <2>4 DEF WriteFrame, Written
<1>25. CASE WriteExit
  BY <1>25, <1>a, <1>b, <1>c DEF WriteExit, FreshInv, writeElse, Close, loopVars, readVars,
       devVars
<1>26. CASE ReadText
  <2>1. /\ inn # <<>> /\ inn' = Tail(inn) /\ rtok' = Head(inn)
        /\ UNCHANGED <<ctl, wpc, wmsg, out, dev, nonce, got, tokens, pc>>
    BY <1>26 DEF ReadText, readElse, Close, loopVars, writeVars
  <2>2. /\ Len(inn) # 0 /\ Len(inn') = Len(inn) - 1 /\ Head(inn) = inn[1]
        /\ \A i \in 1 .. Len(inn') : inn'[i] = inn[i + 1]
    BY <1>a, <1>d, <2>1, SeqShift
  <2>3. rtok' <= dev'
    BY <1>d, <2>1, <2>2, SMTT(30) DEF FreshInv
  <2>4. \A i \in 1 .. Len(inn') : inn'[i] <= dev'
    <3>1. SUFFICES ASSUME NEW i \in 1 .. Len(inn') PROVE inn'[i] <= dev'
      OBVIOUS
    <3>2. i + 1 \in 1 .. Len(inn) /\ inn'[i] = inn[i + 1]
      BY <1>d, <2>2, SMTT(30)
    <3> QED
      BY <2>1, <3>2 DEF FreshInv
  <2> QED
    BY <1>b, <2>1, <2>3, <2>4 DEF FreshInv
<1>27. CASE PushToken
  BY <1>27, <1>a, <1>b, <1>c DEF PushToken, FreshInv, readElse, Close, loopVars, writeVars
<1>28. CASE ReadFails
  BY <1>28, <1>a, <1>b, <1>c DEF ReadFails, FreshInv, readElse, Close, loopVars, writeVars
<1>29. CASE BackendReads
  <2>1. /\ out # <<>> /\ Head(out) # CloseFrame /\ out' = Tail(out)
        /\ UNCHANGED <<ctl, wpc, wmsg, inn, nonce, got, tokens, rtok, pc>>
    BY <1>29 DEF BackendReads, devElse, loopVars, writeVars, readVars
  <2>2. CloseFrame \in Nat \cup {CloseFrame}
    OBVIOUS
  <2>3. /\ Len(out) # 0 /\ Len(out') = Len(out) - 1 /\ Head(out) = out[1]
        /\ \A i \in 1 .. Len(out') : out'[i] = out[i + 1]
    BY <1>d, <2>1, <2>2, SeqShift
  <2>4. \A i \in OnWire' : i + 1 \in OnWire /\ i \in Nat /\ i # 0 /\ out'[i] = out[i + 1]
    BY <1>d, <2>3, SMTT(30) DEF OnWire
  <2>5. \A i \in OnWire' : out'[i] = nonce'
    BY <2>1, <2>4 DEF FreshInv
  <2>6. \A i, j \in OnWire' : i = j
    <3>1. SUFFICES ASSUME NEW i \in OnWire', NEW j \in OnWire' PROVE i = j
      OBVIOUS
    <3>2. i + 1 = j + 1
      BY <2>4 DEF FreshInv
    <3> QED
      BY <2>4, <3>2, SMTT(30)
  <2>7. OnWire' # {} => OnWire # {}
    BY <2>4
  <2>8. InLane' = InLane /\ (InHand' <=> InHand)
    BY <1>b, <2>1
  <2>9. CASE Head(out) = 0
    <3>1. dev' = dev
      BY <1>29, <2>9 DEF BackendReads
    <3> QED
      BY <2>1, <2>5, <2>6, <2>7, <2>8, <3>1 DEF FreshInv
  <2>10. CASE Head(out) # 0
    <3>1. 1 \in OnWire
      BY <1>d, <2>1, <2>3, <2>10, SMTT(30) DEF OnWire
    <3>2. dev' = nonce /\ InLane = {} /\ ~InHand /\ pc # "queue"
      <4>1. dev' = out[1] /\ out[1] = nonce
        BY <1>29, <2>3, <2>10, <3>1 DEF BackendReads, FreshInv
      <4> QED
        BY <3>1, <4>1 DEF FreshInv
    <3>3. OnWire' = {}
      <4>1. SUFFICES ASSUME NEW i \in OnWire' PROVE FALSE
        OBVIOUS
      <4>2. i + 1 = 1
        BY <2>4, <3>1 DEF FreshInv
      <4> QED
        BY <2>4, <4>2, SMTT(30)
    <3>4. \A i \in 1 .. Len(inn) : inn[i] \in Nat
      BY <1>d, SMTT(30)
    <3>5. dev' <= nonce' /\ got' <= dev' /\ tokens' <= dev' /\ rtok' <= dev'
      BY <1>a, <2>1, <3>2, SMTT(30) DEF FreshInv
    <3>6. \A i \in 1 .. Len(inn') : inn'[i] <= dev'
      BY <1>a, <2>1, <3>2, <3>4, SMTT(30) DEF FreshInv
    <3> QED
      BY <2>1, <2>8, <3>2, <3>3, <3>5, <3>6 DEF FreshInv
  <2> QED
    BY <2>9, <2>10
<1>30. CASE BackendAnswers
  <2>1. /\ inn' = Append(inn, dev)
        /\ UNCHANGED <<ctl, wpc, wmsg, out, dev, nonce, got, tokens, rtok, pc>>
    BY <1>30 DEF BackendAnswers, devElse, loopVars, writeVars, readVars
  <2>2. /\ Len(inn') = Len(inn) + 1 /\ \A i \in 1 .. Len(inn) : inn'[i] = inn[i]
        /\ inn'[Len(inn) + 1] = dev
    BY <1>a, <1>d, <2>1, SeqShift, SMTT(30)
  <2>3. \A i \in 1 .. Len(inn') : inn'[i] <= dev'
    <3>1. SUFFICES ASSUME NEW i \in 1 .. Len(inn') PROVE inn'[i] <= dev'
      OBVIOUS
    <3>2. CASE i \in 1 .. Len(inn)
      BY <2>1, <2>2, <3>2 DEF FreshInv
    <3>3. CASE i = Len(inn) + 1
      BY <1>a, <2>1, <2>2, <3>3, SMTT(30)
    <3> QED
      BY <1>d, <2>2, <3>2, <3>3, SMTT(30)
  <2> QED
    BY <1>b, <2>1, <2>3 DEF FreshInv
<1>31. CASE BackendLeaves
  BY <1>31, <1>a, <1>b, <1>c DEF BackendLeaves, FreshInv, devElse, loopVars, writeVars,
       readVars
<1>32. CASE Tick
  BY <1>32, <1>a, <1>b, <1>c DEF Tick, FreshInv, writeVars, readVars, devVars
<1> QED
  BY <1>1, <1>2, <1>4, <1>5, <1>6, <1>7, <1>8, <1>9, <1>10, <1>11, <1>12, <1>13, <1>14,
       <1>15, <1>16, <1>17, <1>18, <1>19, <1>20, <1>21, <1>22, <1>23, <1>24, <1>25, <1>26,
            <1>27, <1>28, <1>29, <1>30, <1>31, <1>32 DEF Next, reauthLoop, performReauth,
                 sendPolicyClose, writePump, readPump

-----------------------------------------------------------------------------
LEMMA StutterInv == IInv /\ UNCHANGED vars => IInv'
<1> SUFFICES ASSUME IInv, UNCHANGED vars PROVE IInv'
  OBVIOUS
<1> USE DEF vars, loopVars, writeVars, readVars, devVars
<1>1. TypeInv'
  BY DEF IInv, TypeInv
<1>2. TimeInv'
  BY DEF IInv, TimeInv, Base, Spent, Maintenance, MaxChecks
<1>3. CloseInv'
  BY DEF IInv, CloseInv, Shown, NoFrameAfterClose
<1>4. FreshInv'
  <2>1. InLane' = InLane /\ (InHand' <=> InHand) /\ OnWire' = OnWire
    BY DEF InLane, InHand, OnWire
  <2> QED
    BY <2>1 DEF IInv, FreshInv
<1> QED
  BY <1>1, <1>2, <1>3, <1>4 DEF IInv

LEMMA NextInv == IInv /\ [Next]_vars => IInv'
<1>1. ASSUME IInv, Next PROVE IInv'
  <2>1. TypeInv'
    BY <1>1, TypeStep DEF IInv
  <2> QED
    BY <1>1, <2>1, TimeStep, CloseStep, FreshStep DEF IInv
<1> QED
  BY <1>1, StutterInv

\* The invariant of the three arguments holds in every reachable state.
THEOREM Invariance == Spec => []IInv
BY InitInv, NextInv, PTL DEF Spec

\* Whichever of writePump and sendPolicyClose takes connWriteMu first, nothing
\* follows the 1008 frame on the wire, for any lane and connection capacity.
THEOREM NoFrameAfterCloseHolds == Spec => []NoFrameAfterClose
<1>1. IInv => NoFrameAfterClose
  BY DEF IInv, CloseInv
<1> QED
  BY <1>1, Invariance, PTL

\* For every interval, jitter, cap, grace and timeout, a session under
\* re-authentication is extended or refused within their sum after its last
\* authentication, one health check counted for every deferral that fits the
\* cap and one more, however often deferForMaintenance defers.
THEOREM SessionBoundedHolds == Spec => []SessionBounded
<1>1. IInv => SessionBounded
  <2> SUFFICES ASSUME IInv, interval > 0, pc \notin {"fail", "unlock", "shut", "gone"}
               PROVE  since <= interval + Jitter + Maintenance + Grace + AuthTime
    BY DEF SessionBounded
  <2>1. /\ interval \in Nat /\ cap \in Nat /\ used \in Nat /\ since \in Nat
        /\ timer \in Nat /\ delay \in Nat /\ Jitter \in Nat /\ Grace \in Nat
        /\ AuthTime \in Nat
    BY Numbers DEF IInv
  <2>2. pc \in {"rest", "health", "defer", "nonce", "queue", "drain", "wait", "apply"}
    BY DEF IInv, TypeInv
  <2>3. used <= cap
    BY DEF IInv, TimeInv
  <2>4. Spent \in Nat /\ Maintenance \in Nat /\ (uri => cap + Spent <= Maintenance)
    BY <2>3, SpentBounds DEF IInv
  <2> QED
    BY <2>1, <2>2, <2>3, <2>4, SMTT(30) DEF IInv, TimeInv, Base
<1> QED
  BY <1>1, Invariance, PTL

\* For any number of rounds, and of repeated or late answers, a session is only
\* extended by an answer to a challenge of this round that the backend has read.
THEOREM FreshAnswerHolds == Spec => FreshAnswer
<1> DEFINE Extended == pc = "apply" /\ pc' \in {"rest", "gone"} => dev = nonce
<1>1. IInv /\ [Next]_vars => [Extended]_vars
  <2>1. SUFFICES ASSUME IInv, Next, pc = "apply", pc' \in {"rest", "gone"}
                 PROVE  dev = nonce
    OBVIOUS
  <2>2. CASE applyClaims
    <3>1. got = nonce /\ got <= dev /\ dev <= nonce
      BY <2>1, <2>2 DEF applyClaims, IInv, FreshInv
    <3>2. got \in Nat /\ dev \in Nat /\ nonce \in Nat
      BY <2>1 DEF IInv, TypeInv
    <3> QED
      BY <3>1, <3>2, SMTT(30)
  <2>3. CASE reauthLoop /\ ~applyClaims
    BY <2>1, <2>3 DEF reauthLoop, performReauth, sendPolicyClose, TimerFires, AskAuthorizer,
         RestQuits,
         Healthy, deferForMaintenance, DeferOver, DeferQuits, prepareForNonce,
         QueueChallenge, QueueFails, DrainStale, TakeToken, WaitFails, TokenRejected,
         PolicyFrame, PolicyUnlock, PolicyClose
  <2>4. CASE writePump \/ TakeData
    BY <2>1, <2>4 DEF writePump, WriteQuits, TakeControl, TakeData, WriteLock, WriteFails,
         WriteFrame, WriteExit, writeElse, loopVars
  <2>5. CASE readPump
    BY <2>1, <2>5 DEF readPump, ReadText, PushToken, ReadFails, readElse, loopVars
  <2>6. CASE BackendReads \/ BackendAnswers \/ BackendLeaves
    BY <2>1, <2>6 DEF BackendReads, BackendAnswers, BackendLeaves, devElse, loopVars
  <2>7. CASE Tick
    BY <2>1, <2>7 DEF Tick
  <2> QED
    BY <2>1, <2>2, <2>3, <2>4, <2>5, <2>6, <2>7 DEF Next
<1> QED
  BY <1>1, Invariance, PTL DEF Spec, FreshAnswer

=============================================================================
