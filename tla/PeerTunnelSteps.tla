-------------------------- MODULE PeerTunnelSteps ---------------------------
(***************************************************************************)
(* The inductive invariant of a tunnel between two peers, and that every   *)
(* step keeps it, one lemma per conjunct.  The invariant counts messages   *)
(* and credits in the channels of the peer link.  What counting comes to   *)
(* when a message is sent, received or lost is collected in Counting: the  *)
(* lemmas assume it, and PeerTunnelProofs proves it of Count and Credits.  *)
(***************************************************************************)
EXTENDS PeerTunnel, TLAPS

\* A leaf that names no prover is Zenon's.
USE ZenonT(30)

-----------------------------------------------------------------------------
(* The invariant *)

\* StartTunnel before it has granted credits to the destination, and after.
Starting == {"request", "store", "state"}
InLoop == {"loop", "wait", "read", "reading", "send", "close", "done"}

\* What readPump and Send put on the link for a tunnel.
Message == [kind : {"request", "data", "close", "pause", "resume"}, n : {0}]
             \cup [kind : {"credits"}, n : {Cap, Batch}]

\* The types; that flags are Boolean is not needed.
OriginTypes ==
  /\ opc \in Starting \cup {"grant"} \cup InLoop
  /\ sendCh \in 0 .. Cap /\ recvConsumed \in 0 .. Batch - 1
  /\ oretries \in Seq(1 .. Attempts) /\ free \in Nat

\* The same of the destination, whose pump is dpc and whose writer is dw.
DestTypes ==
  /\ dgen \in Nat /\ dpc \in {"none", "add", "read", "send", "remove", "exit"}
  /\ dcred \in 0 .. Cap /\ fconsumed \in 0 .. Batch - 1
  /\ dw \in {"idle", "wait", "free", "held", "failed"}
  /\ dretries \in Seq(1 .. Attempts) /\ dfree \in Nat

\* Both ends, and the two channels of the link between them.
Types ==
  /\ gen \in Nat \ {0}
  /\ fwd \in Seq(Message) /\ back \in Seq(Message)
  /\ OriginTypes /\ DestTypes

\* What the destination has not done, and the origin not heard of.
Untouched ==
  /\ ~entry /\ ~pipe /\ ~creditActive /\ ~dpaused /\ ~sendActive /\ ~opaused
  /\ back = <<>> /\ dretries = <<>> /\ dw = "idle"

\* There is one request, and the destination does nothing before it.
RequestFirst ==
  /\ opc = "request" => Count(fwd, "request") = 0 /\ dpc = "none"
  /\ Count(fwd, "request") \in {0, 1} /\ (Count(fwd, "request") = 1 => dpc = "none")
  /\ dpc = "none" => Untouched
  /\ dpc # "none" => dgen \in 1 .. gen

\* The origin has no state of the tunnel before it stores it, so it has
\* neither counted nor granted anything, and has no credit between two frames.
StateFirst ==
  /\ opc \in Starting => /\ ~hasState /\ ~sendActive /\ ~creditActive /\ recvConsumed = 0
                         /\ oretries = <<>> /\ Credits(fwd) = 0
  /\ opc \in {"request", "store"} => ~active /\ ~opaused
  /\ held => opc \in {"read", "reading", "send", "close", "done"}

\* Every pause on its way is still in force or followed by a resume.
PauseInv ==
  up /\ gen = 1 =>
    /\ \A i \in 1 .. Len(back) : back[i].kind = "pause" =>
         dpaused \/ \E j \in i + 1 .. Len(back) : back[j].kind = "resume"
    /\ opaused /\ ~oclosed /\ active =>
         dpaused \/ \E j \in 1 .. Len(back) : back[j].kind = "resume"

\* No message, no credit and no pause is out of place.
TunnelInv == Types /\ RequestFirst /\ StateFirst /\ PauseInv /\ BatchCirculates

-----------------------------------------------------------------------------
(* Counting messages and credits in a channel *)

\* The credits of a message.
Carried(m) == IF m.kind = "credits" THEN m.n ELSE 0

\* Channel t is s with m behind it.
Grown(s, t, m) ==
  /\ t \in Seq(Message) /\ Len(t) = Len(s) + 1
  /\ t[Len(t)] = m /\ \A i \in 1 .. Len(s) : t[i] = s[i]
  /\ \A k \in {"request", "data"} : Count(t, k) = Count(s, k) + One(m.kind = k)
  /\ Credits(t) = Credits(s) + Carried(m)

\* Channel t is s without its first message.
Shrunk(s, t) ==
  /\ t \in Seq(Message) /\ Len(t) = Len(s) - 1
  /\ s[1] = Head(s) /\ \A i \in 1 .. Len(t) : t[i] = s[i + 1]
  /\ \A k \in {"request", "data"} : Count(t, k) = Count(s, k) - One(Head(s).kind = k)
  /\ Credits(t) = Credits(s) - Carried(Head(s))

\* Channel t is s without its first k messages.
Left(s, t, k) ==
  /\ t \in Seq(Message) /\ Len(t) = Len(s) - k
  /\ \A i \in 1 .. Len(t) : t[i] = s[i + k]
  /\ \A q \in {"request", "data"} : Count(t, q) \in 0 .. Count(s, q)
  /\ Credits(t) \in 0 .. Credits(s)

\* What counting comes to; ChannelCounting in PeerTunnelProofs proves it.
Counting ==
  /\ \A k : Count(<<>>, k) = 0
  /\ Credits(<<>>) = 0
  /\ \A s \in Seq(Message) :
       /\ \A k : Count(s, k) \in Nat
       /\ Credits(s) \in Nat
       /\ \A m \in Message : Grown(s, Append(s, m), m)
       /\ s # <<>> => Shrunk(s, Tail(s)) /\ Head(s) \in Message
       /\ \A k \in 0 .. Len(s) : Left(s, SubSeq(s, k + 1, Len(s)), k)

\* The numbers of a channel.
LEMMA ChannelNumbers ==
  ASSUME Counting, NEW s \in Seq(Message), NEW k
  PROVE  Count(s, k) \in Nat /\ Credits(s) \in Nat
BY DEF Counting

\* An empty channel has no messages and no credits.
LEMMA NoneInEmpty ==
  ASSUME Counting
  PROVE  Count(<<>>, "data") = 0 /\ Credits(<<>>) = 0
BY DEF Counting

\* The messages of a tunnel, by kind.
LEMMA Messages ==
  /\ \A k \in {"request", "data", "close", "pause", "resume"} :
       Msg(k, 0) \in Message /\ Msg(k, 0).kind = k /\ Carried(Msg(k, 0)) = 0
  /\ \A n \in {Cap, Batch} :
       Msg("credits", n) \in Message /\ Msg("credits", n).kind = "credits"
         /\ Carried(Msg("credits", n)) = n
  BY DEF Msg, Message, Carried

\* The first element of a sequence and what is behind it.
LEMMA NonEmpty ==
  ASSUME NEW S, NEW r \in Seq(S), r # <<>>
  PROVE  /\ Tail(r) \in Seq(S) /\ Len(Tail(r)) = Len(r) - 1
         /\ Len(r) \in Nat \ {0} /\ Head(r) \in S
  BY SMTT(30)

\* retryCreditSend: each pending retry owes a batch.
LEMMA Retries ==
  ASSUME NEW r \in Seq(1 .. Attempts)
  PROVE  /\ Owed(r) \in Nat
         /\ AddRetry(r) \in Seq(1 .. Attempts)
         /\ Owed(AddRetry(r)) = Owed(r) + Batch
         /\ r # <<>> =>
              /\ Owed(r) >= Batch
              /\ EndRetry(r) \in Seq(1 .. Attempts) /\ Owed(EndRetry(r)) = Owed(r) - Batch
              /\ DropFirst(r) \in Seq(1 .. Attempts)
              /\ Owed(DropFirst(r)) = IF Head(r) = 1 THEN Owed(r) - Batch ELSE Owed(r)
<1>1. Batch \in Nat \ {0} /\ Attempts \in 1 .. Attempts
  BY TunnelConstants, SMTT(30)
<1>2. Owed(r) \in Nat
  BY <1>1, SMTT(30) DEF Owed
<1>3. AddRetry(r) \in Seq(1 .. Attempts) /\ Owed(AddRetry(r)) = Owed(r) + Batch
  <2>1. Len(AddRetry(r)) = Len(r) + 1 /\ Len(r) \in Nat
    BY SMTT(30) DEF AddRetry
  <2> QED
    BY <1>1, <2>1, SMTT(30) DEF Owed, AddRetry
<1>4. ASSUME r # <<>>
      PROVE  /\ Owed(r) >= Batch
             /\ EndRetry(r) \in Seq(1 .. Attempts) /\ Owed(EndRetry(r)) = Owed(r) - Batch
             /\ DropFirst(r) \in Seq(1 .. Attempts)
             /\ Owed(DropFirst(r)) = IF Head(r) = 1 THEN Owed(r) - Batch ELSE Owed(r)
  <2>1. /\ EndRetry(r) \in Seq(1 .. Attempts) /\ Len(EndRetry(r)) = Len(r) - 1
        /\ Len(r) \in Nat \ {0} /\ Head(r) \in 1 .. Attempts
    BY <1>4, NonEmpty DEF EndRetry
  <2>2. Owed(EndRetry(r)) = Owed(r) - Batch
    BY <1>1, <2>1, SMTT(30) DEF Owed
  <2>3. Owed(r) >= Batch
    <3>1. Owed(EndRetry(r)) \in Nat
      BY <1>1, <2>1, SMTT(30) DEF Owed
    <3> QED
      BY <1>1, <1>2, <2>2, <3>1, SMTT(30)
  <2>4. CASE Head(r) = 1
    BY <2>1, <2>2, <2>3, <2>4 DEF DropFirst
  <2>5. CASE Head(r) # 1
    <3>1. Head(r) - 1 \in 1 .. Attempts /\ EndRetry(r) = Tail(r)
      BY <2>1, <2>5, TunnelConstants, SMTT(30) DEF EndRetry
    <3>2. /\ <<Head(r) - 1>> \o Tail(r) \in Seq(1 .. Attempts)
          /\ Len(<<Head(r) - 1>> \o Tail(r)) = Len(r)
      BY <2>1, <3>1, SMTT(30)
    <3>3. DropFirst(r) = <<Head(r) - 1>> \o Tail(r)
      BY <2>5 DEF DropFirst
    <3>4. Owed(DropFirst(r)) = Owed(r)
      BY <3>2, <3>3 DEF Owed
    <3> QED
      BY <2>1, <2>2, <2>3, <2>5, <3>2, <3>3, <3>4
  <2> QED
    BY <2>4, <2>5
<1> QED
  BY <1>2, <1>3, <1>4

-----------------------------------------------------------------------------
(* What a message that is sent, received or lost does to its channel *)

\* A message that is queued is the last of its channel.
LEMMA Put ==
  ASSUME Counting, Types, NEW m \in Message
  PROVE  /\ PutFwd(m) => Grown(fwd, fwd', m)
         /\ PutBack(m) => Grown(back, back', m)
         /\ SendFwd(m) => fwd' = fwd \/ Grown(fwd, fwd', m)
         /\ QueuedBack(m) => (DeadPeer => back' = back) /\ (~DeadPeer => Grown(back, back', m))
         /\ SendBack(m) => back' = back \/ Grown(back, back', m)
<1>1. ASSUME NEW s \in Seq(Message)
      PROVE  Grown(s, Append(s, m), m)
  BY <1>1 DEF Counting
<1>2. Grown(fwd, Append(fwd, m), m) /\ Grown(back, Append(back, m), m)
  BY <1>1 DEF Types
<1>3. /\ PutFwd(m) => Grown(fwd, fwd', m)
      /\ PutBack(m) => Grown(back, back', m)
  BY <1>2 DEF PutFwd, PutBack
<1>4. QueuedBack(m) => (DeadPeer => back' = back) /\ (~DeadPeer => Grown(back, back', m))
  <2> SUFFICES ASSUME QueuedBack(m)
               PROVE  (DeadPeer => back' = back) /\ (~DeadPeer => Grown(back, back', m))
    OBVIOUS
  <2>1. IF DeadPeer THEN back' = back ELSE PutBack(m)
    BY DEF QueuedBack
  <2> QED
    BY <1>3, <2>1
<1>5. SendFwd(m) => fwd' = fwd \/ Grown(fwd, fwd', m)
  BY <1>3 DEF SendFwd
<1>6. SendBack(m) => back' = back \/ Grown(back, back', m)
  BY <1>4 DEF SendBack
<1> QED
  BY <1>3, <1>4, <1>5, <1>6

\* A message that arrives was the first of its channel.
LEMMA Taken ==
  ASSUME Counting, Types, NEW k
  PROVE  /\ Arrives(k) => /\ Len(back) > 0 /\ up /\ Shrunk(back, back') /\ Head(back).kind = k
                          /\ Head(back) \in Message
         /\ Received(k) => /\ Len(fwd) > 0 /\ up /\ ~pipe /\ Shrunk(fwd, fwd') /\ Head(fwd).kind = k
                           /\ Head(fwd) \in Message
<1>1. ASSUME NEW s \in Seq(Message), s # <<>>
      PROVE  Len(s) > 0 /\ Shrunk(s, Tail(s)) /\ Head(s) \in Message
  BY <1>1, NonEmpty, SMTT(30) DEF Counting
<1>2. ASSUME Arrives(k)
      PROVE  Len(back) > 0 /\ Shrunk(back, Tail(back)) /\ Head(back) \in Message
  BY <1>1, <1>2 DEF Types, Arrives
<1>3. ASSUME Received(k)
      PROVE  Len(fwd) > 0 /\ Shrunk(fwd, Tail(fwd)) /\ Head(fwd) \in Message
  BY <1>1, <1>3 DEF Types, Received
<1> QED
  BY <1>2, <1>3 DEF Arrives, Received

\* The messages that a lost link leaves in the origin's channel.
LEMMA Lost ==
  ASSUME Counting, Types, LoseWritten
  PROVE  \E k \in 0 .. Len(fwd) :
           /\ fwd' \in Seq(Message) /\ Len(fwd') = Len(fwd) - k
           /\ \A i \in 1 .. Len(fwd') : fwd'[i] = fwd[i + k]
           /\ \A q \in {"request", "data"} : Count(fwd', q) \in 0 .. Count(fwd, q)
           /\ Credits(fwd') \in 0 .. Credits(fwd)
<1>1. PICK k \in 0 .. Len(fwd) : fwd' = SubSeq(fwd, k + 1, Len(fwd))
  BY DEF LoseWritten
<1>2. Left(fwd, SubSeq(fwd, k + 1, Len(fwd)), k)
  BY DEF Counting, Types
<1>3. Left(fwd, fwd', k)
  BY <1>1, <1>2
<1> QED
  BY <1>3 DEF Left

\* The numbers of a state of the tunnel.
LEMMA Numbers ==
  ASSUME Counting, Types
  PROVE  /\ Count(fwd, "request") \in Nat
         /\ Count(fwd, "data") \in Nat /\ Count(back, "data") \in Nat
         /\ Credits(fwd) \in Nat /\ Credits(back) \in Nat
         /\ Owed(oretries) \in Nat /\ Owed(dretries) \in Nat
         /\ sendCh \in Nat /\ recvConsumed \in Nat /\ dcred \in Nat /\ fconsumed \in Nat
<1>1. Count(fwd, "request") \in Nat /\ Count(fwd, "data") \in Nat /\ Count(back, "data") \in Nat
  BY ChannelNumbers DEF Types
<1>2. Credits(fwd) \in Nat /\ Credits(back) \in Nat
  BY ChannelNumbers DEF Types
<1>3. Owed(oretries) \in Nat /\ Owed(dretries) \in Nat
  BY Retries DEF Types, OriginTypes, DestTypes
<1>4. sendCh \in Nat /\ recvConsumed \in Nat /\ dcred \in Nat /\ fconsumed \in Nat
  BY TunnelConstants, SMTT(30) DEF Types, OriginTypes, DestTypes
<1> QED
  BY <1>1, <1>2, <1>3, <1>4

\* By how much the requests, the frames and the credits in a channel change.
Change(s, t, r, d, c) ==
  /\ Count(t, "request") = Count(s, "request") + r
  /\ Count(t, "data") = Count(s, "data") + d
  /\ Credits(t) = Credits(s) + c

\* What a channel with one more message counts, by the message.
LEMMA GrownBy ==
  ASSUME Counting, NEW s \in Seq(Message), NEW t
  PROVE  /\ Grown(s, t, Msg("request", 0)) => Change(s, t, 1, 0, 0)
         /\ Grown(s, t, Msg("data", 0)) => Change(s, t, 0, 1, 0)
         /\ \A k \in {"close", "pause", "resume"} : Grown(s, t, Msg(k, 0)) => Change(s, t, 0, 0, 0)
         /\ \A n \in {Cap, Batch} : Grown(s, t, Msg("credits", n)) => Change(s, t, 0, 0, n)
<1>1. \A k : Count(s, k) \in Nat
  BY ChannelNumbers
<1>2. Credits(s) \in Nat
  BY ChannelNumbers
<1> QED
  BY <1>1, <1>2, Messages DEF Grown, Change, One

\* What is put into the channel to the destination.
LEMMA FwdPut ==
  ASSUME Counting, Types
  PROVE  /\ PutFwd(Msg("request", 0)) => Change(fwd, fwd', 1, 0, 0)
         /\ PutFwd(Msg("data", 0)) => Change(fwd, fwd', 0, 1, 0)
         /\ PutFwd(Msg("close", 0)) => Change(fwd, fwd', 0, 0, 0)
         /\ PutFwd(Msg("credits", Cap)) => Change(fwd, fwd', 0, 0, Cap)
         /\ PutFwd(Msg("credits", Batch)) => Change(fwd, fwd', 0, 0, Batch)
  BY Put, Messages, GrownBy DEF Types

\* What is put into the channel to the origin.
LEMMA BackPut ==
  ASSUME Counting, Types
  PROVE  /\ PutBack(Msg("data", 0)) => Change(back, back', 0, 1, 0)
         /\ PutBack(Msg("close", 0)) => Change(back, back', 0, 0, 0)
         /\ PutBack(Msg("pause", 0)) => Change(back, back', 0, 0, 0)
         /\ PutBack(Msg("resume", 0)) => Change(back, back', 0, 0, 0)
         /\ PutBack(Msg("credits", Cap)) => Change(back, back', 0, 0, Cap)
         /\ PutBack(Msg("credits", Batch)) => Change(back, back', 0, 0, Batch)
  BY Put, Messages, GrownBy DEF Types

\* What a message that arrives takes from its channel.
LEMMA TakenFrom ==
  ASSUME Counting, NEW s \in Seq(Message), NEW t, Shrunk(s, t), Head(s) \in Message
  PROVE  /\ Head(s).kind = "request" => Change(s, t, -1, 0, 0)
         /\ Head(s).kind = "data" => Change(s, t, 0, -1, 0)
         /\ Head(s).kind \in {"close", "pause", "resume"} => Change(s, t, 0, 0, 0)
         /\ Head(s).kind = "credits" => /\ Head(s).n \in {Cap, Batch} /\ Credits(t) \in Nat
                                        /\ Change(s, t, 0, 0, -Head(s).n)
<1>1. \A k : Count(s, k) \in Nat
  BY ChannelNumbers
<1>2. Credits(s) \in Nat /\ Credits(t) \in Nat
  BY ChannelNumbers DEF Shrunk
<1>3. Carried(Head(s)) = IF Head(s).kind = "credits" THEN Head(s).n ELSE 0
  BY DEF Carried
<1>4. Head(s).kind = "credits" => Head(s).n \in {Cap, Batch}
  BY DEF Message
<1> QED
  BY <1>1, <1>2, <1>3, <1>4, TunnelConstants, SMTT(30) DEF Shrunk, Change, One

\* What arrives at the destination.
LEMMA FwdTaken ==
  ASSUME Counting, Types
  PROVE  /\ Received("request") => Change(fwd, fwd', -1, 0, 0)
         /\ Received("data") => Change(fwd, fwd', 0, -1, 0)
         /\ Received("close") => Change(fwd, fwd', 0, 0, 0)
         /\ Received("credits") => /\ Head(fwd).n \in {Cap, Batch} /\ Credits(fwd') \in Nat
                                   /\ Change(fwd, fwd', 0, 0, -Head(fwd).n)
  BY Taken, TakenFrom DEF Types

\* What arrives at the origin.
LEMMA BackTaken ==
  ASSUME Counting, Types
  PROVE  /\ Arrives("data") => Change(back, back', 0, -1, 0)
         /\ \A k \in {"close", "pause", "resume"} : Arrives(k) => Change(back, back', 0, 0, 0)
         /\ Arrives("credits") => /\ Head(back).n \in {Cap, Batch} /\ Credits(back') \in Nat
                                  /\ Change(back, back', 0, 0, -Head(back).n)
  BY Taken, TakenFrom DEF Types

\* A frame that the end user takes is counted; the last of a batch returns it.
LEMMA DataCounted ==
  ASSUME Counting, Types, DataToUser
  PROVE  \/ /\ recvConsumed' = recvConsumed + One(active /\ hasState) /\ recvConsumed' < Batch
            /\ UNCHANGED <<fwd, oretries>>
         \/ /\ active /\ hasState /\ recvConsumed + 1 = Batch /\ recvConsumed' = 0
            /\ PutFwd(Msg("credits", Batch)) /\ UNCHANGED oretries
         \/ /\ active /\ hasState /\ recvConsumed + 1 = Batch /\ recvConsumed' = 0
            /\ UNCHANGED fwd /\ oretries' = AddRetry(oretries)
<1>1. recvConsumed \in 0 .. Batch - 1 /\ Batch \in Nat
  BY TunnelConstants DEF Types, OriginTypes
<1>2. CASE active /\ hasState /\ recvConsumed + 1 = Batch
  BY <1>1, <1>2, SMTT(30) DEF DataToUser
<1>3. CASE ~(active /\ hasState /\ recvConsumed + 1 = Batch)
  BY <1>1, <1>3, SMTT(30) DEF DataToUser, One
<1> QED
  BY <1>2, <1>3

-----------------------------------------------------------------------------
(* The request and the origin's state *)

\* Before the request arrives, a step of the origin; after it, any step.
LEMMA RequestKept ==
  ASSUME Counting, Types, Types', RequestFirst,
         Count(fwd', "request") \in 0 .. Count(fwd, "request"),
         opc' = "request" => opc = "request", dgen' = dgen, gen' \in {gen, gen + 1},
         \/ dpc # "none" /\ dpc' # "none"
         \/ dpc' = dpc /\ (dpc = "none" => Untouched')
  PROVE  RequestFirst'
<1>1. Count(fwd, "request") \in Nat /\ gen \in Nat
  BY Numbers DEF Types
<1>2. CASE dpc # "none" /\ dpc' # "none"
  BY <1>1, <1>2, SMTT(30) DEF RequestFirst
<1>3. CASE dpc' = dpc /\ (dpc = "none" => Untouched')
  BY <1>1, <1>3, SMTT(30) DEF RequestFirst
<1> QED
  BY <1>2, <1>3

-----------------------------------------------------------------------------
(* Pauses *)

\* The end user is held back by a pause.
HeldBack == opaused /\ ~oclosed /\ active

\* The end user stays as it was, and so does the channel.
LEMMA PauseSame ==
  ASSUME PauseInv, back' = back, dpaused' = dpaused, up' /\ gen' = 1 => up /\ gen = 1,
         HeldBack' => HeldBack
  PROVE  PauseInv'
  BY DEF PauseInv, HeldBack

\* A message to the origin that withdraws a pause, or does not concern pauses.
LEMMA PauseSent ==
  ASSUME Counting, Types, PauseInv, NEW m \in Message, Grown(back, back', m), up' = up,
         gen' = gen,
         HeldBack' => HeldBack, m.kind = "pause" => dpaused',
         dpaused => dpaused' \/ m.kind = "resume"
  PROVE  PauseInv'
<1> DEFINE e == Len(back) + 1
<1> SUFFICES ASSUME up, gen = 1
             PROVE  PauseInv'
  BY DEF PauseInv
<1>1. Len(back') = e /\ Len(back) \in Nat /\ back'[e] = m
        /\ \A i \in 1 .. Len(back) : back'[i] = back[i]
  BY SMTT(30) DEF Grown, Types
<1>2. ASSUME NEW i \in 1 .. Len(back'), back'[i].kind = "pause"
      PROVE  dpaused' \/ \E j \in i + 1 .. Len(back') : back'[j].kind = "resume"
  <2>1. CASE i = e
    BY <1>1, <1>2, <2>1
  <2>2. CASE i # e
    <3>1. i \in 1 .. Len(back) /\ back[i].kind = "pause"
      BY <1>1, <1>2, <2>2, SMTT(30)
    <3>2. dpaused \/ \E j \in i + 1 .. Len(back) : back[j].kind = "resume"
      BY <3>1 DEF PauseInv
    <3>3. CASE dpaused
      BY <1>1, <3>1, <3>3, SMTT(30)
    <3>4. CASE \E j \in i + 1 .. Len(back) : back[j].kind = "resume"
      BY <1>1, <3>1, <3>4, SMTT(30)
    <3> QED
      BY <3>2, <3>3, <3>4
  <2> QED
    BY <2>1, <2>2
<1>3. ASSUME HeldBack'
      PROVE  dpaused' \/ \E j \in 1 .. Len(back') : back'[j].kind = "resume"
  <2>1. dpaused \/ \E j \in 1 .. Len(back) : back[j].kind = "resume"
    BY <1>3 DEF PauseInv, HeldBack
  <2>2. CASE dpaused
    BY <1>1, <2>2, SMTT(30)
  <2>3. CASE \E j \in 1 .. Len(back) : back[j].kind = "resume"
    BY <1>1, <2>3, SMTT(30)
  <2> QED
    BY <2>1, <2>2, <2>3
<1> QED
  BY <1>2, <1>3 DEF PauseInv, HeldBack

\* A message that arrives: a pause holds the end user back, a resume does not
\* leave it held back, others change nothing.
LEMMA PauseTaken ==
  ASSUME Counting, Types, PauseInv, Shrunk(back, back'), dpaused' = dpaused, up' = up,
         gen' = gen,
         Len(back) > 0,
         HeldBack' => Head(back).kind = "pause" \/ (HeldBack /\ Head(back).kind # "resume")
  PROVE  PauseInv'
<1> SUFFICES ASSUME up, gen = 1
             PROVE  PauseInv'
  BY DEF PauseInv
<1>1. /\ Len(back) \in Nat /\ Len(back') = Len(back) - 1 /\ back[1] = Head(back)
      /\ \A i \in 1 .. Len(back') : back'[i] = back[i + 1]
  BY SMTT(30) DEF Shrunk, Types
<1>2. ASSUME NEW i \in 1 .. Len(back), \E j \in i + 1 .. Len(back) : back[j].kind = "resume"
      PROVE  \E j \in i .. Len(back') : back'[j].kind = "resume"
  <2>1. PICK j \in i + 1 .. Len(back) : back[j].kind = "resume"
    BY <1>2
  <2>2. j - 1 \in i .. Len(back') /\ back'[j - 1] = back[j]
    BY <1>1, <2>1, SMTT(30)
  <2> QED
    BY <2>1, <2>2
<1>3. ASSUME NEW i \in 1 .. Len(back'), back'[i].kind = "pause"
      PROVE  dpaused' \/ \E j \in i + 1 .. Len(back') : back'[j].kind = "resume"
  <2>1. i + 1 \in 1 .. Len(back) /\ back[i + 1].kind = "pause"
    BY <1>1, <1>3, SMTT(30)
  <2>2. dpaused \/ \E j \in i + 2 .. Len(back) : back[j].kind = "resume"
    BY <2>1, SMTT(30) DEF PauseInv
  <2> QED
    BY <1>2, <2>1, <2>2, SMTT(30)
<1>4. ASSUME HeldBack'
      PROVE  dpaused' \/ \E j \in 1 .. Len(back') : back'[j].kind = "resume"
  <2>1. dpaused \/ \E j \in 2 .. Len(back) : back[j].kind = "resume"
    <3>1. CASE Head(back).kind = "pause"
      BY <1>1, <3>1, SMTT(30) DEF PauseInv
    <3>2. CASE HeldBack /\ Head(back).kind # "resume"
      <4>1. dpaused \/ \E j \in 1 .. Len(back) : back[j].kind = "resume"
        BY <3>2 DEF PauseInv, HeldBack
      <4> QED
        BY <1>1, <3>2, <4>1, SMTT(30)
    <3> QED
      BY <1>4, <3>1, <3>2
  <2>2. 1 \in 1 .. Len(back)
    BY <1>1, SMTT(30)
  <2> QED
    BY <1>2, <2>1, <2>2, SMTT(30)
<1> QED
  BY <1>3, <1>4 DEF PauseInv, HeldBack

\* Every step keeps the types.
LEMMA TypesStep ==
  ASSUME Counting, Types, Next
  PROVE  Types'
<1> USE TunnelConstants DEF originElse, readElse, destElse, clientElse, pauseElse, linkVars,
        originVars, destVars, Starting, InLoop
<1>1. CASE StoreTunnel
  BY <1>1 DEF Types, OriginTypes, DestTypes, StoreTunnel
<1>2. CASE StoreState
  BY <1>2 DEF Types, OriginTypes, DestTypes, StoreState
<1>3. CASE CheckActive
  BY <1>3 DEF Types, OriginTypes, DestTypes, CheckActive
<1>4. CASE AcquireCredit
  BY <1>4, SMTT(30) DEF Types, OriginTypes, DestTypes, AcquireCredit
<1>5. CASE Abandon
  BY <1>5 DEF Types, OriginTypes, DestTypes, Abandon
<1>6. CASE ReadUnpaused
  BY <1>6 DEF Types, OriginTypes, DestTypes, ReadUnpaused
<1>7. CASE ReadUser
  BY <1>7 DEF Types, OriginTypes, DestTypes, ReadUser, Event
<1>8. CASE ReadEnds
  BY <1>8 DEF Types, OriginTypes, DestTypes, ReadEnds
<1>9. CASE GraceOver
  BY <1>9 DEF Types, OriginTypes, DestTypes, GraceOver
<1>10. CASE Request
  BY <1>10, Messages, Put DEF Types, OriginTypes, DestTypes, Grown, Request
<1>11. CASE GrantBack
  BY <1>11, Messages, Put DEF Types, OriginTypes, DestTypes, Grown, GrantBack
<1>12. CASE SendClose
  BY <1>12, Messages, Put DEF Types, OriginTypes, DestTypes, Grown, SendClose
<1>13. CASE SendFrame
  <2>1. fwd' \in Seq(Message)
    BY <1>13, Messages, Put DEF Types, Grown, SendFrame, AtMost
  <2>2. sendCh' \in 0 .. Cap /\ free' \in Nat
    BY <1>13, SMTT(30) DEF Types, OriginTypes, SendFrame, AtMost
  <2> QED
    BY <1>13, <2>1, <2>2 DEF Types, OriginTypes, DestTypes, SendFrame
<1>14. CASE DataToUser
  <2>1. back' \in Seq(Message)
    BY <1>14, Taken DEF Shrunk, DataToUser
  <2>2. fwd' \in Seq(Message)
    BY <1>14, DataCounted, Messages, Put DEF Types, Grown, DataToUser
  <2>3. recvConsumed' \in 0 .. Batch - 1
    BY <1>14, DataCounted, SMTT(30) DEF Types, OriginTypes, One, DataToUser
  <2>4. oretries' \in Seq(1 .. Attempts)
    BY <1>14, DataCounted, Retries DEF Types, OriginTypes, DataToUser
  <2> QED
    BY <1>14, <2>1, <2>2, <2>3, <2>4 DEF Types, OriginTypes, DestTypes, DataToUser
<1>15. CASE DataRefused
  BY <1>15, Taken DEF Types, OriginTypes, DestTypes, Shrunk, DataRefused
<1>16. CASE CloseArrives
  BY <1>16, Taken DEF Types, OriginTypes, DestTypes, Shrunk, CloseArrives
<1>17. CASE PauseArrives
  BY <1>17, Taken DEF Types, OriginTypes, DestTypes, Shrunk, PauseArrives
<1>18. CASE ResumeArrives
  BY <1>18, Taken DEF Types, OriginTypes, DestTypes, Shrunk, ResumeArrives
<1>19. CASE CreditsArrive
  <2>1. back' \in Seq(Message) /\ Head(back).n \in Nat
    BY <1>19, Taken, BackTaken DEF Shrunk, CreditsArrive, AtMost
  <2>2. sendCh' \in 0 .. Cap
    BY <1>19, <2>1, SMTT(30) DEF Types, OriginTypes, CreditsArrive, AtMost
  <2> QED
    BY <1>19, <2>1, <2>2 DEF Types, OriginTypes, DestTypes, CreditsArrive
<1>20. CASE RequestIgnored
  BY <1>20, Taken DEF Types, OriginTypes, DestTypes, Shrunk, RequestIgnored
<1>21. CASE HandleTunnelData
  BY <1>21, Taken DEF Types, OriginTypes, DestTypes, Shrunk, HandleTunnelData
<1>22. CASE HandleTunnelRequest
  BY <1>22, Taken, Messages, Put DEF Types, OriginTypes, DestTypes, Shrunk, Grown,
      HandleTunnelRequest
<1>23. CASE HandleTunnelClose
  <2>1. fwd' \in Seq(Message)
    BY <1>23, Taken DEF Shrunk, HandleTunnelClose, CloseConn
  <2>2. back' \in Seq(Message)
    BY <1>23, Messages, Put DEF Types, Grown, HandleTunnelClose, CloseConn
  <2> QED
    BY <1>23, <2>1, <2>2 DEF Types, OriginTypes, DestTypes, HandleTunnelClose, CloseConn
<1>24. CASE AddTunnelCredits
  <2>1. fwd' \in Seq(Message) /\ Head(fwd).n \in Nat
    BY <1>24, Taken, FwdTaken DEF Shrunk, AddTunnelCredits, AtMost
  <2>2. dcred' \in 0 .. Cap
    BY <1>24, <2>1, SMTT(30) DEF Types, DestTypes, AddTunnelCredits, AtMost
  <2> QED
    BY <1>24, <2>1, <2>2 DEF Types, OriginTypes, DestTypes, AddTunnelCredits
<1>25. CASE PipeRead
  <2>1. back' \in Seq(Message)
    BY <1>25, Messages, Put DEF Types, Grown, PipeRead
  <2>2. fconsumed' \in 0 .. Batch - 1
    BY <1>25, SMTT(30) DEF Types, DestTypes, PipeRead
  <2>3. dretries' \in Seq(1 .. Attempts)
    BY <1>25, Retries DEF Types, DestTypes, PipeRead
  <2> QED
    BY <1>25, <2>1, <2>2, <2>3 DEF Types, OriginTypes, DestTypes, PipeRead
<1>26. CASE PipeClosed
  BY <1>26 DEF Types, OriginTypes, DestTypes, PipeClosed
<1>27. CASE AddClient
  BY <1>27 DEF Types, OriginTypes, DestTypes, AddClient
<1>28. CASE SendData
  BY <1>28 DEF Types, OriginTypes, DestTypes, SendData
<1>29. CASE PipeEOF
  BY <1>29 DEF Types, OriginTypes, DestTypes, PipeEOF
<1>30. CASE Write
  BY <1>30 DEF Types, OriginTypes, DestTypes, Write, Serving, Event
<1>31. CASE WriteAcquire
  BY <1>31, SMTT(30) DEF Types, OriginTypes, DestTypes, WriteAcquire
<1>32. CASE WriteClosed
  BY <1>32 DEF Types, OriginTypes, DestTypes, WriteClosed
<1>33. CASE AddClientFails
  BY <1>33, Messages, Put DEF Types, OriginTypes, DestTypes, Grown, AddClientFails, CloseConn
<1>34. CASE RemoveClient
  BY <1>34, Messages, Put DEF Types, OriginTypes, DestTypes, Grown, RemoveClient, CloseConn
<1>35. CASE BackendCloses
  BY <1>35, Messages, Put DEF Types, OriginTypes, DestTypes, Grown, BackendCloses, CloseConn
<1>36. CASE WriteSend
  BY <1>36, Messages, Put, SMTT(30) DEF Types, OriginTypes, DestTypes, Grown, WriteSend
<1>37. CASE Pause
  BY <1>37, Messages, Put DEF Types, OriginTypes, DestTypes, Grown, Pause, Serving, Event
<1>38. CASE Resume
  BY <1>38, Messages, Put DEF Types, OriginTypes, DestTypes, Grown, Resume, Serving, Event
<1>39. CASE RetryToDest
  <2>1. fwd' \in Seq(Message)
    BY <1>39, Messages, Put DEF Types, Grown, RetryToDest
  <2>2. oretries' \in Seq(1 .. Attempts)
    BY <1>39, Retries DEF Types, OriginTypes, RetryToDest
  <2> QED
    BY <1>39, <2>1, <2>2 DEF Types, OriginTypes, DestTypes, RetryToDest
<1>40. CASE RetryToOrigin
  <2>1. back' \in Seq(Message)
    BY <1>40, Messages, Put DEF Types, Grown, RetryToOrigin
  <2>2. dretries' \in Seq(1 .. Attempts)
    BY <1>40, Retries DEF Types, DestTypes, RetryToOrigin
  <2> QED
    BY <1>40, <2>1, <2>2 DEF Types, OriginTypes, DestTypes, RetryToOrigin
<1>41. CASE Disconnect
  <2>1. fwd' \in Seq(Message) /\ back' \in Seq(Message)
    BY <1>41, Lost, SMTT(30) DEF Disconnect, Event
  <2> QED
    BY <1>41, <2>1 DEF Types, OriginTypes, DestTypes, Disconnect
<1>42. CASE Reconnect
  BY <1>42, SMTT(30) DEF Types, OriginTypes, DestTypes, Reconnect
<1> QED
  BY <1>1, <1>2, <1>3, <1>4, <1>5, <1>6, <1>7, <1>8, <1>9, <1>10, <1>11, <1>12, <1>13, <1>14,
      <1>15, <1>16, <1>17, <1>18, <1>19, <1>20, <1>21, <1>22, <1>23, <1>24, <1>25, <1>26,
      <1>27, <1>28, <1>29, <1>30, <1>31, <1>32, <1>33, <1>34, <1>35, <1>36, <1>37, <1>38,
      <1>39, <1>40, <1>41, <1>42 DEF Next, StartTunnel, OriginReader, DestReader, DestClient,
      DestWriter

\* There is one request, before anything at the destination.
LEMMA RequestStep ==
  ASSUME Counting, Types, Types', RequestFirst, StateFirst, Next
  PROVE  RequestFirst'
<1> USE DEF originElse, readElse, destElse, clientElse, pauseElse, linkVars, originVars,
        destVars
<1>1. CASE Request
  BY <1>1, Numbers, FwdPut, SMTT(30) DEF Types, RequestFirst, Untouched, StateFirst, Starting,
     Change,
      Request, SendFwd
<1>2. CASE StoreTunnel
  BY <1>2, Numbers, RequestKept DEF RequestFirst, Untouched, StoreTunnel
<1>3. CASE StoreState
  BY <1>3, Numbers, RequestKept DEF RequestFirst, Untouched, StoreState
<1>4. CASE CheckActive
  BY <1>4, Numbers, RequestKept DEF RequestFirst, Untouched, CheckActive
<1>5. CASE AcquireCredit
  BY <1>5, Numbers, RequestKept DEF RequestFirst, Untouched, AcquireCredit
<1>6. CASE Abandon
  BY <1>6, Numbers, RequestKept DEF RequestFirst, Untouched, Abandon
<1>7. CASE ReadUnpaused
  BY <1>7, Numbers, RequestKept DEF RequestFirst, Untouched, ReadUnpaused
<1>8. CASE ReadUser
  BY <1>8, Numbers, RequestKept DEF RequestFirst, Untouched, ReadUser, Event
<1>9. CASE ReadEnds
  BY <1>9, Numbers, RequestKept DEF RequestFirst, Untouched, ReadEnds
<1>10. CASE GraceOver
  BY <1>10, Numbers, RequestKept DEF RequestFirst, Untouched, GraceOver
<1>11. CASE GrantBack
  <2>1. Count(fwd', "request") \in 0 .. Count(fwd, "request")
    BY <1>11, Numbers, FwdPut, SMTT(30) DEF Change, GrantBack, SendFwd
  <2> QED
    BY <1>11, <2>1, RequestKept DEF RequestFirst, Untouched, GrantBack, SendFwd
<1>12. CASE SendFrame
  <2>1. Count(fwd', "request") \in 0 .. Count(fwd, "request")
    BY <1>12, Numbers, FwdPut, SMTT(30) DEF Change, SendFrame, AtMost
  <2> QED
    BY <1>12, <2>1, RequestKept DEF RequestFirst, Untouched, SendFrame, AtMost
<1>13. CASE SendClose
  <2>1. Count(fwd', "request") \in 0 .. Count(fwd, "request")
    BY <1>13, Numbers, FwdPut, SMTT(30) DEF Change, SendClose, SendFwd
  <2> QED
    BY <1>13, <2>1, RequestKept DEF RequestFirst, Untouched, SendClose, SendFwd
<1>14. CASE RetryToDest
  <2>1. Count(fwd', "request") \in 0 .. Count(fwd, "request")
    BY <1>14, Numbers, FwdPut, SMTT(30) DEF Change, RetryToDest
  <2> QED
    BY <1>14, <2>1, RequestKept DEF RequestFirst, Untouched, RetryToDest
<1>15. CASE DataToUser
  <2>1. Count(fwd', "request") \in 0 .. Count(fwd, "request")
    BY <1>15, Numbers, DataCounted, FwdPut, TunnelConstants, SMTT(30) DEF Change, DataToUser
  <2> QED
    BY <1>15, <2>1, RequestKept, Taken, SMTT(30) DEF RequestFirst, Untouched, DataToUser
<1>16. CASE DataRefused
  BY <1>16, Numbers, Taken, RequestKept, SMTT(30) DEF RequestFirst, Untouched, DataRefused
<1>17. CASE CloseArrives
  BY <1>17, Numbers, Taken, RequestKept, SMTT(30) DEF RequestFirst, Untouched, CloseArrives
<1>18. CASE PauseArrives
  BY <1>18, Numbers, Taken, RequestKept, SMTT(30) DEF RequestFirst, Untouched, PauseArrives
<1>19. CASE ResumeArrives
  BY <1>19, Numbers, Taken, RequestKept, SMTT(30) DEF RequestFirst, Untouched, ResumeArrives
<1>20. CASE CreditsArrive
  BY <1>20, Numbers, Taken, RequestKept, SMTT(30) DEF RequestFirst, Untouched, CreditsArrive,
     AtMost
<1>21. CASE RequestIgnored
  <2>1. Count(fwd', "request") \in Nat
    BY <1>21, ChannelNumbers DEF Types, RequestIgnored
  <2>2. Count(fwd, "request") = 1 /\ Count(fwd', "request") = 0
    BY <1>21, <2>1, Numbers, FwdTaken, SMTT(30) DEF RequestFirst, Change, RequestIgnored
  <2> QED
    BY <1>21, <2>2, RequestKept DEF RequestFirst, Untouched, RequestIgnored
<1>22. CASE HandleTunnelRequest
  <2>1. Count(fwd', "request") \in Nat
    BY <1>22, ChannelNumbers DEF Types, HandleTunnelRequest
  <2>2. Count(fwd, "request") = 1 /\ Count(fwd', "request") = 0
    BY <1>22, <2>1, Numbers, FwdTaken, SMTT(30) DEF RequestFirst, Change, HandleTunnelRequest
  <2>3. opc' # "request" /\ dpc' # "none" /\ dgen' \in 1 .. gen' /\ gen' = gen
    BY <1>22, <2>2, SMTT(30) DEF RequestFirst, Types, HandleTunnelRequest
  <2> QED
    BY <2>2, <2>3, SMTT(30) DEF RequestFirst, Untouched
<1>23. CASE HandleTunnelData
  <2>1. Count(fwd', "request") \in 0 .. Count(fwd, "request")
    BY <1>23, Numbers, FwdTaken, SMTT(30) DEF Change, HandleTunnelData
  <2> QED
    BY <1>23, <2>1, RequestKept, Taken DEF RequestFirst, Untouched, HandleTunnelData
<1>24. CASE HandleTunnelClose
  <2>1. Count(fwd', "request") \in 0 .. Count(fwd, "request")
    BY <1>24, Numbers, FwdTaken, SMTT(30) DEF Change, HandleTunnelClose, CloseConn, SendBack,
        QueuedBack
  <2> QED
    BY <1>24, <2>1, RequestKept, Taken DEF RequestFirst, Untouched, HandleTunnelClose,
        CloseConn, SendBack, QueuedBack
<1>25. CASE AddTunnelCredits
  <2>1. Count(fwd', "request") \in 0 .. Count(fwd, "request")
    BY <1>25, Numbers, FwdTaken, SMTT(30) DEF Change, AddTunnelCredits, AtMost
  <2> QED
    BY <1>25, <2>1, RequestKept, Taken DEF RequestFirst, Untouched, AddTunnelCredits, AtMost
<1>26. CASE PipeRead
  BY <1>26, Numbers, RequestKept DEF RequestFirst, Untouched, PipeRead, QueuedBack
<1>27. CASE PipeClosed
  BY <1>27, Numbers, RequestKept DEF RequestFirst, Untouched, PipeClosed
<1>28. CASE AddClient
  BY <1>28, Numbers, RequestKept DEF RequestFirst, Untouched, AddClient
<1>29. CASE AddClientFails
  BY <1>29, Numbers, RequestKept DEF RequestFirst, Untouched, AddClientFails, CloseConn,
      SendBack, QueuedBack
<1>30. CASE SendData
  BY <1>30, Numbers, RequestKept DEF RequestFirst, Untouched, SendData
<1>31. CASE PipeEOF
  BY <1>31, Numbers, RequestKept DEF RequestFirst, Untouched, PipeEOF
<1>32. CASE RemoveClient
  BY <1>32, Numbers, RequestKept DEF RequestFirst, Untouched, RemoveClient, CloseConn,
      SendBack, QueuedBack
<1>33. CASE BackendCloses
  BY <1>33, Numbers, RequestKept DEF RequestFirst, Untouched, BackendCloses, CloseConn,
      SendBack, QueuedBack
<1>34. CASE Write
  BY <1>34, Numbers, RequestKept DEF RequestFirst, Untouched, Write, Serving, Event
<1>35. CASE WriteAcquire
  BY <1>35, Numbers, RequestKept DEF RequestFirst, Untouched, WriteAcquire
<1>36. CASE WriteClosed
  BY <1>36, Numbers, RequestKept DEF RequestFirst, Untouched, WriteClosed
<1>37. CASE WriteSend
  BY <1>37, Numbers, RequestKept DEF RequestFirst, Untouched, WriteSend, QueuedBack
<1>38. CASE Pause
  BY <1>38, Numbers, RequestKept DEF RequestFirst, Untouched, Pause, Serving, Event,
      QueuedBack
<1>39. CASE Resume
  BY <1>39, Numbers, RequestKept DEF RequestFirst, Untouched, Resume, Serving, Event,
      QueuedBack
<1>40. CASE RetryToOrigin
  BY <1>40, Numbers, RequestKept DEF RequestFirst, Untouched, RetryToOrigin, QueuedBack
<1>41. CASE Disconnect
  <2>1. Count(fwd', "request") \in 0 .. Count(fwd, "request")
    BY <1>41, Numbers, Lost DEF Disconnect, Event
  <2> QED
    BY <1>41, <2>1, RequestKept DEF RequestFirst, Untouched, Disconnect, Event
<1>42. CASE Reconnect
  BY <1>42, Numbers, RequestKept, SMTT(30) DEF RequestFirst, Untouched, Reconnect
<1> QED
  BY <1>1, <1>2, <1>3, <1>4, <1>5, <1>6, <1>7, <1>8, <1>9, <1>10, <1>11, <1>12, <1>13, <1>14,
      <1>15, <1>16, <1>17, <1>18, <1>19, <1>20, <1>21, <1>22, <1>23, <1>24, <1>25, <1>26,
      <1>27, <1>28, <1>29, <1>30, <1>31, <1>32, <1>33, <1>34, <1>35, <1>36, <1>37, <1>38,
      <1>39, <1>40, <1>41, <1>42 DEF Next, StartTunnel, OriginReader, DestReader, DestClient,
      DestWriter

\* Nothing of the tunnel precedes its state at the origin.
LEMMA StateStep ==
  ASSUME Counting, Types, Types', RequestFirst, StateFirst, Next
  PROVE  StateFirst'
<1> USE DEF originElse, readElse, destElse, clientElse, pauseElse, linkVars, originVars,
        destVars
<1>1. CASE Request
  BY <1>1, Numbers, FwdPut, SMTT(30) DEF StateFirst, Starting, Change, Request, SendFwd
<1>2. CASE StoreTunnel
  BY <1>2 DEF StateFirst, Starting, StoreTunnel
<1>3. CASE StoreState
  BY <1>3 DEF StateFirst, Starting, StoreState
<1>4. CASE CheckActive
  BY <1>4 DEF StateFirst, Starting, CheckActive
<1>5. CASE AcquireCredit
  BY <1>5 DEF StateFirst, Starting, AcquireCredit
<1>6. CASE Abandon
  BY <1>6 DEF StateFirst, Starting, Abandon
<1>7. CASE ReadUnpaused
  BY <1>7 DEF StateFirst, Starting, ReadUnpaused
<1>8. CASE ReadUser
  BY <1>8 DEF StateFirst, Starting, ReadUser, Event
<1>9. CASE ReadEnds
  BY <1>9 DEF StateFirst, Starting, ReadEnds
<1>10. CASE GraceOver
  BY <1>10 DEF StateFirst, Starting, GraceOver
<1>11. CASE SendFrame
  BY <1>11 DEF StateFirst, Starting, SendFrame, AtMost
<1>12. CASE SendClose
  BY <1>12 DEF StateFirst, Starting, SendClose, SendFwd
<1>13. CASE GrantBack
  BY <1>13 DEF StateFirst, Starting, GrantBack, SendFwd
<1>14. CASE DataToUser
  BY <1>14, DataCounted, TunnelConstants DEF StateFirst, Starting, One, DataToUser
<1>15. CASE DataRefused
  BY <1>15, Taken DEF StateFirst, Starting, RequestFirst, Untouched, DataRefused
<1>16. CASE CloseArrives
  BY <1>16, Taken DEF StateFirst, Starting, RequestFirst, Untouched, CloseArrives
<1>17. CASE PauseArrives
  BY <1>17, Taken DEF StateFirst, Starting, RequestFirst, Untouched, PauseArrives
<1>18. CASE ResumeArrives
  BY <1>18, Taken DEF StateFirst, Starting, RequestFirst, Untouched, ResumeArrives
<1>19. CASE CreditsArrive
  BY <1>19, Taken DEF StateFirst, Starting, RequestFirst, Untouched, CreditsArrive, AtMost
<1>20. CASE RequestIgnored
  BY <1>20, Numbers, FwdTaken, SMTT(30) DEF StateFirst, Starting, Change, RequestIgnored
<1>21. CASE HandleTunnelRequest
  BY <1>21, Numbers, FwdTaken, SMTT(30) DEF StateFirst, Starting, Change, HandleTunnelRequest
<1>22. CASE HandleTunnelData
  BY <1>22, Numbers, FwdTaken, SMTT(30) DEF StateFirst, Starting, Change, HandleTunnelData
<1>23. CASE HandleTunnelClose
  BY <1>23, Numbers, FwdTaken, SMTT(30) DEF StateFirst, Starting, Change, HandleTunnelClose,
     CloseConn,
      SendBack, QueuedBack
<1>24. CASE AddTunnelCredits
  <2>1. Credits(fwd) > 0
    BY <1>24, Numbers, FwdTaken, TunnelConstants, SMTT(30) DEF Change, AddTunnelCredits, AtMost
  <2> QED
    BY <1>24, <2>1, SMTT(30) DEF StateFirst, Starting, AddTunnelCredits, AtMost
<1>25. CASE PipeRead
  BY <1>25 DEF StateFirst, Starting, PipeRead, QueuedBack
<1>26. CASE PipeClosed
  BY <1>26 DEF StateFirst, Starting, PipeClosed
<1>27. CASE AddClient
  BY <1>27 DEF StateFirst, Starting, AddClient
<1>28. CASE AddClientFails
  BY <1>28 DEF StateFirst, Starting, AddClientFails, CloseConn, SendBack, QueuedBack
<1>29. CASE SendData
  BY <1>29 DEF StateFirst, Starting, SendData
<1>30. CASE PipeEOF
  BY <1>30 DEF StateFirst, Starting, PipeEOF
<1>31. CASE RemoveClient
  BY <1>31 DEF StateFirst, Starting, RemoveClient, CloseConn, SendBack, QueuedBack
<1>32. CASE BackendCloses
  BY <1>32 DEF StateFirst, Starting, BackendCloses, CloseConn, SendBack, QueuedBack
<1>33. CASE Write
  BY <1>33 DEF StateFirst, Starting, Write, Serving, Event
<1>34. CASE WriteAcquire
  BY <1>34 DEF StateFirst, Starting, WriteAcquire
<1>35. CASE WriteClosed
  BY <1>35 DEF StateFirst, Starting, WriteClosed
<1>36. CASE WriteSend
  BY <1>36 DEF StateFirst, Starting, WriteSend, QueuedBack
<1>37. CASE Pause
  BY <1>37 DEF StateFirst, Starting, Pause, Serving, Event, QueuedBack
<1>38. CASE Resume
  BY <1>38 DEF StateFirst, Starting, Resume, Serving, Event, QueuedBack
<1>39. CASE RetryToOrigin
  BY <1>39 DEF StateFirst, Starting, RetryToOrigin, QueuedBack
<1>40. CASE Reconnect
  BY <1>40 DEF StateFirst, Starting, Reconnect
<1>41. CASE RetryToDest
  BY <1>41 DEF StateFirst, Starting, RetryToDest
<1>42. CASE Disconnect
  BY <1>42, Numbers, Lost, SMTT(30) DEF StateFirst, Starting, Disconnect, Event
<1> QED
  BY <1>1, <1>2, <1>3, <1>4, <1>5, <1>6, <1>7, <1>8, <1>9, <1>10, <1>11, <1>12, <1>13, <1>14,
      <1>15, <1>16, <1>17, <1>18, <1>19, <1>20, <1>21, <1>22, <1>23, <1>24, <1>25, <1>26,
      <1>27, <1>28, <1>29, <1>30, <1>31, <1>32, <1>33, <1>34, <1>35, <1>36, <1>37, <1>38,
      <1>39, <1>40, <1>41, <1>42 DEF Next, StartTunnel, OriginReader, DestReader, DestClient,
      DestWriter

\* Every pause is in force or withdrawn by a resume behind it.
LEMMA PauseStep ==
  ASSUME Counting, Types, RequestFirst, StateFirst, PauseInv, Next
  PROVE  PauseInv'
<1> USE DEF originElse, readElse, destElse, clientElse, pauseElse, linkVars, originVars,
        destVars, HeldBack
<1>1. CASE Request
  BY <1>1, PauseSame DEF StateFirst, Request
<1>2. CASE StoreTunnel
  BY <1>2, PauseSame DEF StateFirst, StoreTunnel
<1>3. CASE StoreState
  BY <1>3, PauseSame DEF StateFirst, StoreState
<1>4. CASE GrantBack
  BY <1>4, PauseSame DEF StateFirst, GrantBack
<1>5. CASE CheckActive
  BY <1>5, PauseSame DEF StateFirst, CheckActive
<1>6. CASE AcquireCredit
  BY <1>6, PauseSame DEF StateFirst, AcquireCredit
<1>7. CASE Abandon
  BY <1>7, PauseSame DEF StateFirst, Abandon
<1>8. CASE ReadUnpaused
  BY <1>8, PauseSame DEF StateFirst, ReadUnpaused
<1>9. CASE ReadUser
  BY <1>9, PauseSame DEF StateFirst, ReadUser, Event
<1>10. CASE ReadEnds
  BY <1>10, PauseSame DEF StateFirst, ReadEnds
<1>11. CASE GraceOver
  BY <1>11, PauseSame DEF StateFirst, GraceOver
<1>12. CASE SendFrame
  BY <1>12, PauseSame DEF StateFirst, SendFrame, AtMost
<1>13. CASE SendClose
  BY <1>13, PauseSame DEF StateFirst, SendClose
<1>14. CASE RetryToDest
  BY <1>14, PauseSame DEF StateFirst, RetryToDest
<1>15. CASE DataToUser
  BY <1>15, Taken, PauseTaken, SMTT(30) DEF DataToUser
<1>16. CASE DataRefused
  BY <1>16, Taken, PauseTaken, SMTT(30) DEF DataRefused
<1>17. CASE CloseArrives
  BY <1>17, Taken, PauseTaken DEF CloseArrives
<1>18. CASE PauseArrives
  BY <1>18, Taken, PauseTaken DEF PauseArrives
<1>19. CASE ResumeArrives
  BY <1>19, Taken, PauseTaken DEF ResumeArrives
<1>20. CASE CreditsArrive
  BY <1>20, Taken, PauseTaken, SMTT(30) DEF CreditsArrive, AtMost
<1>21. CASE HandleTunnelRequest
  BY <1>21, Messages, Put, PauseSent, PauseSame DEF DeadPeer, RequestFirst, Untouched,
      HandleTunnelRequest
<1>22. CASE HandleTunnelClose
  BY <1>22, Messages, Put, PauseSent, PauseSame DEF DeadPeer, RequestFirst, Untouched,
      HandleTunnelClose, CloseConn
<1>23. CASE PipeRead
  BY <1>23, Messages, Put, PauseSent, PauseSame DEF DeadPeer, RequestFirst, Untouched,
      PipeRead
<1>24. CASE AddClientFails
  BY <1>24, Messages, Put, PauseSent, PauseSame DEF DeadPeer, RequestFirst, Untouched,
      AddClientFails, CloseConn
<1>25. CASE RemoveClient
  BY <1>25, Messages, Put, PauseSent, PauseSame DEF DeadPeer, RequestFirst, Untouched,
      RemoveClient, CloseConn
<1>26. CASE BackendCloses
  BY <1>26, Messages, Put, PauseSent, PauseSame DEF DeadPeer, RequestFirst, Untouched,
      BackendCloses, CloseConn
<1>27. CASE WriteSend
  BY <1>27, Messages, Put, PauseSent, PauseSame DEF DeadPeer, RequestFirst, Untouched,
      WriteSend
<1>28. CASE RetryToOrigin
  BY <1>28, Messages, Put, PauseSent, PauseSame DEF DeadPeer, RequestFirst, Untouched,
      RetryToOrigin
<1>29. CASE Pause
  <2>1. up /\ gen = 1 => ~DeadPeer
    BY <1>29, SMTT(30) DEF DeadPeer, RequestFirst, Pause, Serving, Event
  <2>2. QueuedBack(Msg("pause", 0)) /\ dpaused' = TRUE /\ up /\ gen = 1 => PauseInv'
    BY <1>29, <2>1, Messages, Put, PauseSent DEF Pause, Serving, Event
  <2>3. ~(up /\ gen = 1) => PauseInv'
    BY <1>29 DEF PauseInv, Pause, Serving, Event
  <2>4. back' = back /\ dpaused' = dpaused => PauseInv'
    BY <1>29, PauseSame DEF Pause, Serving, Event
  <2> QED
    BY <1>29, <2>2, <2>3, <2>4 DEF Pause, Serving, Event
<1>30. CASE Resume
  <2>1. up /\ gen = 1 => ~DeadPeer
    BY <1>30, SMTT(30) DEF DeadPeer, RequestFirst, Resume, Serving, Event
  <2>2. QueuedBack(Msg("resume", 0)) /\ dpaused' = FALSE /\ up /\ gen = 1 => PauseInv'
    BY <1>30, <2>1, Messages, Put, PauseSent DEF Resume, Serving, Event
  <2>3. ~(up /\ gen = 1) => PauseInv'
    BY <1>30 DEF PauseInv, Resume, Serving, Event
  <2>4. back' = back /\ dpaused' = dpaused => PauseInv'
    BY <1>30, PauseSame DEF Resume, Serving, Event
  <2> QED
    BY <1>30, <2>2, <2>3, <2>4 DEF Resume, Serving, Event
<1>31. CASE RequestIgnored
  BY <1>31, PauseSame DEF RequestIgnored
<1>32. CASE HandleTunnelData
  BY <1>32, PauseSame DEF HandleTunnelData
<1>33. CASE AddTunnelCredits
  BY <1>33, PauseSame DEF AddTunnelCredits, AtMost
<1>34. CASE PipeClosed
  BY <1>34, PauseSame DEF PipeClosed
<1>35. CASE AddClient
  BY <1>35, PauseSame DEF AddClient
<1>36. CASE SendData
  BY <1>36, PauseSame DEF SendData
<1>37. CASE PipeEOF
  BY <1>37, PauseSame DEF PipeEOF
<1>38. CASE Write
  BY <1>38, PauseSame DEF Write, Serving, Event
<1>39. CASE WriteAcquire
  BY <1>39, PauseSame DEF WriteAcquire
<1>40. CASE WriteClosed
  BY <1>40, PauseSame DEF WriteClosed
<1>41. CASE Disconnect
  BY <1>41 DEF Types, PauseInv, Disconnect, Event
<1>42. CASE Reconnect
  BY <1>42, SMTT(30) DEF Types, PauseInv, Reconnect
<1> QED
  BY <1>1, <1>2, <1>3, <1>4, <1>5, <1>6, <1>7, <1>8, <1>9, <1>10, <1>11, <1>12, <1>13, <1>14,
      <1>15, <1>16, <1>17, <1>18, <1>19, <1>20, <1>21, <1>22, <1>23, <1>24, <1>25, <1>26,
      <1>27, <1>28, <1>29, <1>30, <1>31, <1>32, <1>33, <1>34, <1>35, <1>36, <1>37, <1>38,
      <1>39, <1>40, <1>41, <1>42 DEF Next, StartTunnel, OriginReader, DestReader, DestClient,
      DestWriter

-----------------------------------------------------------------------------
(* Batches *)

\* One(b) is a number.
LEMMA Ones == One(TRUE) = 1 /\ One(FALSE) = 0 /\ \A b : One(b) \in {0, 1}
BY DEF One

\* The totals of both directions are numbers.
LEMMA Totals == ASSUME Counting, Types PROVE ToDest \in Nat /\ ToOrigin \in Nat
BY Numbers, Ones, SMTT(30) DEF ToDest, HeldToDest, AwayToDest, ToOrigin, HeldToOrigin,
   AwayToOrigin

\* A step that ends the tunnel, or leaves each direction a batch or as much as
\* it had.
LEMMA BatchKept ==
  ASSUME Counting, Types, BatchCirculates,
         Linked' =>
           /\ sendActive' => \/ Linked /\ sendActive /\ ToDest' \in Nat /\ ToDest' >= ToDest
                             \/ ToDest' >= Batch
           /\ creditActive' /\ dw' # "failed" =>
                \/ /\ Linked /\ creditActive /\ dw # "failed"
                   /\ ToOrigin' \in Nat /\ ToOrigin' >= ToOrigin
                \/ ToOrigin' >= Batch
  PROVE  BatchCirculates'
<1>1. ToDest \in Nat /\ ToOrigin \in Nat /\ Batch \in Nat
  BY Totals, TunnelConstants
<1> QED
  BY <1>1, SMTT(30) DEF BatchCirculates

\* As much is under way as before, or more.
LEMMA BatchGrows ==
  ASSUME Counting, Types, BatchCirculates, Linked' => Linked, sendActive' => sendActive,
         creditActive' /\ dw' # "failed" => creditActive /\ dw # "failed",
         Linked' => ToDest' \in Nat /\ ToDest' >= ToDest,
         Linked' /\ dw' # "failed" => ToOrigin' \in Nat /\ ToOrigin' >= ToOrigin
  PROVE  BatchCirculates'
  BY BatchKept

\* The numbers after a step.
LEMMA NumbersAfter ==
  ASSUME Counting, Types'
  PROVE  /\ Credits(fwd') \in Nat /\ Credits(back') \in Nat
         /\ recvConsumed' \in Nat /\ fconsumed' \in Nat
         /\ Owed(oretries') \in Nat /\ Owed(dretries') \in Nat
<1>1. fwd' \in Seq(Message) /\ back' \in Seq(Message)
  BY DEF Types
<1>2. Credits(fwd') \in Nat /\ Credits(back') \in Nat
  BY <1>1, ChannelNumbers
<1>3. oretries' \in Seq(1 .. Attempts) /\ dretries' \in Seq(1 .. Attempts)
  BY DEF Types, OriginTypes, DestTypes
<1>4. Owed(oretries') \in Nat /\ Owed(dretries') \in Nat
  BY <1>3, Retries
<1> QED
  BY <1>2, <1>4, TunnelConstants, SMTT(30) DEF Types, OriginTypes, DestTypes

\* A frame the origin's user or the destination's backend took is counted, or
\* goes back with its batch, at once or by a retry.
LEMMA DataReturned ==
  ASSUME Counting, Types, DataToUser, active, hasState
  PROVE  recvConsumed' + Credits(fwd') + Owed(oretries')
           = recvConsumed + 1 + Credits(fwd) + Owed(oretries)
<1>1. /\ recvConsumed \in Nat /\ Credits(fwd) \in Nat /\ Owed(oretries) \in Nat /\ Batch \in Nat
      /\ Owed(AddRetry(oretries)) = Owed(oretries) + Batch
  BY Numbers, Retries, TunnelConstants DEF Types, OriginTypes
<1>2. CASE recvConsumed' = recvConsumed + One(active /\ hasState) /\ UNCHANGED <<fwd, oretries>>
  BY <1>1, <1>2 DEF One
<1>3. CASE /\ recvConsumed + 1 = Batch /\ recvConsumed' = 0
           /\ PutFwd(Msg("credits", Batch)) /\ UNCHANGED oretries
  <2>1. Credits(fwd') = Credits(fwd) + Batch
    BY <1>3, FwdPut DEF Change
  <2> QED
    BY <1>1, <1>3, <2>1, SMTT(30)
<1>4. CASE /\ recvConsumed + 1 = Batch /\ recvConsumed' = 0
           /\ UNCHANGED fwd /\ oretries' = AddRetry(oretries)
  BY <1>1, <1>4, SMTT(30)
<1> QED
  BY <1>2, <1>3, <1>4, DataCounted

\* The same at the destination.
LEMMA FrameReturned ==
  ASSUME Counting, Types, PipeRead
  PROVE  LET before == fconsumed + 1 + Credits(back) + Owed(dretries)
             after == fconsumed' + Credits(back') + Owed(dretries')
         IN  after <= before /\ (~DeadPeer => after = before)
<1>1. /\ fconsumed \in 0 .. Batch - 1 /\ Credits(back) \in Nat /\ Owed(dretries) \in Nat
      /\ Batch \in Nat /\ Owed(AddRetry(dretries)) = Owed(dretries) + Batch
  BY Numbers, Retries, TunnelConstants DEF Types, DestTypes
<1>2. CASE fconsumed' = fconsumed + 1 /\ UNCHANGED <<back, dretries>>
  BY <1>1, <1>2, SMTT(30)
<1>3. CASE /\ ~(fconsumed + 1 < Batch) /\ fconsumed' = 0
           /\ PutBack(Msg("credits", Batch)) /\ UNCHANGED dretries
  <2>1. Credits(back') = Credits(back) + Batch
    BY <1>3, BackPut DEF Change
  <2> QED
    BY <1>1, <1>3, <2>1, SMTT(30)
<1>4. CASE /\ ~(fconsumed + 1 < Batch) /\ fconsumed' = 0
           /\ UNCHANGED back /\ dretries' = AddRetry(dretries)
  BY <1>1, <1>4, SMTT(30)
<1>5. CASE DeadPeer /\ fconsumed' = 0 /\ UNCHANGED <<back, dretries>>
  BY <1>1, <1>5, SMTT(30)
<1> QED
  BY <1>2, <1>3, <1>4, <1>5 DEF PipeRead, QueuedBack

\* What a retry sends is what it owed, unless it was the last attempt.
LEMMA RetriedToDest ==
  ASSUME Counting, Types, RetryToDest
  PROVE  LET before == Credits(fwd) + Owed(oretries)
             after == Credits(fwd') + Owed(oretries')
         IN  after <= before /\ (~gaveUp' => after = before)
<1>1. /\ Credits(fwd) \in Nat /\ Owed(oretries) \in Nat /\ Batch \in Nat /\ oretries # <<>>
      /\ Owed(EndRetry(oretries)) = Owed(oretries) - Batch
      /\ Owed(DropFirst(oretries)) =
               IF Head(oretries) = 1 THEN Owed(oretries) - Batch ELSE Owed(oretries)
  BY Numbers, Retries, TunnelConstants DEF Types, OriginTypes, RetryToDest
<1>2. CASE PutFwd(Msg("credits", Batch)) /\ oretries' = EndRetry(oretries)
  <2>1. Credits(fwd') = Credits(fwd) + Batch
    BY <1>2, FwdPut DEF Change
  <2> QED
    BY <1>1, <1>2, <2>1, SMTT(30)
<1>3. CASE Head(oretries) # 1 /\ oretries' = DropFirst(oretries) /\ UNCHANGED fwd
  BY <1>1, <1>3, SMTT(30)
<1>4. CASE gaveUp' /\ Head(oretries) = 1 /\ oretries' = DropFirst(oretries) /\ UNCHANGED fwd
  BY <1>1, <1>4, SMTT(30)
<1> QED
  BY <1>2, <1>3, <1>4 DEF RetryToDest

\* The same towards the origin.
LEMMA RetriedToOrigin ==
  ASSUME Counting, Types, RetryToOrigin
  PROVE  LET before == Credits(back) + Owed(dretries)
             after == Credits(back') + Owed(dretries')
         IN  after <= before /\ (~gaveUp' /\ ~DeadPeer => after = before)
<1>1. /\ Credits(back) \in Nat /\ Owed(dretries) \in Nat /\ Batch \in Nat /\ dretries # <<>>
      /\ Owed(EndRetry(dretries)) = Owed(dretries) - Batch
      /\ Owed(DropFirst(dretries)) =
               IF Head(dretries) = 1 THEN Owed(dretries) - Batch ELSE Owed(dretries)
  BY Numbers, Retries, TunnelConstants DEF Types, DestTypes, RetryToOrigin
<1>2. CASE PutBack(Msg("credits", Batch)) /\ dretries' = EndRetry(dretries)
  <2>1. Credits(back') = Credits(back) + Batch
    BY <1>2, BackPut DEF Change
  <2> QED
    BY <1>1, <1>2, <2>1, SMTT(30)
<1>3. CASE Head(dretries) # 1 /\ dretries' = DropFirst(dretries) /\ UNCHANGED back
  BY <1>1, <1>3, SMTT(30)
<1>4. CASE gaveUp' /\ Head(dretries) = 1 /\ dretries' = DropFirst(dretries) /\ UNCHANGED back
  BY <1>1, <1>4, SMTT(30)
<1>5. CASE DeadPeer /\ dretries' = EndRetry(dretries) /\ UNCHANGED back
  BY <1>1, <1>5, SMTT(30)
<1> QED
  BY <1>2, <1>3, <1>4, <1>5 DEF RetryToOrigin, QueuedBack

\* A batch stays in circulation.
LEMMA BatchStep ==
  ASSUME Counting, Types, Types', RequestFirst, StateFirst, BatchCirculates, Next
  PROVE  BatchCirculates'
<1> USE DEF originElse, readElse, destElse, clientElse, pauseElse, linkVars, originVars,
        destVars
<1>1. CASE Request
  BY <1>1, BatchKept DEF StateFirst, Starting, Linked, Request, SendFwd
<1>2. CASE StoreTunnel
  BY <1>2, BatchKept DEF StateFirst, Starting, Linked, StoreTunnel
<1>3. CASE StoreState
  BY <1>3, BatchKept DEF StateFirst, Starting, Linked, StoreState
<1>4. CASE Abandon
  BY <1>4, BatchKept DEF Linked, Abandon
<1>5. CASE SendClose
  BY <1>5, BatchKept DEF Linked, SendClose, SendFwd
<1>6. CASE GraceOver
  BY <1>6, BatchKept DEF Linked, GraceOver
<1>7. CASE DataRefused
  BY <1>7, BatchKept DEF Linked, DataRefused
<1>8. CASE CloseArrives
  BY <1>8, BatchKept DEF Linked, CloseArrives
<1>9. CASE HandleTunnelClose
  BY <1>9, BatchKept DEF Linked, HandleTunnelClose, CloseConn, SendBack, QueuedBack
<1>10. CASE PipeClosed
  BY <1>10, BatchKept DEF Linked, PipeClosed
<1>11. CASE AddClientFails
  BY <1>11, BatchKept DEF Linked, AddClientFails, CloseConn, SendBack, QueuedBack
<1>12. CASE RemoveClient
  BY <1>12, BatchKept DEF Linked, RemoveClient, CloseConn, SendBack, QueuedBack
<1>13. CASE BackendCloses
  BY <1>13, BatchKept DEF Linked, BackendCloses, CloseConn, SendBack, QueuedBack
<1>14. CASE WriteClosed
  BY <1>14, BatchKept DEF Linked, WriteClosed
<1>15. CASE Disconnect
  BY <1>15, BatchKept DEF Linked, Disconnect, Event
<1>16. CASE Reconnect
  BY <1>16, BatchKept, SMTT(30) DEF Linked, Types, Reconnect
<1>17. CASE CheckActive
  BY <1>17, Totals, BatchGrows, SMTT(30) DEF Linked, ToDest, HeldToDest, AwayToDest, ToOrigin,
      HeldToOrigin, AwayToOrigin, CheckActive
<1>18. CASE ReadUnpaused
  BY <1>18, Totals, BatchGrows, SMTT(30) DEF Linked, ToDest, HeldToDest, AwayToDest, ToOrigin,
      HeldToOrigin, AwayToOrigin, ReadUnpaused
<1>19. CASE ReadUser
  BY <1>19, Totals, BatchGrows, SMTT(30) DEF Linked, ToDest, HeldToDest, AwayToDest, ToOrigin,
      HeldToOrigin, AwayToOrigin, ReadUser, Event
<1>20. CASE ReadEnds
  BY <1>20, Totals, BatchGrows, SMTT(30) DEF Linked, ToDest, HeldToDest, AwayToDest, ToOrigin,
      HeldToOrigin, AwayToOrigin, ReadEnds
<1>21. CASE AddClient
  BY <1>21, Totals, BatchGrows, SMTT(30) DEF Linked, ToDest, HeldToDest, AwayToDest, ToOrigin,
      HeldToOrigin, AwayToOrigin, AddClient
<1>22. CASE SendData
  BY <1>22, Totals, BatchGrows, SMTT(30) DEF Linked, ToDest, HeldToDest, AwayToDest, ToOrigin,
      HeldToOrigin, AwayToOrigin, SendData
<1>23. CASE PipeEOF
  BY <1>23, Totals, BatchGrows DEF Linked, ToDest, HeldToDest, AwayToDest, ToOrigin,
      HeldToOrigin, AwayToOrigin, PipeEOF
<1>24. CASE GrantBack
  <2>1. ToDest' = ToDest
    BY <1>24, Numbers, FwdPut, SMTT(30) DEF Change, ToDest, HeldToDest, AwayToDest, GrantBack,
       SendFwd
  <2>2. ToOrigin' \in Nat /\ ToOrigin' >= ToOrigin
    BY <1>24, Numbers, FwdPut, Ones, TunnelConstants, SMTT(30) DEF Change, ToOrigin,
       HeldToOrigin,
        AwayToOrigin, GrantBack, SendFwd
  <2> QED
    BY <1>24, <2>1, <2>2, Totals, BatchGrows, SMTT(30) DEF Linked, GrantBack, SendFwd
<1>25. CASE AcquireCredit
  <2>1. ToOrigin' = ToOrigin
    BY <1>25 DEF ToOrigin, HeldToOrigin, AwayToOrigin, AcquireCredit
  <2>2. ~held
    BY <1>25 DEF StateFirst, AcquireCredit
  <2>3. One(held) = 0 /\ One(held') = 1
    BY <1>25, <2>2 DEF One, AcquireCredit
  <2>4. ToDest' = ToDest
    BY <1>25, <2>3, Numbers, Ones, SMTT(30) DEF ToDest, HeldToDest, AwayToDest, AcquireCredit
  <2> QED
    BY <1>25, <2>1, <2>4, Totals, BatchGrows, SMTT(30) DEF Linked, AcquireCredit
<1>26. CASE SendFrame
  <2>1. ToOrigin' = ToOrigin
    BY <1>26, Numbers, FwdPut, SMTT(30) DEF Change, ToOrigin, HeldToOrigin, AwayToOrigin,
       SendFrame,
        AtMost
  <2>2. One(held') = 0
    BY <1>26, Ones DEF SendFrame, AtMost
  <2>3. PutFwd(Msg("data", 0)) /\ sendCh' = sendCh => ToDest' \in Nat /\ ToDest' >= ToDest
    BY <1>26, <2>2, Numbers, FwdPut, Ones, SMTT(30) DEF Change, ToDest, HeldToDest, AwayToDest,
        SendFrame, AtMost
  <2>4. sendCh' = AtMost(sendCh + 1, Cap) => sendCh' \in Nat /\ sendCh' \in {sendCh + 1, Cap}
    BY <1>26, Numbers, TunnelConstants, SMTT(30) DEF SendFrame, AtMost
  <2>5. sendCh' = AtMost(sendCh + 1, Cap) /\ fwd' = fwd
          => ToDest' \in Nat /\ (ToDest' >= ToDest \/ ToDest' >= Batch)
    BY <1>26, <2>2, <2>4, Numbers, Ones, TunnelConstants, SMTT(30) DEF ToDest, HeldToDest,
       AwayToDest,
        SendFrame, AtMost
  <2> QED
    BY <1>26, <2>1, <2>3, <2>5, Totals, BatchKept, SMTT(30) DEF Linked, SendFrame
<1>27. CASE DataToUser
  <2>1. Count(fwd', "data") = Count(fwd, "data")
    BY <1>27, DataCounted, FwdPut, Numbers, SMTT(30) DEF Change
  <2>2. Credits(back') = Credits(back) /\ Count(back', "data") = Count(back, "data") - 1
    BY <1>27, BackTaken, Numbers, SMTT(30) DEF Change, DataToUser
  <2>3. ToDest' = ToDest
    BY <1>27, <2>1, <2>2 DEF ToDest, HeldToDest, AwayToDest, DataToUser
  <2>4. active /\ hasState => ToOrigin' = ToOrigin
    BY <1>27, <2>2, DataReturned, Numbers, NumbersAfter, Ones, SMTT(30) DEF ToOrigin,
       HeldToOrigin,
        AwayToOrigin, DataToUser
  <2> QED
    BY <1>27, <2>3, <2>4, Totals, BatchGrows, SMTT(30) DEF Linked, DataToUser
<1>28. CASE PauseArrives
  <2>1. ToDest' = ToDest
    BY <1>28, Numbers, BackTaken, SMTT(30) DEF Change, ToDest, HeldToDest, AwayToDest,
       PauseArrives
  <2>2. ToOrigin' = ToOrigin
    BY <1>28, Numbers, BackTaken, SMTT(30) DEF Change, ToOrigin, HeldToOrigin, AwayToOrigin,
        PauseArrives
  <2> QED
    BY <1>28, <2>1, <2>2, Totals, BatchGrows, SMTT(30) DEF Linked, PauseArrives
<1>29. CASE ResumeArrives
  <2>1. ToDest' = ToDest
    BY <1>29, Numbers, BackTaken, SMTT(30) DEF Change, ToDest, HeldToDest, AwayToDest,
       ResumeArrives
  <2>2. ToOrigin' = ToOrigin
    BY <1>29, Numbers, BackTaken, SMTT(30) DEF Change, ToOrigin, HeldToOrigin, AwayToOrigin,
        ResumeArrives
  <2> QED
    BY <1>29, <2>1, <2>2, Totals, BatchGrows, SMTT(30) DEF Linked, ResumeArrives
<1>30. CASE CreditsArrive
  <2>1. ToOrigin' = ToOrigin
    BY <1>30, Numbers, BackTaken, SMTT(30) DEF Change, ToOrigin, HeldToOrigin, AwayToOrigin,
        CreditsArrive, AtMost
  <2>2. hasState => sendCh' \in Nat /\ sendCh' >= Batch
    BY <1>30, Numbers, BackTaken, TunnelConstants, SMTT(30) DEF CreditsArrive, AtMost
  <2>3. hasState => ToDest' >= Batch
    BY <1>30, <2>2, Numbers, BackTaken, Ones, TunnelConstants, SMTT(30) DEF Change, ToDest,
       HeldToDest,
        AwayToDest, CreditsArrive, AtMost
  <2> QED
    BY <1>30, <2>1, <2>3, Totals, BatchKept, SMTT(30) DEF Linked, CreditsArrive
<1>31. CASE RequestIgnored
  <2>1. ToDest' = ToDest
    BY <1>31, Numbers, FwdTaken, SMTT(30) DEF Change, ToDest, HeldToDest, AwayToDest,
       RequestIgnored
  <2>2. ToOrigin' = ToOrigin
    BY <1>31, Numbers, FwdTaken, SMTT(30) DEF Change, ToOrigin, HeldToOrigin, AwayToOrigin,
        RequestIgnored
  <2> QED
    BY <1>31, <2>1, <2>2, Totals, BatchGrows, SMTT(30) DEF Linked, RequestIgnored
<1>32. CASE HandleTunnelRequest
  <2>1. Count(fwd', "request") \in Nat
    BY <1>32, ChannelNumbers DEF Types, HandleTunnelRequest
  <2>2. dpc = "none"
    BY <1>32, <2>1, Numbers, FwdTaken, SMTT(30) DEF RequestFirst, Change, HandleTunnelRequest
  <2> QED
    BY <1>32, <2>2, BatchKept DEF RequestFirst, Untouched, HandleTunnelRequest
<1>33. CASE HandleTunnelData
  <2>1. ToOrigin' = ToOrigin
    BY <1>33, Numbers, FwdTaken, SMTT(30) DEF Change, ToOrigin, HeldToOrigin, AwayToOrigin,
        HandleTunnelData
  <2>2. Linked => One(pipe) = 0 /\ One(pipe') = 1
    BY <1>33, Taken DEF Linked, One, HandleTunnelData
  <2>3. Linked => ToDest' = ToDest
    BY <1>33, <2>2, Numbers, FwdTaken, Ones, SMTT(30) DEF Change, ToDest, HeldToDest,
       AwayToDest,
        HandleTunnelData
  <2> QED
    BY <1>33, <2>1, <2>3, Totals, BatchGrows, SMTT(30) DEF Linked, HandleTunnelData
<1>34. CASE AddTunnelCredits
  <2>1. ToDest' = ToDest
    BY <1>34, Numbers, FwdTaken, SMTT(30) DEF Change, ToDest, HeldToDest, AwayToDest,
       AddTunnelCredits,
        AtMost
  <2>2. entry => dcred' \in Nat /\ dcred' >= Batch
    BY <1>34, Numbers, FwdTaken, TunnelConstants, SMTT(30) DEF AddTunnelCredits, AtMost
  <2>3. entry => ToOrigin' >= Batch
    BY <1>34, <2>2, Numbers, FwdTaken, Ones, TunnelConstants, SMTT(30) DEF Change, ToOrigin,
        HeldToOrigin, AwayToOrigin, AddTunnelCredits, AtMost
  <2> QED
    BY <1>34, <2>1, <2>3, Totals, BatchKept, SMTT(30) DEF Linked, AddTunnelCredits
<1>35. CASE PipeRead
  <2>1. Linked => ~DeadPeer
    BY <1>35, SMTT(30) DEF Linked, DeadPeer, RequestFirst, Untouched, PipeRead, QueuedBack
  <2>2. ToOrigin' = ToOrigin
    BY <1>35, Numbers, BackPut, TunnelConstants, SMTT(30) DEF Change, ToOrigin, HeldToOrigin,
        AwayToOrigin, PipeRead, QueuedBack
  <2>3. One(pipe) = 1 /\ One(pipe') = 0
    BY <1>35 DEF One, PipeRead, QueuedBack
  <2>4. Linked
          => fconsumed' + Credits(back') + Owed(dretries') = fconsumed + 1 + Credits(back) + Owed(dretries)
    BY <1>35, <2>1, FrameReturned
  <2>5. fwd' = fwd /\ sendCh' = sendCh /\ held' = held
    BY <1>35 DEF PipeRead, QueuedBack
  <2>6. Linked => ToDest' = ToDest
    BY <1>35, <2>3, <2>4, <2>5, Numbers, NumbersAfter, Ones, SMTT(30) DEF ToDest, HeldToDest,
        AwayToDest
  <2> QED
    BY <1>35, <2>2, <2>6, Totals, BatchGrows, SMTT(30) DEF Linked, PipeRead, QueuedBack
<1>36. CASE Write
  <2>1. ToDest' = ToDest
    BY <1>36 DEF ToDest, HeldToDest, AwayToDest, Write, Serving, Event
  <2>2. One(dw = "held") = 0 /\ One(dw' = "held") = 0
    BY <1>36 DEF One, Write, Serving, Event
  <2>3. ToOrigin' = ToOrigin
    BY <1>36, <2>2 DEF ToOrigin, HeldToOrigin, AwayToOrigin, Write, Serving, Event
  <2> QED
    BY <1>36, <2>1, <2>3, Totals, BatchGrows, SMTT(30) DEF Linked, Write, Serving, Event
<1>37. CASE WriteAcquire
  <2>1. ToDest' = ToDest
    BY <1>37 DEF ToDest, HeldToDest, AwayToDest, WriteAcquire
  <2>2. One(dw = "held") = 0 /\ One(dw' = "held") = 1
    BY <1>37 DEF One, WriteAcquire
  <2>3. ToOrigin' = ToOrigin
    BY <1>37, <2>2, Numbers, SMTT(30) DEF ToOrigin, HeldToOrigin, AwayToOrigin, WriteAcquire
  <2> QED
    BY <1>37, <2>1, <2>3, Totals, BatchGrows, SMTT(30) DEF Linked, WriteAcquire
<1>38. CASE WriteSend
  <2>1. Linked => ~DeadPeer
    BY <1>38, SMTT(30) DEF Linked, DeadPeer, RequestFirst, Untouched, WriteSend, QueuedBack
  <2>2. ToDest' = ToDest
    <3>1. back' = back \/ PutBack(Msg("data", 0))
      BY <1>38 DEF WriteSend, QueuedBack
    <3>2. Credits(back') = Credits(back)
      BY <3>1, Numbers, BackPut, SMTT(30) DEF Change
    <3> QED
      BY <1>38, <3>2 DEF ToDest, HeldToDest, AwayToDest, WriteSend
  <2>3. One(dw' = "held") = 0
    BY <1>38 DEF One, WriteSend, QueuedBack
  <2>4. Linked /\ dw' # "failed"
          => Count(back', "data") = Count(back, "data") + 1 /\ Credits(back') = Credits(back)
    <3>1. Linked /\ dw' # "failed" => PutBack(Msg("data", 0))
      BY <1>38, <2>1 DEF WriteSend, QueuedBack
    <3> QED
      BY <3>1, Numbers, BackPut, SMTT(30) DEF Change
  <2>5. Linked /\ dw' # "failed" => ToOrigin' \in Nat /\ ToOrigin' >= ToOrigin
    BY <1>38, <2>3, <2>4, Numbers, Ones, SMTT(30) DEF ToOrigin, HeldToOrigin, AwayToOrigin,
       WriteSend,
        QueuedBack
  <2> QED
    BY <1>38, <2>2, <2>5, Totals, BatchGrows, SMTT(30) DEF Linked, WriteSend, QueuedBack
<1>39. CASE Pause
  <2>1. back' = back \/ PutBack(Msg("pause", 0))
    BY <1>39 DEF Pause, Serving, Event, QueuedBack
  <2>2. Credits(back') = Credits(back) /\ Count(back', "data") = Count(back, "data")
    BY <1>39, <2>1, Numbers, BackPut, SMTT(30) DEF Change
  <2>3. ToDest' = ToDest
    BY <1>39, <2>2 DEF ToDest, HeldToDest, AwayToDest, Pause, Serving, Event, QueuedBack
  <2>4. ToOrigin' = ToOrigin
    BY <1>39, <2>2 DEF ToOrigin, HeldToOrigin, AwayToOrigin, Pause, Serving, Event,
        QueuedBack
  <2> QED
    BY <1>39, <2>3, <2>4, Totals, BatchGrows, SMTT(30) DEF Linked, Pause, Serving, Event,
       QueuedBack
<1>40. CASE Resume
  <2>1. back' = back \/ PutBack(Msg("resume", 0))
    BY <1>40 DEF Resume, Serving, Event, QueuedBack
  <2>2. Credits(back') = Credits(back) /\ Count(back', "data") = Count(back, "data")
    BY <1>40, <2>1, Numbers, BackPut, SMTT(30) DEF Change
  <2>3. ToDest' = ToDest
    BY <1>40, <2>2 DEF ToDest, HeldToDest, AwayToDest, Resume, Serving, Event, QueuedBack
  <2>4. ToOrigin' = ToOrigin
    BY <1>40, <2>2 DEF ToOrigin, HeldToOrigin, AwayToOrigin, Resume, Serving, Event,
        QueuedBack
  <2> QED
    BY <1>40, <2>3, <2>4, Totals, BatchGrows, SMTT(30) DEF Linked, Resume, Serving, Event,
       QueuedBack
<1>41. CASE RetryToDest
  <2>1. ToDest' = ToDest
    BY <1>41, Numbers, FwdPut, TunnelConstants, SMTT(30) DEF Change, ToDest, HeldToDest,
       AwayToDest,
        RetryToDest
  <2>2. Linked' => Credits(fwd') + Owed(oretries') = Credits(fwd) + Owed(oretries)
    BY <1>41, RetriedToDest DEF Linked
  <2>3. recvConsumed' = recvConsumed /\ back' = back /\ dcred' = dcred /\ dw' = dw
    BY <1>41 DEF RetryToDest
  <2>4. Linked' => ToOrigin' = ToOrigin
    BY <1>41, <2>2, <2>3, Numbers, NumbersAfter, Ones, SMTT(30) DEF ToOrigin, HeldToOrigin,
        AwayToOrigin
  <2>5. Linked' => Linked
    BY <1>41 DEF Linked, RetryToDest
  <2> QED
    BY <1>41, <2>1, <2>4, <2>5, Totals, BatchGrows, SMTT(30) DEF RetryToDest
<1>42. CASE RetryToOrigin
  <2>1. Linked => ~DeadPeer
    BY <1>42, SMTT(30) DEF Linked, DeadPeer, RequestFirst, Untouched, RetryToOrigin, QueuedBack
  <2>2. ToOrigin' = ToOrigin
    BY <1>42, Numbers, BackPut, TunnelConstants, SMTT(30) DEF Change, ToOrigin, HeldToOrigin,
        AwayToOrigin, RetryToOrigin, QueuedBack
  <2>3. Linked' => Linked
    BY <1>42 DEF Linked, RetryToOrigin, QueuedBack
  <2>4. Linked' => Credits(back') + Owed(dretries') = Credits(back) + Owed(dretries)
    BY <1>42, <2>1, <2>3, RetriedToOrigin DEF Linked
  <2>5. fconsumed' = fconsumed /\ fwd' = fwd /\ sendCh' = sendCh /\ held' = held /\ pipe' = pipe
    BY <1>42 DEF RetryToOrigin, QueuedBack
  <2>6. One(held) \in {0, 1} /\ One(pipe) \in {0, 1}
    BY <1>42 DEF One
  <2>7. Credits(back') + Owed(dretries') = Credits(back) + Owed(dretries) => ToDest' = ToDest
    BY <1>42, <2>5, <2>6, Numbers, NumbersAfter, SMTT(30) DEF ToDest, HeldToDest, AwayToDest
  <2> QED
    BY <1>42, <2>2, <2>3, <2>4, <2>7, Totals, BatchGrows, SMTT(30) DEF RetryToOrigin
<1> QED
  BY <1>1, <1>2, <1>3, <1>4, <1>5, <1>6, <1>7, <1>8, <1>9, <1>10, <1>11, <1>12, <1>13, <1>14,
      <1>15, <1>16, <1>17, <1>18, <1>19, <1>20, <1>21, <1>22, <1>23, <1>24, <1>25, <1>26,
      <1>27, <1>28, <1>29, <1>30, <1>31, <1>32, <1>33, <1>34, <1>35, <1>36, <1>37, <1>38,
      <1>39, <1>40, <1>41, <1>42 DEF Next, StartTunnel, OriginReader, DestReader, DestClient,
      DestWriter

=============================================================================
