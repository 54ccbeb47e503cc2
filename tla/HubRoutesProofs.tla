--------------------------- MODULE HubRoutesProofs --------------------------
(***************************************************************************)
(* Proofs about the backends of a hub, for any number of them.             *)
(*                                                                         *)
(* RouteAnnounce, for any number of route keys, any channel capacity and   *)
(* any number of announcements.  The heart of the argument: a backend's    *)
(* handler takes its version after it changed the pools, and reads the     *)
(* pools after it took the version.  So as long as no handler is between   *)
(* its change and its version (Calm), whatever an announcement with the    *)
(* newest version has read is still so, wherever that announcement is:     *)
(* being built, queued, on the wire or in the peer's table.                *)
(*                                                                         *)
(* Ingress, for any number of TCP connections and UDP users and any limit  *)
(* on flows: no client of a backend is forgotten.  EveryClientHeld is not  *)
(* inductive by itself: when a send fails, the reader takes the flow of    *)
(* its user out of the table and only then removes the client from the     *)
(* backend it has in hand.  FlowInv says that this is the backend of the   *)
(* flow, for which a user must have one flow at most.                      *)
(***************************************************************************)
EXTENDS HubRoutes, Integers, TLAPS

\* A leaf that names no prover is Zenon's.
USE ZenonT(30)

Calm == \A b \in Backends : pc[b] \notin {"register", "unregister"}

\* Announcement m, if it is the newest, agrees with the pools on the hosts of S.
Agrees(m, S) == m.ver = version => \A h \in S : (h \in m.hosts <=> pool[h] # {})

Labels == {"off", "register", "on", "unregister", "greet", "readOn", "readOff", "readConn"}

TypeInv ==
  /\ pool \in [Hosts -> SUBSET Backends] /\ version \in Nat
  /\ pc \in [Announcers -> Labels]
  /\ left \in [Announcers -> SUBSET Hosts] /\ mine \in [Announcers -> Announcement]
  /\ queue \in Seq(Announcement) /\ Len(queue) <= QueueCap
  /\ link \in {"down", "greet", "up"} /\ wire \in Seq(Announcement)
  /\ remote \in Announcement

\* No announcement is from the future.
PastInv ==
  /\ \A a \in Announcers : mine[a].ver <= version
  /\ \A i \in 1 .. Len(queue) : queue[i].ver <= version
  /\ \A i \in 1 .. Len(wire) : wire[i].ver <= version
  /\ remote.ver <= version

\* Before the first announcement only handlers that are still registering
\* have put anything into the pools.
StartInv == version = 0 => \A h \in Hosts : \A b \in pool[h] : pc[b] = "register"

\* What an announcement lists, its builder has visited.
ReadInv ==
  \A a \in Announcers :
    pc[a] \in {"readOn", "readOff", "readConn"} => mine[a].hosts \cap left[a] = {}

AgreeInv ==
  Calm =>
    /\ \A a \in Announcers :
         pc[a] \in {"readOn", "readOff", "readConn"} => Agrees(mine[a], Hosts \ left[a])
    /\ \A i \in 1 .. Len(queue) : Agrees(queue[i], Hosts)
    /\ \A i \in 1 .. Len(wire) : Agrees(wire[i], Hosts)
    /\ Agrees(remote, Hosts)

\* A peer whose connection is not up knows nothing.
LinkInv == link # "up" => remote = Nothing /\ wire = <<>>

\* A backend is in the pools it has visited, until it begins to leave.
PoolInv ==
  \A b \in Backends :
    /\ pc[b] = "register" => \A h \in Claims[b] \ left[b] : b \in pool[h]
    /\ pc[b] \in {"readOn", "on"} => \A h \in Claims[b] : b \in pool[h]

IInv == TypeInv /\ PastInv /\ StartInv /\ ReadInv /\ AgreeInv /\ LinkInv /\ PoolInv

-----------------------------------------------------------------------------
LEMMA Tables ==
  /\ DOMAIN Reading = {"register", "unregister", "greet"}
  /\ DOMAIN After = {"readOn", "readOff", "readConn"}
  /\ Reading["register"] = "readOn" /\ Reading["unregister"] = "readOff"
  /\ Reading["greet"] = "readConn"
  /\ After["readOn"] = "on" /\ After["readOff"] = "off" /\ After["readConn"] = "off"
BY DEF Reading, After

LEMMA NothingType == Nothing \in Announcement
BY DEF Nothing, Announcement

LEMMA InitInv == Init => IInv
<1> SUFFICES ASSUME Init PROVE IInv
  OBVIOUS
<1>1. TypeInv
  BY NothingType, AnnounceConstants, SMTT(30) DEF Init, TypeInv, Labels
<1>2. PastInv /\ LinkInv
  BY SMTT(30) DEF Init, PastInv, LinkInv, Nothing
<1>4. StartInv /\ PoolInv /\ ReadInv
  BY DEF Init, StartInv, PoolInv, ReadInv, Announcers
<1>3. AgreeInv
  BY SMTT(30) DEF Init, AgreeInv, Agrees, Nothing
<1> QED BY <1>1, <1>2, <1>3, <1>4 DEF IInv

LEMMA StepTypes == TypeInv /\ [Next]_vars => TypeInv'
<1> SUFFICES ASSUME TypeInv, [Next]_vars PROVE TypeInv'
  OBVIOUS
<1> USE NothingType, Tables, AnnounceConstants DEF TypeInv, Announcers
<1>1. ASSUME NEW b \in Backends, BackendConnects(b) \/ BackendLeaves(b) PROVE TypeInv'
  <2>1. left' \in [Announcers -> SUBSET Hosts]
    BY <1>1 DEF BackendConnects, BackendLeaves
  <2>2. pc' \in [Announcers -> Labels]
    BY <1>1 DEF BackendConnects, BackendLeaves, Labels
  <2> QED BY <1>1, <2>1, <2>2 DEF BackendConnects, BackendLeaves
<1>2. ASSUME NEW b \in Backends, NEW h \in Hosts, register(b, h) \/ unregister(b, h) PROVE TypeInv'
  BY <1>2, SMTT(30) DEF register, unregister
<1>3. ASSUME NEW a \in Announcers, TakeVersion(a) PROVE TypeInv'
  <2>1. pc' \in [Announcers -> Labels] /\ left' \in [Announcers -> SUBSET Hosts]
    BY <1>3 DEF TakeVersion, Labels
  <2>2. version' \in Nat /\ mine' \in [Announcers -> Announcement]
    BY <1>3, SMTT(30) DEF TakeVersion, Announcement
  <2> QED BY <1>3, <2>1, <2>2 DEF TakeVersion
<1>4. ASSUME NEW a \in Announcers, NEW h \in Hosts, HasBackends(a, h) PROVE TypeInv'
  <2>1. mine' \in [Announcers -> Announcement]
    BY <1>4 DEF HasBackends, Announcement
  <2> QED BY <1>4, <2>1 DEF HasBackends
<1>5. ASSUME NEW a \in Announcers, Broadcast(a) PROVE TypeInv'
  <2>1. pc' \in [Announcers -> Labels] /\ mine' \in [Announcers -> Announcement]
    BY <1>5 DEF Broadcast, Labels
  <2>2. queue' \in Seq(Announcement) /\ Len(queue') <= QueueCap
    BY <1>5, SMTT(30) DEF Broadcast
  <2>3. link' \in {"down", "greet", "up"}
    BY <1>5 DEF Broadcast
  <2> QED BY <1>5, <2>1, <2>2, <2>3 DEF Broadcast
<1>6. CASE Connect
  BY <1>6 DEF Connect, Labels
<1>7. CASE writePump
  BY <1>7, SMTT(30) DEF writePump
<1>8. CASE UpdateRoutesForPeer
  BY <1>8, SMTT(30) DEF UpdateRoutesForPeer
<1>9. CASE Disconnect
  BY <1>9, SMTT(30) DEF Disconnect
<1>10. CASE Restart
  BY <1>10, SMTT(30) DEF Restart, Labels
<1>11. CASE UNCHANGED vars
  BY <1>11 DEF vars
<1> QED BY <1>1, <1>2, <1>3, <1>4, <1>5, <1>6, <1>7, <1>8, <1>9, <1>10, <1>11
        DEF Next, Handler, Hub

LEMMA VersionTypes ==
  ASSUME TypeInv
  PROVE  /\ version \in Nat /\ remote.ver \in Nat
         /\ \A a \in Announcers : mine[a].ver \in Nat
         /\ \A i \in 1 .. Len(queue) : queue[i].ver \in Nat
         /\ \A i \in 1 .. Len(wire) : wire[i].ver \in Nat
<1>1. \A m \in Announcement : m.ver \in Nat
  BY DEF Announcement
<1>2. \A i \in 1 .. Len(queue) : queue[i] \in Announcement
  BY SMTT(30) DEF TypeInv
<1>3. \A i \in 1 .. Len(wire) : wire[i] \in Announcement
  BY SMTT(30) DEF TypeInv
<1> QED BY <1>1, <1>2, <1>3 DEF TypeInv

LEMMA StepPast == TypeInv /\ PastInv /\ [Next]_vars => PastInv'
<1> SUFFICES ASSUME TypeInv, PastInv, [Next]_vars PROVE PastInv'
  OBVIOUS
<1> USE Tables DEF TypeInv, PastInv, Announcement, Nothing
<1>1. ASSUME NEW b \in Backends, BackendConnects(b) \/ BackendLeaves(b) PROVE PastInv'
  BY <1>1, SMTT(30) DEF BackendConnects, BackendLeaves
<1>2. ASSUME NEW b \in Backends, NEW h \in Hosts, register(b, h) \/ unregister(b, h) PROVE PastInv'
  BY <1>2, SMTT(30) DEF register, unregister
<1>3. ASSUME NEW a \in Announcers, TakeVersion(a) PROVE PastInv'
  <2>1. version' = version + 1 /\ mine'[a].ver = version + 1
    BY <1>3 DEF TakeVersion
  <2>2. \A c \in Announcers : c # a => mine'[c] = mine[c]
    BY <1>3 DEF TakeVersion
  <2> HIDE DEF TypeInv, Announcement, Nothing
  <2>3. \A c \in Announcers : mine'[c].ver <= version'
    <3>1. ASSUME NEW c \in Announcers, c # a PROVE mine'[c].ver <= version'
      BY <2>1, <2>2, <3>1, VersionTypes, SMTT(30)
    <3> QED BY <2>1, <3>1, VersionTypes, SMTT(30)
  <2>4. queue' = queue /\ wire' = wire /\ remote' = remote
    BY <1>3 DEF TakeVersion
  <2> QED BY <2>1, <2>3, <2>4, VersionTypes, SMTT(30)
<1>4. ASSUME NEW a \in Announcers, NEW h \in Hosts, HasBackends(a, h) PROVE PastInv'
  BY <1>4 DEF HasBackends
<1>5. ASSUME NEW a \in Announcers, Broadcast(a) PROVE PastInv'
  <2>1. \A i \in 1 .. Len(queue') : queue'[i].ver <= version
    BY <1>5, SMTT(30) DEF Broadcast
  <2> QED BY <1>5, <2>1, SMTT(30) DEF Broadcast
<1>6. CASE Connect
  BY <1>6 DEF Connect
<1>7. CASE writePump
  <2>1. /\ \A i \in 1 .. Len(queue') : queue'[i].ver <= version
        /\ \A i \in 1 .. Len(wire') : wire'[i].ver <= version
    BY <1>7, SMTT(30) DEF writePump
  <2> QED BY <1>7, <2>1 DEF writePump
<1>8. CASE UpdateRoutesForPeer
  <2>1. /\ \A i \in 1 .. Len(wire') : wire'[i].ver <= version
        /\ remote'.ver <= version
    BY <1>8, SMTT(30) DEF UpdateRoutesForPeer
  <2> QED BY <1>8, <2>1 DEF UpdateRoutesForPeer
<1>9. CASE Disconnect
  BY <1>9, SMTT(30) DEF Disconnect
<1>10. CASE Restart
  BY <1>10, SMTT(30) DEF Restart
<1>11. CASE UNCHANGED vars
  BY <1>11 DEF vars
<1> QED BY <1>1, <1>2, <1>3, <1>4, <1>5, <1>6, <1>7, <1>8, <1>9, <1>10, <1>11
        DEF Next, Handler, Hub

LEMMA StepStart == TypeInv /\ StartInv /\ [Next]_vars => StartInv'
<1> SUFFICES ASSUME TypeInv, StartInv, [Next]_vars PROVE StartInv'
  OBVIOUS
<1> USE Tables, AnnounceConstants DEF TypeInv, StartInv, Announcers
<1>1. ASSUME NEW b \in Backends, BackendConnects(b) \/ BackendLeaves(b) PROVE StartInv'
  BY <1>1, SMTT(30) DEF BackendConnects, BackendLeaves
<1>2. ASSUME NEW b \in Backends, NEW h \in Hosts, register(b, h) \/ unregister(b, h) PROVE StartInv'
  <2>1. CASE register(b, h)
    <3>1. \A g \in Hosts : pool'[g] \subseteq pool[g] \cup {b}
      BY <2>1 DEF register
    <3> QED BY <2>1, <3>1, SMTT(30) DEF register
  <2>2. CASE unregister(b, h)
    <3>1. \A g \in Hosts : pool'[g] \subseteq pool[g]
      BY <2>2 DEF unregister
    <3> QED BY <2>2, <3>1 DEF unregister
  <2> QED BY <1>2, <2>1, <2>2
<1>3. ASSUME NEW a \in Announcers, TakeVersion(a) PROVE StartInv'
  BY <1>3, SMTT(30) DEF TakeVersion
<1>4. ASSUME NEW a \in Announcers, NEW h \in Hosts, HasBackends(a, h) PROVE StartInv'
  BY <1>4, SMTT(30) DEF HasBackends
<1>5. ASSUME NEW a \in Announcers, Broadcast(a) PROVE StartInv'
  BY <1>5, SMTT(30) DEF Broadcast
<1>6. CASE Connect
  BY <1>6, SMTT(30) DEF Connect
<1>7. CASE writePump
  BY <1>7, SMTT(30) DEF writePump
<1>8. CASE UpdateRoutesForPeer
  BY <1>8, SMTT(30) DEF UpdateRoutesForPeer
<1>9. CASE Disconnect
  BY <1>9, SMTT(30) DEF Disconnect
<1>10. CASE Restart
  BY <1>10 DEF Restart
<1>11. CASE UNCHANGED vars
  BY <1>11, SMTT(30) DEF vars
<1> QED BY <1>1, <1>2, <1>3, <1>4, <1>5, <1>6, <1>7, <1>8, <1>9, <1>10, <1>11
        DEF Next, Handler, Hub

LEMMA StepPool == TypeInv /\ PoolInv /\ [Next]_vars => PoolInv'
<1> SUFFICES ASSUME TypeInv, PoolInv, [Next]_vars PROVE PoolInv'
  OBVIOUS
<1> USE Tables, AnnounceConstants DEF TypeInv, PoolInv, Announcers
<1>1. ASSUME NEW b \in Backends, BackendConnects(b) \/ BackendLeaves(b) PROVE PoolInv'
  BY <1>1, SMTT(30) DEF BackendConnects, BackendLeaves
<1>2. ASSUME NEW b \in Backends, NEW h \in Hosts, register(b, h) \/ unregister(b, h) PROVE PoolInv'
  BY <1>2, SMTT(30) DEF register, unregister
<1>3. ASSUME NEW a \in Announcers, TakeVersion(a) PROVE PoolInv'
  BY <1>3 DEF TakeVersion
<1>4. ASSUME NEW a \in Announcers, NEW h \in Hosts, HasBackends(a, h) PROVE PoolInv'
  BY <1>4 DEF HasBackends
<1>5. ASSUME NEW a \in Announcers, Broadcast(a) PROVE PoolInv'
  BY <1>5 DEF Broadcast
<1>6. CASE Connect
  BY <1>6 DEF Connect
<1>7. CASE writePump
  BY <1>7 DEF writePump
<1>8. CASE UpdateRoutesForPeer
  BY <1>8 DEF UpdateRoutesForPeer
<1>9. CASE Disconnect
  BY <1>9 DEF Disconnect
<1>10. CASE Restart
  BY <1>10 DEF Restart
<1>11. CASE UNCHANGED vars
  BY <1>11 DEF vars
<1> QED BY <1>1, <1>2, <1>3, <1>4, <1>5, <1>6, <1>7, <1>8, <1>9, <1>10, <1>11
        DEF Next, Handler, Hub

LEMMA StepLink == TypeInv /\ LinkInv /\ [Next]_vars => LinkInv'
<1> SUFFICES ASSUME TypeInv, LinkInv, [Next]_vars PROVE LinkInv'
  OBVIOUS
<1> USE DEF TypeInv, LinkInv
<1>1. ASSUME NEW b \in Backends, BackendConnects(b) \/ BackendLeaves(b) PROVE LinkInv'
  BY <1>1 DEF BackendConnects, BackendLeaves
<1>2. ASSUME NEW b \in Backends, NEW h \in Hosts, register(b, h) \/ unregister(b, h) PROVE LinkInv'
  BY <1>2 DEF register, unregister
<1>3. ASSUME NEW a \in Announcers, TakeVersion(a) PROVE LinkInv'
  BY <1>3 DEF TakeVersion
<1>4. ASSUME NEW a \in Announcers, NEW h \in Hosts, HasBackends(a, h) PROVE LinkInv'
  BY <1>4 DEF HasBackends
<1>5. ASSUME NEW a \in Announcers, Broadcast(a) PROVE LinkInv'
  BY <1>5 DEF Broadcast
<1>6. CASE Connect
  BY <1>6 DEF Connect
<1>7. CASE writePump
  BY <1>7 DEF writePump
<1>8. CASE UpdateRoutesForPeer
  BY <1>8 DEF UpdateRoutesForPeer
<1>9. CASE Disconnect
  BY <1>9 DEF Disconnect
<1>10. CASE Restart
  BY <1>10 DEF Restart
<1>11. CASE UNCHANGED vars
  BY <1>11 DEF vars
<1> QED BY <1>1, <1>2, <1>3, <1>4, <1>5, <1>6, <1>7, <1>8, <1>9, <1>10, <1>11
        DEF Next, Handler, Hub

LEMMA StepRead == TypeInv /\ ReadInv /\ [Next]_vars => ReadInv'
<1> SUFFICES ASSUME TypeInv, ReadInv, [Next]_vars PROVE ReadInv'
  OBVIOUS
<1> USE Tables, AnnounceConstants DEF TypeInv, ReadInv, Announcers
<1>1. ASSUME NEW b \in Backends, BackendConnects(b) \/ BackendLeaves(b) PROVE ReadInv'
  BY <1>1 DEF BackendConnects, BackendLeaves
<1>2. ASSUME NEW b \in Backends, NEW h \in Hosts, register(b, h) \/ unregister(b, h) PROVE ReadInv'
  BY <1>2 DEF register, unregister
<1>3. ASSUME NEW a \in Announcers, TakeVersion(a) PROVE ReadInv'
  BY <1>3 DEF TakeVersion
<1>4. ASSUME NEW a \in Announcers, NEW h \in Hosts, HasBackends(a, h) PROVE ReadInv'
  <2>1. mine'[a].hosts \subseteq mine[a].hosts \cup {h} /\ left'[a] = left[a] \ {h}
    BY <1>4 DEF HasBackends, Announcement
  <2>2. \A c \in Announcers : c # a => mine'[c] = mine[c] /\ left'[c] = left[c]
    BY <1>4 DEF HasBackends
  <2> QED BY <1>4, <2>1, <2>2 DEF HasBackends
<1>5. ASSUME NEW a \in Announcers, Broadcast(a) PROVE ReadInv'
  BY <1>5 DEF Broadcast
<1>6. CASE Connect
  BY <1>6 DEF Connect
<1>7. CASE writePump
  BY <1>7 DEF writePump
<1>8. CASE UpdateRoutesForPeer
  BY <1>8 DEF UpdateRoutesForPeer
<1>9. CASE Disconnect
  BY <1>9 DEF Disconnect
<1>10. CASE Restart
  BY <1>10 DEF Restart
<1>11. CASE UNCHANGED vars
  BY <1>11 DEF vars
<1> QED BY <1>1, <1>2, <1>3, <1>4, <1>5, <1>6, <1>7, <1>8, <1>9, <1>10, <1>11
        DEF Next, Handler, Hub

\* Each action keeps the newest announcement true, one place at a time.
LEMMA StepAgree ==
  ASSUME TypeInv, PastInv, StartInv, ReadInv, AgreeInv, [Next]_vars
  PROVE  AgreeInv'
<1> USE Tables DEF TypeInv
<1>1. ASSUME NEW b \in Backends, BackendConnects(b) \/ BackendLeaves(b) PROVE AgreeInv'
  <2>1. ~Calm'
    BY <1>1 DEF BackendConnects, BackendLeaves, Calm, Announcers
  <2> QED BY <2>1 DEF AgreeInv
<1>2. ASSUME NEW b \in Backends, NEW h \in Hosts, register(b, h) \/ unregister(b, h) PROVE AgreeInv'
  <2>1. ~Calm'
    BY <1>2 DEF register, unregister, Calm
  <2> QED BY <2>1 DEF AgreeInv
<1>3. ASSUME NEW a \in Announcers, TakeVersion(a) PROVE AgreeInv'
  <2>1. version' = version + 1 /\ left'[a] = Hosts
    BY <1>3 DEF TakeVersion
  <2>2. \A c \in Announcers : Agrees(mine[c], Hosts \ left[c])'
    <3>1. ASSUME NEW c \in Announcers, c # a PROVE Agrees(mine[c], Hosts \ left[c])'
      <4>1. mine'[c].ver <= version
        BY <1>3, <3>1 DEF TakeVersion, PastInv
      <4>2. mine'[c].ver \in Nat
        BY <1>3, <3>1 DEF TakeVersion, Announcement
      <4> QED BY <2>1, <4>1, <4>2, SMTT(30) DEF Agrees
    <3>2. Agrees(mine[a], Hosts \ left[a])'
      BY <2>1 DEF Agrees
    <3> QED BY <3>1, <3>2
  <2>3. \A i \in 1 .. Len(queue) : Agrees(queue[i], Hosts)'
    BY <1>3, <2>1, SMTT(30) DEF TakeVersion, Agrees, PastInv, Announcement
  <2>4. \A i \in 1 .. Len(wire) : Agrees(wire[i], Hosts)'
    BY <1>3, <2>1, SMTT(30) DEF TakeVersion, Agrees, PastInv, Announcement
  <2>5. Agrees(remote, Hosts)'
    BY <1>3, <2>1, SMTT(30) DEF TakeVersion, Agrees, PastInv, Announcement
  <2>6. queue' = queue /\ wire' = wire
    BY <1>3 DEF TakeVersion
  <2> QED BY <2>2, <2>3, <2>4, <2>5, <2>6 DEF AgreeInv
<1>4. ASSUME NEW a \in Announcers, NEW h \in Hosts, HasBackends(a, h) PROVE AgreeInv'
  <2> SUFFICES ASSUME Calm PROVE AgreeInv'
    BY <1>4 DEF HasBackends, AgreeInv, Calm
  <2>1. \A c \in Announcers : pc[c] \in DOMAIN After => Agrees(mine[c], Hosts \ left[c])'
    <3>1. ASSUME NEW c \in Announcers, c # a, pc[c] \in DOMAIN After
          PROVE  Agrees(mine[c], Hosts \ left[c])'
      <4>1. mine'[c] = mine[c] /\ left'[c] = left[c]
        BY <1>4, <3>1 DEF HasBackends
      <4> QED BY <1>4, <3>1, <4>1 DEF HasBackends, AgreeInv, Agrees
    <3>2. Agrees(mine[a], Hosts \ left[a])'
      <4>1. Agrees(mine[a], Hosts \ left[a])
        BY <1>4 DEF HasBackends, AgreeInv
      <4>2. /\ mine'[a].ver = mine[a].ver
            /\ mine'[a].hosts = IF pool[h] # {} THEN mine[a].hosts \cup {h} ELSE mine[a].hosts
        BY <1>4 DEF HasBackends, Announcement
      <4>3. left'[a] = left[a] \ {h} /\ h \in left[a]
        BY <1>4 DEF HasBackends
      <4>5. pool' = pool /\ version' = version
        BY <1>4 DEF HasBackends
      <4>7. h \notin mine[a].hosts
        BY <1>4 DEF HasBackends, ReadInv
      <4> HIDE DEF TypeInv
      <4>6. ASSUME mine[a].ver = version, NEW g \in Hosts \ left'[a]
            PROVE  g \in mine'[a].hosts <=> pool[g] # {}
        <5>1. CASE g = h
          BY <4>2, <4>7, <5>1
        <5>2. CASE g # h
          BY <4>1, <4>2, <4>3, <4>6, <5>2 DEF Agrees
        <5> QED BY <5>1, <5>2
      <4> QED BY <4>2, <4>5, <4>6 DEF Agrees
    <3> QED BY <3>1, <3>2
  <2> QED BY <1>4, <2>1, SMTT(30) DEF HasBackends, AgreeInv, Agrees
<1>5. ASSUME NEW a \in Announcers, Broadcast(a) PROVE AgreeInv'
  <2> SUFFICES ASSUME Calm PROVE AgreeInv'
    BY <1>5 DEF Broadcast, AgreeInv, Calm, Announcers
  <2>1. Agrees(mine[a], Hosts)
    <3>1. pc[a] \in {"readOn", "readOff", "readConn"} /\ left[a] = {}
      BY <1>5, Tables DEF Broadcast
    <3> HIDE DEF TypeInv
    <3>2. Agrees(mine[a], Hosts \ left[a])
      BY <3>1 DEF AgreeInv
    <3> QED BY <3>1, <3>2
  <2>2. \A i \in 1 .. Len(queue') : Agrees(queue'[i], Hosts)
    BY <1>5, <2>1, SMTT(30) DEF Broadcast, AgreeInv
  <2>3. \A c \in Announcers : pc'[c] \in DOMAIN After =>
           c # a /\ mine'[c] = mine[c] /\ pc'[c] = pc[c]
    BY <1>5 DEF Broadcast
  <2>4. pool' = pool /\ version' = version /\ left' = left /\ wire' = wire /\ remote' = remote
    BY <1>5 DEF Broadcast
  <2> QED BY <2>2, <2>3, <2>4, SMTT(30) DEF AgreeInv, Agrees
<1>6. CASE Connect
  <2>1. Calm' => Calm
    BY <1>6, AnnounceConstants DEF Connect, Calm, Announcers
  <2>2. \A c \in Announcers : pc'[c] \in {"readOn", "readOff", "readConn"} => pc'[c] = pc[c]
    BY <1>6 DEF Connect
  <2>3. UNCHANGED <<pool, version, left, mine, queue, wire, remote>>
    BY <1>6 DEF Connect
  <2> HIDE DEF TypeInv
  <2> SUFFICES ASSUME Calm PROVE AgreeInv'
    BY <2>1 DEF AgreeInv
  <2> QED BY <2>2, <2>3 DEF AgreeInv, Agrees
<1>7. CASE writePump
  <2>1. /\ \A i \in 1 .. Len(wire') : wire'[i] = queue[1] \/ \E j \in 1 .. Len(wire) : wire'[i] = wire[j]
        /\ \A i \in 1 .. Len(queue') : i + 1 \in 1 .. Len(queue) /\ queue'[i] = queue[i + 1]
        /\ 1 \in 1 .. Len(queue)
    <3>1. /\ queue # <<>> /\ queue \in Seq(Announcement) /\ wire \in Seq(Announcement)
          /\ queue' = Tail(queue) /\ wire' = Append(wire, Head(queue))
      BY <1>7 DEF writePump
    <3>2. /\ \A i \in 1 .. Len(queue') : i + 1 \in 1 .. Len(queue) /\ queue'[i] = queue[i + 1]
          /\ 1 \in 1 .. Len(queue) /\ Head(queue) = queue[1] /\ queue[1] \in Announcement
      BY <3>1, SMTT(30)
    <3>3. \A i \in 1 .. Len(wire') :
            wire'[i] = queue[1] \/ \E j \in 1 .. Len(wire) : wire'[i] = wire[j]
      <4>1. wire' = Append(wire, queue[1])
        BY <3>1, <3>2
      <4> QED
        BY <3>1, <3>2, <4>1, SMTT(30)
    <3> QED
      BY <3>2, <3>3
  <2>2. UNCHANGED <<pool, version, pc, left, mine, remote>>
    BY <1>7 DEF writePump
  <2> HIDE DEF TypeInv
  <2> SUFFICES ASSUME Calm PROVE AgreeInv'
    BY <2>2 DEF AgreeInv, Calm
  <2>3. \A i \in 1 .. Len(wire') : Agrees(wire'[i], Hosts)
    BY <2>1 DEF AgreeInv
  <2>4. \A i \in 1 .. Len(queue') : Agrees(queue'[i], Hosts)
    BY <2>1 DEF AgreeInv
  <2> QED BY <2>2, <2>3, <2>4 DEF AgreeInv, Agrees
<1>8. CASE UpdateRoutesForPeer
  <2>1. /\ \A i \in 1 .. Len(wire') : i + 1 \in 1 .. Len(wire) /\ wire'[i] = wire[i + 1]
        /\ 1 \in 1 .. Len(wire) /\ (remote' = wire[1] \/ remote' = remote)
    BY <1>8, SMTT(30) DEF UpdateRoutesForPeer
  <2>2. UNCHANGED <<pool, version, pc, left, mine, queue>>
    BY <1>8 DEF UpdateRoutesForPeer
  <2> QED BY <2>1, <2>2, SMTT(30) DEF AgreeInv, Agrees, Calm
<1>9. CASE Disconnect
  <2> SUFFICES ASSUME Calm PROVE AgreeInv'
    BY <1>9 DEF Disconnect, AgreeInv, Calm
  <2>1. Agrees(Nothing, Hosts)
    BY SMTT(30) DEF Agrees, Nothing, StartInv, Calm
  <2>2. remote' = Nothing /\ wire' = <<>> /\ UNCHANGED <<pool, version, pc, left, mine, queue>>
    BY <1>9 DEF Disconnect
  <2> QED BY <2>1, <2>2, SMTT(30) DEF AgreeInv, Agrees
<1>10. CASE Restart
  BY <1>10, SMTT(30) DEF Restart, AgreeInv, Agrees, Nothing
<1>11. CASE UNCHANGED vars
  BY <1>11 DEF vars, AgreeInv, Agrees, Calm
<1> QED BY <1>1, <1>2, <1>3, <1>4, <1>5, <1>6, <1>7, <1>8, <1>9, <1>10, <1>11
        DEF Next, Handler, Hub

LEMMA Invariant == Spec => []IInv
<1>1. IInv /\ [Next]_vars => IInv'
  BY StepTypes, StepPast, StepStart, StepPool, StepLink, StepRead, StepAgree DEF IInv
<1> QED BY <1>1, InitInv, PTL DEF Spec

\* Type correctness; the send channel never holds more than its capacity.
THEOREM TypeCorrect == Spec => []TypeOK
<1>1. IInv => TypeOK
  BY Tables DEF IInv, TypeInv, TypeOK, Labels
<1> QED BY <1>1, Invariant, PTL

\* AnnounceLocalRoutes takes the version before it reads the pools: for any
\* number of backends, the newest announcement tells the whole truth.
THEOREM NewestIsTrueHolds == Spec => []NewestIsTrue
<1>1. IInv => NewestIsTrue
  <2> SUFFICES ASSUME IInv, Settled, remote.ver = version PROVE remote.hosts = LocalRoutes
    BY DEF NewestIsTrue
  <2>1. Calm
    BY DEF Settled, Calm
  <2>2. Agrees(remote, Hosts) /\ remote.hosts \subseteq Hosts
    BY <2>1 DEF IInv, AgreeInv, TypeInv, Announcement
  <2> QED BY <2>2 DEF Agrees, LocalRoutes
<1> QED BY <1>1, Invariant, PTL

\* register and unregister of other backends never empty a pool a backend is in.
THEOREM ServedIsPooledHolds == Spec => []ServedIsPooled
<1>1. IInv => ServedIsPooled
  BY AnnounceConstants DEF IInv, PoolInv, ServedIsPooled, LocalRoutes
<1> QED BY <1>1, Invariant, PTL

\* UpdateRoutesForPeer ignores what it has seen: within a connection the
\* peer's version only grows.
THEOREM NeverBackwardsHolds == Spec => NeverBackwards
<1>1. IInv /\ [Next]_vars => [link' = link => remote'.ver >= remote.ver]_vars
  <2> SUFFICES ASSUME IInv, [Next]_vars, link' = link PROVE remote'.ver >= remote.ver
    OBVIOUS
  <2> USE DEF IInv
  <2>1. CASE UpdateRoutesForPeer
    <3>1. 1 \in 1 .. Len(wire) /\ Head(wire) = wire[1]
      BY <2>1, SMTT(30) DEF UpdateRoutesForPeer, TypeInv
    <3>2. Head(wire).ver \in Nat /\ remote.ver \in Nat
      BY <3>1, VersionTypes
    <3> QED BY <2>1, <3>2, SMTT(30) DEF UpdateRoutesForPeer
  <2>2. CASE Disconnect \/ Restart
    BY <2>2, VersionTypes, SMTT(30) DEF Disconnect, Restart, LinkInv, Nothing
  <2>3. CASE remote' = remote
    BY <2>3, VersionTypes, SMTT(30)
  <2>4. remote' = remote \/ UpdateRoutesForPeer \/ Disconnect \/ Restart
    BY DEF Next, vars, Handler, Hub, BackendConnects, BackendLeaves, register, unregister,
           TakeVersion, HasBackends, Broadcast, Connect, writePump
  <2> QED BY <2>1, <2>2, <2>3, <2>4
<1> QED BY <1>1, Invariant, PTL DEF Spec, NeverBackwards

-----------------------------------------------------------------------------
(* Ingress: definitions *)


Flows == [user : Users, backend : Backends, age : Int]
Adding == {"add", "store", "send", "read", "remove"}
Locs == Adding \cup {"idle", "tls", "http", "route"}

\* Table s has one flow of each user at most; it has a flow of u to b.
OneEach(s) == \A i, j \in DOMAIN s : s[i].user = s[j].user => i = j
In(s, u, b) == \E i \in DOMAIN s : s[i].user = u /\ s[i].backend = b

MemberInv == members \in [I!Keys -> SUBSET Backends]

ConnInv ==
  /\ tpc \in [Conns -> Locs] /\ tb \in [Conns -> Backends \cup {I!None}]
  /\ tkey \in [Conns -> I!Keys \cup {I!None}]
  /\ \A c \in Conns : /\ tpc[c] \in Adding => tb[c] \in Backends
                      /\ tpc[c] = "route" => tkey[c] \in I!Keys

FlowInv ==
  /\ table \in Seq(Flows) /\ OneEach(table)
  /\ upc \in {"add", "store", "table", "send", "drop"} => ub \in Backends /\ user \in Users
  /\ upc = "send" => \A i \in DOMAIN table : table[i].user = user => table[i].backend = ub
  /\ upc \in {"add", "store", "table"} => I!Has(user) = {}

ClientInv == clients \in [Backends -> SUBSET (Conns \cup Users)] /\ I!EveryClientHeld

IngressInv == MemberInv /\ ConnInv /\ FlowInv /\ ClientInv

-----------------------------------------------------------------------------
(* Tables *)

\* What CutAt leaves, index by index.
LEMMA CutFacts ==
  ASSUME NEW S, NEW s \in Seq(S), NEW i \in 1 .. Len(s)
  PROVE  /\ I!CutAt(s, i) \in Seq(S) /\ Len(I!CutAt(s, i)) = Len(s) - 1
         /\ \A j \in 1 .. Len(s) - 1 :
              I!CutAt(s, i)[j] = IF j < i THEN s[j] ELSE s[j + 1]
<1> DEFINE a == SubSeq(s, 1, i - 1)
           z == SubSeq(s, i + 1, Len(s))
<1>1. a \in Seq(S) /\ Len(a) = i - 1 /\ \A j \in 1 .. i - 1 : a[j] = s[j]
  BY SMTT(30)
<1>2. z \in Seq(S) /\ Len(z) = Len(s) - i /\ \A j \in 1 .. Len(s) - i : z[j] = s[i + j]
  BY SMTT(30)
<1>3. I!CutAt(s, i) = a \o z
  BY DEF I!CutAt
<1> HIDE DEF a, z
<1>n. Len(s) \in Nat /\ i \in Int
  BY SMTT(30)
<1>4. a \o z \in Seq(S) /\ Len(a \o z) = Len(s) - 1
  <2>1. a \in Seq(S) /\ z \in Seq(S)
    BY <1>1, <1>2
  <2>2. a \o z \in Seq(S) /\ Len(a \o z) = Len(a) + Len(z)
    BY <2>1, SMTT(30)
  <2> QED
    BY <1>1, <1>2, <1>n, <2>2, SMTT(30)
<1>5. ASSUME NEW j \in 1 .. Len(s) - 1
      PROVE  (a \o z)[j] = IF j < i THEN s[j] ELSE s[j + 1]
  <2>1. (a \o z)[j] = IF j <= i - 1 THEN a[j] ELSE z[j - (i - 1)]
    BY <1>1, <1>2, SMTT(30)
  <2>2. CASE j < i
    BY <1>1, <2>1, <2>2, SMTT(30)
  <2>3. CASE j >= i
    <3>1. j - (i - 1) \in 1 .. Len(s) - i /\ i + (j - (i - 1)) = j + 1
      BY <2>3, SMTT(30)
    <3> QED
      BY <1>2, <2>1, <2>3, <3>1, SMTT(30)
  <2>4. j < i \/ j >= i
    BY <1>n, SMTT(30)
  <2> QED
    BY <2>2, <2>3, <2>4
<1> QED
  BY <1>3, <1>4, <1>5

\* udpFlowTable.remove takes the flow of its user and no other.
LEMMA WithoutFacts ==
  ASSUME table \in Seq(Flows), OneEach(table), NEW u
  PROVE  /\ I!Without(u) \in Seq(Flows) /\ OneEach(I!Without(u))
         /\ \A i \in DOMAIN I!Without(u) : I!Without(u)[i].user # u
         /\ \A x, b : x # u => (In(I!Without(u), x, b) <=> In(table, x, b))
<1>1. CASE I!Has(u) = {}
  BY <1>1 DEF I!Without, I!Has
<1>2. CASE I!Has(u) # {}
  <2> DEFINE k == CHOOSE i \in I!Has(u) : TRUE
             s == I!CutAt(table, k)
  <2>1. k \in I!Has(u)
    BY <1>2
  <2>2. k \in 1 .. Len(table) /\ table[k].user = u /\ DOMAIN table = 1 .. Len(table)
    BY <2>1, SMTT(30) DEF I!Has
  <2>3. I!Without(u) = s
    BY <1>2 DEF I!Without
  <2> HIDE DEF k
  <2>4. /\ s \in Seq(Flows) /\ Len(s) = Len(table) - 1
        /\ \A j \in 1 .. Len(table) - 1 : s[j] = IF j < k THEN table[j] ELSE table[j + 1]
    BY <2>2, CutFacts
  <2> HIDE DEF s
  <2>5. DOMAIN s = 1 .. Len(table) - 1
    BY <2>4, SMTT(30)
  <2>6. OneEach(s)
    <3> SUFFICES ASSUME NEW i \in DOMAIN s, NEW j \in DOMAIN s, s[i].user = s[j].user
                 PROVE  i = j
      BY DEF OneEach
    <3>1. PICK m \in DOMAIN table : s[i] = table[m] /\ m = IF i < k THEN i ELSE i + 1
      BY <2>2, <2>4, <2>5, SMTT(30)
    <3>2. PICK n \in DOMAIN table : s[j] = table[n] /\ n = IF j < k THEN j ELSE j + 1
      BY <2>2, <2>4, <2>5, SMTT(30)
    <3>3. m = n
      BY <3>1, <3>2 DEF OneEach
    <3> QED
      BY <2>2, <2>5, <3>1, <3>2, <3>3, SMTT(30)
  <2>7. \A i \in DOMAIN s : s[i].user # u
    BY <2>2, <2>4, <2>5, SMTT(30) DEF OneEach
  <2>8. \A x, b : In(s, x, b) => In(table, x, b)
    BY <2>2, <2>4, <2>5, SMTT(30) DEF In
  <2>9. ASSUME NEW x, NEW b, x # u, In(table, x, b) PROVE In(s, x, b)
    <3>1. PICK i \in 1 .. Len(table) : table[i].user = x /\ table[i].backend = b
      BY <2>2, <2>9 DEF In
    <3>2. CASE i < k
      BY <2>2, <2>4, <2>5, <3>1, <3>2, SMTT(30) DEF In
    <3>3. CASE i > k
      <4>1. i - 1 \in DOMAIN s /\ s[i - 1] = table[i]
        BY <2>2, <2>4, <2>5, <3>1, <3>3, SMTT(30)
      <4> QED
        BY <3>1, <4>1 DEF In
    <3> QED
      BY <2>2, <2>9, <3>1, <3>2, <3>3, SMTT(30)
  <2> QED
    BY <2>3, <2>4, <2>6, <2>7, <2>8, <2>9
<1> QED
  BY <1>1, <1>2

\* table.get and table.add put a flow in front of a table without its user.
LEMMA InFront ==
  ASSUME NEW s \in Seq(Flows), OneEach(s), NEW f \in Flows,
         \A i \in DOMAIN s : s[i].user # f.user
  PROVE  /\ <<f>> \o s \in Seq(Flows) /\ OneEach(<<f>> \o s)
         /\ In(<<f>> \o s, f.user, f.backend)
         /\ \A x, b : In(s, x, b) => In(<<f>> \o s, x, b)
         /\ \A i \in DOMAIN (<<f>> \o s) :
              (<<f>> \o s)[i].user = f.user => (<<f>> \o s)[i].backend = f.backend
<1> DEFINE t == <<f>> \o s
<1>1. t \in Seq(Flows) /\ Len(t) = Len(s) + 1 /\ DOMAIN t = 1 .. Len(s) + 1
  BY SMTT(30)
<1>2. t[1] = f /\ \A i \in 2 .. Len(s) + 1 : t[i] = s[i - 1]
  BY SMTT(30)
<1>3. DOMAIN s = 1 .. Len(s)
  BY SMTT(30)
<1> HIDE DEF t
<1>4. OneEach(t)
  <2> SUFFICES ASSUME NEW i \in DOMAIN t, NEW j \in DOMAIN t, t[i].user = t[j].user
               PROVE  i = j
    BY DEF OneEach
  <2>1. i = 1 \/ (i \in 2 .. Len(s) + 1 /\ i - 1 \in DOMAIN s)
    BY <1>1, <1>3, SMTT(30)
  <2>2. j = 1 \/ (j \in 2 .. Len(s) + 1 /\ j - 1 \in DOMAIN s)
    BY <1>1, <1>3, SMTT(30)
  <2> QED
    BY <1>2, <2>1, <2>2, SMTT(30) DEF OneEach
<1>5. In(t, f.user, f.backend)
  BY <1>1, <1>2, SMTT(30) DEF In
<1>6. ASSUME NEW x, NEW b, In(s, x, b) PROVE In(t, x, b)
  <2>1. PICK i \in DOMAIN s : s[i].user = x /\ s[i].backend = b
    BY <1>6 DEF In
  <2>2. i + 1 \in DOMAIN t /\ t[i + 1] = s[i]
    BY <1>1, <1>2, <1>3, SMTT(30)
  <2> QED
    BY <2>1, <2>2 DEF In
<1>7. ASSUME NEW i \in DOMAIN t, t[i].user = f.user PROVE t[i].backend = f.backend
  <2>1. i = 1
    BY <1>1, <1>2, <1>4, <1>7, SMTT(30) DEF OneEach
  <2> QED
    BY <1>2, <2>1
<1> QED
  BY <1>1, <1>4, <1>5, <1>6, <1>7 DEF t

\* evictLocked keeps a prefix of its list, and removes the clients of the rest.
LEMMA EvictFacts ==
  ASSUME MaxFlows \in Nat, NEW s \in Seq(Flows), OneEach(s), I!evictLocked(s),
         clients \in [Backends -> SUBSET (Conns \cup Users)]
  PROVE  /\ table' \in Seq(Flows) /\ OneEach(table)'
         /\ \A i \in DOMAIN table' : i \in DOMAIN s /\ table'[i] = s[i]
         /\ clients' \in [Backends -> SUBSET (Conns \cup Users)]
         /\ \A b \in Backends : \A x \in clients'[b] :
              x \in clients[b] /\ (In(s, x, b) => In(table', x, b))
<1>1. PICK n \in 0 .. Len(s) :
        /\ table' = SubSeq(s, 1, I!Kept(n))
        /\ clients' = [b \in Backends |->
             clients[b] \ {s[i].user : i \in {j \in I!Kept(n) + 1 .. Len(s) : s[j].backend = b}}]
  BY DEF I!evictLocked, I!Fresh
<1> DEFINE k == I!Kept(n)
<1>2. k \in 0 .. Len(s) /\ Len(s) \in Nat /\ DOMAIN s = 1 .. Len(s)
  BY SMTT(30) DEF I!Kept
<1> HIDE DEF k
<1>3. table' \in Seq(Flows) /\ DOMAIN table' = 1 .. k /\ \A i \in 1 .. k : table'[i] = s[i]
  BY <1>1, <1>2, SMTT(30) DEF k
<1>4. \A i \in DOMAIN table' : i \in DOMAIN s /\ table'[i] = s[i]
  BY <1>2, <1>3, SMTT(30)
<1>5. OneEach(table)'
  BY <1>4 DEF OneEach
<1>6. clients' \in [Backends -> SUBSET (Conns \cup Users)]
  BY <1>1
<1>7. ASSUME NEW b \in Backends, NEW x \in clients'[b], In(s, x, b) PROVE In(table', x, b)
  <2>1. PICK i \in DOMAIN s : s[i].user = x /\ s[i].backend = b
    BY <1>7 DEF In
  <2>2. x \notin {s[j].user : j \in {j \in k + 1 .. Len(s) : s[j].backend = b}}
    BY <1>1 DEF k
  <2>3. ~(i \in k + 1 .. Len(s))
    BY <2>1, <2>2
  <2>4. i \in 1 .. k
    BY <1>2, <2>3, SMTT(30)
  <2> QED
    BY <1>3, <2>1, <2>4 DEF In
<1>8. \A b \in Backends : clients'[b] \subseteq clients[b]
  BY <1>1
<1> QED
  BY <1>3, <1>4, <1>5, <1>6, <1>7, <1>8

-----------------------------------------------------------------------------
(* The steps, by the part of the system that takes them *)

HubStep == \E b \in Backends : I!Connects(b) \/ I!Hub(b) \/ I!Close(b) \/ I!HandleDisconnect(b)
ConnStep == \E c \in Conns : I!gatedHandle(c) \/ I!Start(c) \/ I!ReadData(c) \/ I!ReadEnds(c)
FlowStep == (\E u \in Users : I!ReadFrom(u)) \/ I!UDPReader \/ I!RefreshIdle \/ I!evict \/ I!Tick

\* The hub takes clients out of the maps and puts none in.
LEMMA HubFrame ==
  ASSUME IngressInv, HubStep
  PROVE  /\ MemberInv' /\ UNCHANGED <<I!tcpVars, I!udpVars>>
         /\ clients' \in [Backends -> SUBSET (Conns \cup Users)]
         /\ \A b \in Backends : clients'[b] \subseteq clients[b]
<1>1. PICK b \in Backends : I!Connects(b) \/ I!Hub(b) \/ I!Close(b) \/ I!HandleDisconnect(b)
  BY DEF HubStep
<1> USE DEF IngressInv, MemberInv, ClientInv
<1>2. CASE I!Connects(b)
  BY <1>2 DEF I!Connects, I!hubElse
<1>3. CASE I!register(b)
  <2>1. PICK k : members' = [members EXCEPT ![k] = @ \cup {b}]
    BY <1>3 DEF I!register
  <2>2. \A S \in SUBSET Backends : S \cup {b} \in SUBSET Backends
    OBVIOUS
  <2>3. MemberInv'
    BY <2>1, <2>2
  <2> QED
    BY <1>3, <2>3 DEF I!register, I!hubElse
<1>4. CASE I!trackUDPFlowIdleTimeout(b)
  BY <1>4 DEF I!trackUDPFlowIdleTimeout, I!hubElse
<1>5. CASE I!Close(b)
  BY <1>5 DEF I!Close, I!hubElse
<1>6. CASE I!RangeClient(b)
  BY <1>6, SMTT(30) DEF I!RangeClient
<1>7. CASE I!RangeEnds(b)
  BY <1>7 DEF I!RangeEnds, I!hubElse
<1>8. CASE I!unregister(b)
  BY <1>8 DEF I!unregister, I!hubElse
<1>9. CASE I!untrackUDPFlowIdleTimeout(b)
  BY <1>9 DEF I!untrackUDPFlowIdleTimeout, I!hubElse
<1>10. CASE I!HandleDisconnect(b)
  BY <1>10 DEF I!HandleDisconnect, I!hubVars
<1> QED
  BY <1>1, <1>2, <1>3, <1>4, <1>5, <1>6, <1>7, <1>8, <1>9, <1>10 DEF I!Hub

LEMMA HubKeeps ==
  ASSUME IngressInv, HubStep
  PROVE  IngressInv'
<1>1. MemberInv' /\ ConnInv' /\ FlowInv'
  BY HubFrame DEF IngressInv, ConnInv, FlowInv, I!tcpVars, I!udpVars, I!Has
<1>2. I!EveryClientHeld'
  BY HubFrame, SMTT(30) DEF IngressInv, ClientInv, I!EveryClientHeld, I!Held, I!tcpVars,
     I!udpVars, I!Has
<1> QED
  BY HubFrame, <1>1, <1>2 DEF IngressInv, ClientInv

\* A connection's step changes its own registers.
LEMMA ConnUpdate ==
  ASSUME ConnInv, NEW c \in Conns, NEW l \in Locs, NEW k \in I!Keys \cup {I!None},
         NEW b \in Backends \cup {I!None}, l \in Adding => b \in Backends, l = "route" => k \in I!Keys,
         tpc' = [tpc EXCEPT ![c] = l],
         tkey' = [tkey EXCEPT ![c] = k], tb' = [tb EXCEPT ![c] = b]
  PROVE  ConnInv'
<1>1. tpc' \in [Conns -> Locs] /\ tb' \in [Conns -> Backends \cup {I!None}]
  BY DEF ConnInv
<1>2. tkey' \in [Conns -> I!Keys \cup {I!None}]
  BY DEF ConnInv
<1>3. ASSUME NEW x \in Conns
      PROVE  (tpc'[x] \in Adding => tb'[x] \in Backends) /\ (tpc'[x] = "route" => tkey'[x] \in I!Keys)
  <2>1. CASE x = c
    BY <2>1 DEF ConnInv
  <2>2. CASE x # c
    BY <2>2 DEF ConnInv
  <2> QED
    BY <2>1, <2>2
<1> QED
  BY <1>1, <1>2, <1>3 DEF ConnInv

\* A register that is unchanged is one that is set to what it holds.
LEMMA ConnSame ==
  ASSUME ConnInv, NEW c \in Conns
  PROVE  /\ tkey[c] \in I!Keys \cup {I!None} /\ tb[c] \in Backends \cup {I!None}
         /\ UNCHANGED tkey => tkey' = [tkey EXCEPT ![c] = tkey[c]]
         /\ UNCHANGED tb => tb' = [tb EXCEPT ![c] = tb[c]]
  BY DEF ConnInv

\* A goroutine of a connection changes the map of its own backend only, and
\* there only itself.
LEMMA ConnKeeps ==
  ASSUME IngressInv, ConnStep
  PROVE  IngressInv'
<1>1. PICK c \in Conns : I!gatedHandle(c) \/ I!Start(c) \/ I!ReadData(c) \/ I!ReadEnds(c)
  BY DEF ConnStep
<1>2. CASE I!gatedHandle(c) \/ I!PeekSNI(c) \/ I!PeekHTTP(c)
  <2>1. UNCHANGED <<members, clients, I!udpVars, tb>>
    BY <1>2 DEF I!gatedHandle, I!PeekSNI, I!PeekHTTP, I!tcpElse, I!hubVars
  <2>2. PICK l \in {"tls", "idle", "http", "route"} :
          /\ I!Goto(c, l) /\ tpc[c] \in {"idle", "tls", "http"}
          /\ \/ UNCHANGED tkey /\ l # "route"
             \/ tkey' = [tkey EXCEPT ![c] = I!None] /\ l # "route"
             \/ \E k \in I!Keys : tkey' = [tkey EXCEPT ![c] = k]
    BY <1>2 DEF I!gatedHandle, I!PeekSNI, I!PeekHTTP, I!Routed, I!Dispatched, I!Keys
  <2>3. ConnInv'
    <3>1. l \in Locs /\ l \notin Adding /\ ConnInv
      BY <2>2 DEF Adding, Locs, IngressInv
    <3>2. PICK k \in I!Keys \cup {I!None} : (l = "route" => k \in I!Keys) /\ tkey' = [tkey EXCEPT ![c] = k]
      BY <2>2, <3>1, ConnSame
    <3> QED
      BY <2>1, <2>2, <3>1, <3>2, ConnSame, ConnUpdate DEF Locs, Adding, I!Goto
  <2>4. MemberInv' /\ FlowInv'
    BY <2>1 DEF IngressInv, MemberInv, FlowInv, I!udpVars, I!Has
  <2>5. ClientInv'
    BY <2>1, <2>2, SMTT(30) DEF IngressInv, ConnInv, ClientInv, I!EveryClientHeld, I!Held,
       I!udpVars, I!Has, I!Goto
  <2> QED
    BY <2>3, <2>4, <2>5 DEF IngressInv
<1>3. CASE I!Dispatch(c)
  <2>1. UNCHANGED <<members, clients, I!udpVars>> /\ tpc[c] = "route"
    BY <1>3 DEF I!Dispatch, I!tcpElse, I!hubVars
  <2>2. \A b \in I!SelectBackend(tkey[c]) : b \in Backends
    BY <2>1 DEF IngressInv, ConnInv, MemberInv, I!SelectBackend, I!Keys
  <2>3. ConnInv'
    <3>1. CASE \E b \in I!SelectBackend(tkey[c]) : I!Dispatched(c, "add") /\ tb' = [tb EXCEPT ![c] = b]
      BY <2>2, <3>1, ConnUpdate DEF Locs, Adding, IngressInv, I!Dispatched, I!Goto
    <3>2. CASE I!Dispatched(c, "idle") /\ UNCHANGED tb
      <4>1. "idle" \notin Adding
        BY DEF Adding
      <4> QED
        BY <3>2, <4>1, ConnSame, ConnUpdate DEF Locs, Adding, IngressInv, I!Dispatched, I!Goto
    <3> QED
      BY <1>3, <3>1, <3>2 DEF I!Dispatch
  <2>4. MemberInv' /\ FlowInv'
    BY <2>1 DEF IngressInv, MemberInv, FlowInv, I!udpVars, I!Has
  <2>5. \A x \in Conns : tpc[x] \in {"read", "send", "remove"} => tpc'[x] = tpc[x] /\ tb'[x] = tb[x]
    BY <1>3, <2>1 DEF IngressInv, ConnInv, I!Dispatch, I!Dispatched, I!Goto
  <2>6. ClientInv'
    BY <2>1, <2>5, SMTT(30) DEF IngressInv, ClientInv, I!EveryClientHeld, I!Held, I!udpVars,
       I!Has
  <2> QED
    BY <2>3, <2>4, <2>6 DEF IngressInv
<1>4. CASE I!AddClient(c)
  <2>1. UNCHANGED <<members, clients, I!udpVars, tkey>> /\ tpc[c] = "add"
    BY <1>4 DEF I!AddClient, I!startElse, I!tcpElse, I!hubVars
  <2>2. ConnInv'
    <3>1. tb[c] \in Backends /\ "idle" \notin Adding
      BY <2>1 DEF IngressInv, ConnInv, Adding
    <3>2. CASE I!Goto(c, "store") /\ UNCHANGED tb
      BY <2>1, <3>1, <3>2, ConnSame, ConnUpdate DEF Locs, Adding, IngressInv, I!Goto
    <3>3. CASE I!Goto(c, "idle") /\ tb' = [tb EXCEPT ![c] = I!None]
      BY <2>1, <3>1, <3>3, ConnSame, ConnUpdate DEF Locs, Adding, IngressInv, I!Goto
    <3> QED
      BY <1>4, <3>2, <3>3 DEF I!AddClient
  <2>3. MemberInv' /\ FlowInv'
    BY <2>1 DEF IngressInv, MemberInv, FlowInv, I!udpVars, I!Has
  <2>4. \A x \in Conns : tpc[x] \in {"read", "send", "remove"} => tpc'[x] = tpc[x] /\ tb'[x] = tb[x]
    BY <1>4, <2>1 DEF IngressInv, ConnInv, I!AddClient, I!Goto
  <2>5. ClientInv'
    BY <2>1, <2>4, SMTT(30) DEF IngressInv, ClientInv, I!EveryClientHeld, I!Held, I!udpVars,
       I!Has
  <2> QED
    BY <2>2, <2>3, <2>5 DEF IngressInv
<1>5. CASE I!StoreClient(c)
  <2>1. /\ UNCHANGED <<members, I!udpVars, tkey, tb>> /\ tpc[c] = "store"
        /\ clients' = [clients EXCEPT ![tb[c]] = @ \cup {c}]
    BY <1>5 DEF I!StoreClient, I!startElse, I!tcpElse, I!hubVars
  <2>2. PICK l \in {"read", "send"} : tpc' = [tpc EXCEPT ![c] = l]
    BY <1>5 DEF I!StoreClient, I!Goto
  <2>3. ConnInv'
    <3>1. tb[c] \in Backends
      BY <2>1 DEF IngressInv, ConnInv, Adding
    <3>2. l \in Locs /\ l # "route"
      BY <2>2 DEF Locs, Adding
    <3>3. tkey' = [tkey EXCEPT ![c] = tkey[c]] /\ tb' = [tb EXCEPT ![c] = tb[c]]
      BY <2>1, ConnSame DEF IngressInv
    <3>4. tkey[c] \in I!Keys \cup {I!None} /\ tb[c] \in Backends \cup {I!None} /\ ConnInv
      BY ConnSame DEF IngressInv
    <3> QED
      BY <2>2, <3>1, <3>2, <3>3, <3>4, ConnUpdate
  <2>4. MemberInv' /\ FlowInv'
    BY <2>1 DEF IngressInv, MemberInv, FlowInv, I!udpVars, I!Has
  <2>5. clients' \in [Backends -> SUBSET (Conns \cup Users)]
    <3>1. \A S \in SUBSET (Conns \cup Users) : S \cup {c} \in SUBSET (Conns \cup Users)
      OBVIOUS
    <3> QED
      BY <2>1, <3>1 DEF IngressInv, ClientInv
  <2>6. ASSUME NEW b \in Backends, NEW x \in clients'[b] PROVE I!Held(b, x)'
    <3>1. CASE x = c /\ b = tb[c]
      BY <2>1, <2>2, <3>1 DEF IngressInv, ConnInv, I!Held
    <3>2. CASE ~(x = c /\ b = tb[c])
      <4>1. x \in clients[b]
        BY <2>1, <2>6, <3>2 DEF IngressInv, ClientInv
      <4>2. I!Held(b, x)
        BY <4>1 DEF IngressInv, ClientInv, I!EveryClientHeld
      <4> QED
        BY <2>1, <2>2, <4>2 DEF IngressInv, ConnInv, I!Held, I!udpVars, I!Has
    <3> QED
      BY <3>1, <3>2
  <2> QED
    BY <2>3, <2>4, <2>5, <2>6 DEF IngressInv, ClientInv, I!EveryClientHeld
<1>6. CASE I!SendData(c) \/ I!ReadData(c) \/ I!ReadEnds(c)
  <2>1. UNCHANGED <<members, clients, I!udpVars, tkey, tb>>
    BY <1>6 DEF I!SendData, I!ReadData, I!ReadEnds, I!startElse, I!tcpElse, I!hubVars
  <2>2. PICK l \in {"read", "send", "remove"} :
          tpc' = [tpc EXCEPT ![c] = l] /\ tpc[c] \in {"read", "send"}
    BY <1>6 DEF I!SendData, I!ReadData, I!ReadEnds, I!Goto
  <2>3. ConnInv'
    <3>1. tb[c] \in Backends
      BY <2>2 DEF IngressInv, ConnInv, Adding
    <3>2. l \in Locs /\ l # "route"
      BY <2>2 DEF Locs, Adding
    <3>3. tkey' = [tkey EXCEPT ![c] = tkey[c]] /\ tb' = [tb EXCEPT ![c] = tb[c]]
      BY <2>1, ConnSame DEF IngressInv
    <3>4. tkey[c] \in I!Keys \cup {I!None} /\ tb[c] \in Backends \cup {I!None} /\ ConnInv
      BY ConnSame DEF IngressInv
    <3> QED
      BY <2>2, <3>1, <3>2, <3>3, <3>4, ConnUpdate
  <2>4. MemberInv' /\ FlowInv'
    BY <2>1 DEF IngressInv, MemberInv, FlowInv, I!udpVars, I!Has
  <2>5. ClientInv'
    BY <2>1, <2>2, SMTT(30) DEF IngressInv, ConnInv, ClientInv, I!EveryClientHeld, I!Held,
       I!udpVars, I!Has
  <2> QED
    BY <2>3, <2>4, <2>5 DEF IngressInv
<1>7. CASE I!RemoveClient(c)
  <2>1. /\ UNCHANGED <<members, I!udpVars, tkey>> /\ tpc[c] = "remove"
        /\ clients' = [clients EXCEPT ![tb[c]] = @ \ {c}]
        /\ tpc' = [tpc EXCEPT ![c] = "idle"] /\ tb' = [tb EXCEPT ![c] = I!None]
    BY <1>7 DEF I!RemoveClient, I!startElse, I!tcpElse, I!hubVars, I!Goto
  <2>2. ConnInv'
    <3>1. "idle" \notin Adding
      BY DEF Adding
    <3> QED
      BY <2>1, <3>1, ConnSame, ConnUpdate DEF Locs, Adding, IngressInv
  <2>3. MemberInv' /\ FlowInv'
    BY <2>1 DEF IngressInv, MemberInv, FlowInv, I!udpVars, I!Has
  <2>4. clients' \in [Backends -> SUBSET (Conns \cup Users)]
    BY <2>1 DEF IngressInv, ClientInv
  <2>5. ASSUME NEW b \in Backends, NEW x \in clients'[b] PROVE I!Held(b, x)'
    <3>1. x \in clients[b] /\ ~(x = c /\ b = tb[c])
      BY <2>1, <2>5 DEF IngressInv, ClientInv
    <3>2. I!Held(b, x)
      BY <3>1 DEF IngressInv, ClientInv, I!EveryClientHeld
    <3> QED
      BY <2>1, <3>1, <3>2 DEF IngressInv, ConnInv, I!Held, I!udpVars, I!Has
  <2> QED
    BY <2>2, <2>3, <2>4, <2>5 DEF IngressInv, ClientInv, I!EveryClientHeld
<1> QED
  BY <1>1, <1>2, <1>3, <1>4, <1>5, <1>6, <1>7 DEF I!Start

\* The reader has client x of b in hand.
InHand(b, x) == x = user /\ b = ub /\ upc \in {"table", "drop"}

\* A step of the listener keeps EveryClientHeld if a client that is left is in
\* hand, or was there and is still in the table or in hand if it was before.
LEMMA HeldByFlow ==
  ASSUME IngressInv, UNCHANGED <<tpc, tb>>,
         \A b \in Backends : \A x \in clients'[b] :
           \/ InHand(b, x)'
           \/ /\ x \in clients[b]
              /\ In(table, x, b) \/ InHand(b, x) => In(table', x, b) \/ InHand(b, x)'
  PROVE  I!EveryClientHeld'
<1> SUFFICES ASSUME NEW b \in Backends, NEW x \in clients'[b] PROVE I!Held(b, x)'
  BY DEF I!EveryClientHeld
<1>1. CASE InHand(b, x)'
  BY <1>1 DEF I!Held, InHand
<1>2. CASE In(table', x, b)
  BY <1>2 DEF I!Held, In, I!Has
<1>3. CASE x \in clients[b]
  <2>1. I!Held(b, x)
    BY <1>3 DEF IngressInv, ClientInv, I!EveryClientHeld
  <2>2. CASE x \in Conns /\ tb[x] = b /\ tpc[x] \in {"read", "send", "remove"}
    BY <2>2 DEF I!Held
  <2>3. CASE \E i \in I!Has(x) : table[i].backend = b
    <3>1. In(table, x, b)
      BY <2>3 DEF I!Has, In
    <3> QED
      BY <1>1, <1>2, <3>1
  <2>4. CASE InHand(b, x)
    BY <1>1, <1>2, <2>4
  <2> QED
    BY <2>1, <2>2, <2>3, <2>4 DEF I!Held, InHand
<1> QED
  BY <1>1, <1>3

\* The listener leaves the hub and the connections alone.
LEMMA FlowFrame ==
  ASSUME IngressInv, FlowStep
  PROVE  MemberInv' /\ ConnInv' /\ UNCHANGED <<tpc, tb>>
<1>1. UNCHANGED <<members, tpc, tkey, tb>>
  BY DEF FlowStep, I!ReadFrom, I!UDPReader, I!SendDatagram, I!DropFlow, I!AddFlowClient,
     I!StoreFlowClient,
         I!AddFlow, I!RefreshIdle, I!evict, I!Tick, I!udpElse, I!hubVars, I!tcpVars
<1> QED
  BY <1>1 DEF IngressInv, MemberInv, ConnInv

\* table.get moves the flow of the sender to the front.
LEMMA ReadKeeps ==
  ASSUME IngressInv, NEW u \in Users, I!ReadFrom(u)
  PROVE  FlowInv' /\ ClientInv'
<1> USE DEF IngressInv
<1>0. FlowStep /\ upc = "read" /\ user' = u /\ UNCHANGED clients
  BY DEF FlowStep, I!ReadFrom
<1>1. CASE I!Has(u) = {} /\ UNCHANGED table /\ \E b \in I!SelectBackend("udp") : upc' = "add" /\ ub' = b
  <2>1. ub' \in Backends
    BY <1>1 DEF MemberInv, I!SelectBackend, I!Keys
  <2>2. FlowInv'
    BY <1>0, <1>1, <2>1 DEF FlowInv, I!Has
  <2>3. I!EveryClientHeld'
    BY <1>0, <1>1, FlowFrame, HeldByFlow DEF InHand
  <2> QED
    BY <1>0, <2>2, <2>3 DEF ClientInv
<1>2. ASSUME NEW i \in I!Has(u), table' = <<I!Flow(u, table[i].backend)>> \o I!Without(u),
             upc' = "send", ub' = table[i].backend
      PROVE  FlowInv' /\ ClientInv'
  <2> DEFINE f == I!Flow(u, table[i].backend)
  <2>1. i \in DOMAIN table /\ table[i].user = u /\ table[i] \in Flows
    BY SMTT(30) DEF I!Has, FlowInv
  <2>2. f \in Flows /\ f.user = u /\ f.backend = ub'
    BY <1>2, <2>1, SMTT(30) DEF I!Flow, Flows
  <2> HIDE DEF f
  <2>3. /\ I!Without(u) \in Seq(Flows) /\ OneEach(I!Without(u))
        /\ \A j \in DOMAIN I!Without(u) : I!Without(u)[j].user # u
        /\ \A x, b : x # u => (In(I!Without(u), x, b) <=> In(table, x, b))
    BY WithoutFacts DEF FlowInv
  <2>4. /\ table' \in Seq(Flows) /\ OneEach(table)' /\ In(table', u, ub')
        /\ \A x, b : In(I!Without(u), x, b) => In(table', x, b)
        /\ \A j \in DOMAIN table' : table'[j].user = u => table'[j].backend = ub'
    <3> DEFINE t == <<f>> \o I!Without(u)
    <3>1. /\ t \in Seq(Flows) /\ OneEach(t) /\ In(t, u, ub')
          /\ \A x, b : In(I!Without(u), x, b) => In(t, x, b)
          /\ \A j \in DOMAIN t : t[j].user = u => t[j].backend = ub'
      BY <2>2, <2>3, InFront
    <3>2. table' = t
      BY <1>2 DEF f
    <3> QED
      BY <3>1, <3>2 DEF OneEach
  <2>5. FlowInv'
    BY <1>0, <1>2, <2>1, <2>4 DEF FlowInv, Flows
  <2>6. \A b : In(table, u, b) => b = ub'
    BY <1>2, <2>1 DEF In, FlowInv, OneEach
  <2>7. \A x, b : In(table, x, b) => In(table', x, b)
    BY <2>3, <2>4, <2>6
  <2>8. I!EveryClientHeld'
    BY <1>0, <2>7, FlowFrame, HeldByFlow DEF InHand
  <2> QED
    BY <1>0, <2>5, <2>8 DEF ClientInv
<1> QED
  BY <1>1, <1>2 DEF I!ReadFrom

\* A failed send takes the flow to "drop", which removes its client.
LEMMA SendKeeps ==
  ASSUME IngressInv, I!SendDatagram \/ I!DropFlow \/ I!AddFlowClient \/ I!StoreFlowClient
  PROVE  FlowInv' /\ ClientInv'
<1> USE DEF IngressInv
<1>0. FlowStep
  BY DEF FlowStep, I!UDPReader
<1>1. CASE I!SendDatagram
  <2>0. upc = "send" /\ UNCHANGED clients
    BY <1>1 DEF I!SendDatagram
  <2>1. CASE I!NextDatagram /\ UNCHANGED table
    <3>1. FlowInv'
      BY <2>1 DEF FlowInv, I!NextDatagram
    <3>2. I!EveryClientHeld'
      BY <1>0, <2>0, <2>1, FlowFrame, HeldByFlow DEF InHand
    <3> QED
      BY <2>0, <3>1, <3>2 DEF ClientInv
  <2>2. CASE upc' = "drop" /\ table' = I!Without(user) /\ UNCHANGED <<user, ub>>
    <3>1. /\ table' \in Seq(Flows) /\ OneEach(table)'
          /\ \A x, b : x # user => (In(table', x, b) <=> In(table, x, b))
      BY <2>2, WithoutFacts DEF FlowInv, OneEach
    <3>2. FlowInv'
      BY <2>0, <2>2, <3>1 DEF FlowInv
    <3>3. \A b : In(table, user, b) => b = ub
      BY <2>0 DEF In, FlowInv
    <3>4. I!EveryClientHeld'
      BY <1>0, <2>0, <2>2, <3>1, <3>3, FlowFrame, HeldByFlow DEF InHand
    <3> QED
      BY <2>0, <3>2, <3>4 DEF ClientInv
  <2> QED
    BY <1>1, <2>1, <2>2 DEF I!SendDatagram
<1>2. CASE I!DropFlow
  <2>1. /\ upc = "drop" /\ ub \in Backends /\ UNCHANGED table /\ upc' = "read"
        /\ clients' = [clients EXCEPT ![ub] = @ \ {user}]
    BY <1>2 DEF I!DropFlow, FlowInv, I!NextDatagram
  <2>2. FlowInv'
    BY <2>1 DEF FlowInv
  <2>3. clients' \in [Backends -> SUBSET (Conns \cup Users)]
    BY <2>1 DEF ClientInv
  <2>4. \A b \in Backends : \A x \in clients'[b] : x \in clients[b] /\ ~InHand(b, x)
    BY <2>1 DEF ClientInv, InHand
  <2>5. I!EveryClientHeld'
    BY <1>0, <2>1, <2>4, FlowFrame, HeldByFlow
  <2> QED
    BY <2>2, <2>3, <2>5 DEF ClientInv
<1>3. CASE I!AddFlowClient
  <2>1. /\ upc = "add" /\ UNCHANGED <<table, clients>>
        /\ upc' = "read" \/ (upc' = "store" /\ UNCHANGED <<user, ub>>)
    BY <1>3 DEF I!AddFlowClient, I!NextDatagram
  <2>2. FlowInv'
    BY <2>1 DEF FlowInv, I!Has
  <2>3. I!EveryClientHeld'
    BY <1>0, <2>1, FlowFrame, HeldByFlow DEF InHand
  <2> QED
    BY <2>1, <2>2, <2>3 DEF ClientInv
<1>4. CASE I!StoreFlowClient
  <2>1. /\ upc = "store" /\ upc' = "table" /\ UNCHANGED <<user, ub, table>>
        /\ ub \in Backends /\ user \in Users
        /\ clients' = [clients EXCEPT ![ub] = @ \cup {user}]
    BY <1>4 DEF I!StoreFlowClient, FlowInv
  <2>2. FlowInv'
    BY <2>1 DEF FlowInv, I!Has
  <2>3. clients' \in [Backends -> SUBSET (Conns \cup Users)]
    <3>1. \A S \in SUBSET (Conns \cup Users) : S \cup {user} \in SUBSET (Conns \cup Users)
      BY <2>1
    <3> QED
      BY <2>1, <3>1 DEF ClientInv
  <2>4. \A b \in Backends : \A x \in clients'[b] : x \in clients[b] \/ (x = user /\ b = ub)
    BY <2>1 DEF ClientInv
  <2>5. I!EveryClientHeld'
    BY <1>0, <2>1, <2>4, FlowFrame, HeldByFlow DEF InHand
  <2> QED
    BY <2>2, <2>3, <2>5 DEF ClientInv
<1> QED
  BY <1>1, <1>2, <1>3, <1>4

\* table.add puts the new flow in front and then evicts; the reaper evicts.
LEMMA EvictKeeps ==
  ASSUME MaxFlows \in Nat, IngressInv, I!AddFlow \/ I!evict
  PROVE  FlowInv' /\ ClientInv'
<1> USE DEF IngressInv
<1>0. FlowStep
  BY DEF FlowStep, I!UDPReader
<1>1. CASE I!AddFlow
  <2> DEFINE f == I!Flow(user, ub)
             s == <<f>> \o I!Without(user)
  <2>1. /\ upc = "table" /\ upc' = "send" /\ UNCHANGED <<user, ub>>
        /\ ub \in Backends /\ user \in Users /\ I!evictLocked(s)
    BY <1>1 DEF I!AddFlow, FlowInv
  <2>2. f \in Flows /\ f.user = user /\ f.backend = ub
    BY <2>1, SMTT(30) DEF I!Flow, Flows
  <2> HIDE DEF f
  <2>3. /\ I!Without(user) \in Seq(Flows) /\ OneEach(I!Without(user))
        /\ \A j \in DOMAIN I!Without(user) : I!Without(user)[j].user # user
        /\ \A x, b : x # user => (In(I!Without(user), x, b) <=> In(table, x, b))
    BY WithoutFacts DEF FlowInv
  <2>4. /\ s \in Seq(Flows) /\ OneEach(s) /\ In(s, user, ub)
        /\ \A x, b : In(I!Without(user), x, b) => In(s, x, b)
        /\ \A j \in DOMAIN s : s[j].user = user => s[j].backend = ub
    BY <2>2, <2>3, InFront
  <2> HIDE DEF s
  <2>5. /\ table' \in Seq(Flows) /\ OneEach(table)'
        /\ \A i \in DOMAIN table' : i \in DOMAIN s /\ table'[i] = s[i]
        /\ clients' \in [Backends -> SUBSET (Conns \cup Users)]
        /\ \A b \in Backends : \A x \in clients'[b] :
             x \in clients[b] /\ (In(s, x, b) => In(table', x, b))
    BY <2>1, <2>4, EvictFacts DEF ClientInv
  <2>6. FlowInv'
    BY <2>1, <2>4, <2>5 DEF FlowInv
  <2>7. \A b : ~In(table, user, b)
    BY <2>1 DEF FlowInv, I!Has, In
  <2>8. \A x, b : In(table, x, b) \/ InHand(b, x) => In(s, x, b)
    BY <2>3, <2>4, <2>7 DEF InHand
  <2>9. I!EveryClientHeld'
    BY <1>0, <2>5, <2>8, FlowFrame, HeldByFlow
  <2> QED
    BY <2>5, <2>6, <2>9 DEF ClientInv
<1>2. CASE I!evict
  <2>1. I!evictLocked(table) /\ UNCHANGED <<upc, user, ub>>
    BY <1>2 DEF I!evict
  <2>2. /\ table' \in Seq(Flows) /\ OneEach(table)'
        /\ \A i \in DOMAIN table' : i \in DOMAIN table /\ table'[i] = table[i]
        /\ clients' \in [Backends -> SUBSET (Conns \cup Users)]
        /\ \A b \in Backends : \A x \in clients'[b] :
             x \in clients[b] /\ (In(table, x, b) => In(table', x, b))
    BY <2>1, EvictFacts DEF FlowInv, ClientInv
  <2>3. FlowInv'
    BY <2>1, <2>2 DEF FlowInv, I!Has
  <2>4. I!EveryClientHeld'
    BY <1>0, <2>1, <2>2, FlowFrame, HeldByFlow DEF InHand
  <2> QED
    BY <2>2, <2>3, <2>4 DEF ClientInv
<1> QED
  BY <1>1, <1>2

\* Time changes the ages of the flows and nothing else.
LEMMA TickKeeps ==
  ASSUME IngressInv, I!Tick \/ I!RefreshIdle
  PROVE  FlowInv' /\ ClientInv'
<1> USE DEF IngressInv
<1>0. FlowStep /\ UNCHANGED <<clients, upc, user, ub>>
  BY DEF FlowStep, I!Tick, I!RefreshIdle
<1>1. /\ table' \in Seq(Flows) /\ DOMAIN table' = DOMAIN table
      /\ \A i \in DOMAIN table : table'[i].user = table[i].user /\ table'[i].backend = table[i].backend
  <2>1. CASE I!RefreshIdle
    BY <2>1 DEF I!RefreshIdle, FlowInv
  <2>2. CASE I!Tick
    <3>1. table' = [i \in DOMAIN table |->
                      [table[i] EXCEPT !.age = IF @ < I!MaxAge THEN @ + 1 ELSE @]]
      BY <2>2 DEF I!Tick
    <3>2. \A i \in DOMAIN table : table[i] \in Flows
      BY SMTT(30) DEF FlowInv
    <3>3. \A i \in DOMAIN table : /\ table'[i] \in Flows
                                  /\ table'[i].user = table[i].user
                                  /\ table'[i].backend = table[i].backend
      BY <3>1, <3>2, SMTT(30) DEF Flows
    <3>4. DOMAIN table = 1 .. Len(table) /\ Len(table) \in Nat
      BY SMTT(30) DEF FlowInv
    <3>5. table' \in [1 .. Len(table) -> Flows]
      BY <3>1, <3>3, <3>4
    <3>6. table' \in Seq(Flows)
      BY <3>4, <3>5, SMTT(30)
    <3> QED
      BY <3>1, <3>3, <3>6
  <2> QED
    BY <2>1, <2>2
<1>2. FlowInv'
  BY <1>0, <1>1 DEF FlowInv, OneEach, I!Has
<1>3. \A x, b : In(table, x, b) => In(table', x, b)
  BY <1>1 DEF In
<1>4. I!EveryClientHeld'
  BY <1>0, <1>3, FlowFrame, HeldByFlow DEF InHand
<1> QED
  BY <1>0, <1>2, <1>4 DEF ClientInv

-----------------------------------------------------------------------------

\* IngressInv is an inductive invariant of the public side.
THEOREM IngressKept ==
  ASSUME MaxFlows \in Nat
  PROVE  I!Spec => []IngressInv
<1>1. I!Init => IngressInv
  <2> SUFFICES ASSUME I!Init PROVE IngressInv
    OBVIOUS
  <2>1. MemberInv /\ ConnInv
    BY DEF I!Init, MemberInv, ConnInv, Locs, Adding
  <2>2. FlowInv
    BY SMTT(30) DEF I!Init, FlowInv, OneEach, I!Has
  <2>3. ClientInv
    BY DEF I!Init, ClientInv, I!EveryClientHeld
  <2> QED
    BY <2>1, <2>2, <2>3 DEF IngressInv
<1>2. IngressInv /\ [I!Next]_I!vars => IngressInv'
  <2> SUFFICES ASSUME IngressInv, [I!Next]_I!vars PROVE IngressInv'
    OBVIOUS
  <2>1. CASE FlowStep
    <3>1. FlowInv' /\ ClientInv'
      <4>1. ASSUME NEW u \in Users, I!ReadFrom(u) PROVE FlowInv' /\ ClientInv'
        BY <4>1, ReadKeeps
      <4>2. CASE I!SendDatagram \/ I!DropFlow \/ I!AddFlowClient \/ I!StoreFlowClient
        BY <4>2, SendKeeps
      <4>3. CASE I!AddFlow \/ I!evict
        BY <4>3, EvictKeeps
      <4>4. CASE I!Tick \/ I!RefreshIdle
        BY <4>4, TickKeeps
      <4> QED
        BY <2>1, <4>1, <4>2, <4>3, <4>4 DEF FlowStep, I!UDPReader
    <3> QED
      BY <2>1, <3>1, FlowFrame DEF IngressInv
  <2>2. CASE UNCHANGED I!vars
    BY <2>2, SMTT(30) DEF I!vars, I!hubVars, I!tcpVars, I!udpVars, IngressInv, MemberInv,
       ConnInv, FlowInv, ClientInv,
                I!EveryClientHeld, I!Held, I!Has
  <2> QED
    BY <2>1, <2>2, HubKeeps, ConnKeeps, SMTT(30) DEF I!Next, HubStep, ConnStep, FlowStep
<1> QED
  BY <1>1, <1>2, PTL DEF I!Spec

\* Whatever the Range of Backend.Close misses, evictLocked removes or a failed
\* SendData interrupts, every entry of Backend.clients has a goroutine or a flow
\* that will remove it.
THEOREM EveryClientHeldHolds ==
  ASSUME MaxFlows \in Nat
  PROVE  I!Spec => []EveryClientHeld
<1>1. IngressInv => EveryClientHeld
  BY DEF IngressInv, ClientInv, EveryClientHeld
<1> QED
  BY <1>1, IngressKept, PTL

=============================================================================
