---------------------- MODULE BandwidthSchedulerProofs ----------------------
(***************************************************************************)
(* Proofs about BandwidthScheduler, for every set of clients or tunnels,   *)
(* every set of message sizes, every cap and every bound on objects.       *)
(***************************************************************************)
EXTENDS BandwidthScheduler, FiniteSetTheorems, TLAPS

\* A leaf that names no prover is Zenon's.
USE ZenonT(30)

USE SchedulerConstants DEF Procs, Objects

Outside == {"out", "store", "cas", "sub", "delete"}
Cleaning == {"cas", "sub", "delete"}
WithObject == {"mark", "inc", "still", "undo", "replenish", "reserve"}

\* Types, with the deficits in Nat: what NeverOverdrawn says.
TypeInv ==
  /\ entry \in 0 .. MaxObjects /\ allocated \in 0 .. MaxObjects
  /\ isActive \in [Objects -> BOOLEAN] /\ deficit \in [Objects -> Nat]
  /\ activeCount \in Int /\ refCount \in Nat
  /\ mu \in Tunnels \cup {"free"} /\ pc \in [Procs -> PCs]
  /\ obj \in [Procs -> 0 .. MaxObjects] /\ size \in [Procs -> Sizes \cup {0}]
  /\ owner \in {"up", "add", "delete", "down"} /\ idler \in {"sleep", "sub", "reset"}
  /\ idleObj \in 0 .. MaxObjects

\* A goroutine that is past the map lookup holds an object.
ObjectInv ==
  /\ \A p \in Procs : pc[p] \in WithObject => obj[p] # 0
  /\ \A p \in Procs : pc[p] \in WithObject \cup {"send"} => size[p] \in Sizes
  /\ owner = "up" => entry # 0
  /\ idler # "sleep" => idleObj # 0

\* An id is registered directly or shared, never both.
ModeInv ==
  /\ \A p \in Clients : pc[p] \notin Outside
  /\ owner = "down" \/ \A p \in Tunnels : pc[p] = "absent"

\* The object bound holds where it is used: a registrant that is to allocate
\* still has an object.
RoomInv == \A p \in Procs : (pc[p] = "store" /\ entry = 0) => allocated < MaxObjects

Holders == {p \in Tunnels : pc[p] \notin {"absent", "out", "cas", "sub", "delete"}}

\* The reference count is the number of tunnels that hold a reference; who
\* cleans up has the lock and no reference is left.
ShareInv ==
  /\ refCount = Cardinality(Holders)
  /\ \A p \in Tunnels : pc[p] \in Cleaning => (mu = p /\ refCount = 0)
  /\ SharedEntryLives

IInv == TypeInv /\ ObjectInv /\ ModeInv /\ RoomInv /\ ShareInv

-----------------------------------------------------------------------------

LEMMA SizesPositive == \A n \in Sizes : n \in Nat /\ n > 0
  BY SMTT(30)

\* A tunnel that may give its reference back has one that is counted.
LEMMA HolderCounted ==
  ASSUME TypeInv, ShareInv, NEW p \in Tunnels, pc[p] = "ready"
  PROVE  refCount > 0
<1>1. IsFiniteSet(Holders)
  BY FS_Subset DEF Holders
<1>2. p \in Holders
  BY DEF Holders
<1>3. Cardinality(Holders) # 0
  BY <1>1, <1>2, FS_EmptySet
<1> QED BY <1>1, <1>3, FS_CardinalityType, SMTT(30) DEF ShareInv, TypeInv

\* When the count is zero nobody holds a reference.
LEMMA NobodyHolds ==
  ASSUME TypeInv, ShareInv, refCount = 0
  PROVE  Holders = {}
<1>1. IsFiniteSet(Holders)
  BY FS_Subset DEF Holders
<1> QED BY <1>1, FS_EmptySet DEF ShareInv

\* A step of p that neither takes nor gives back a reference.
LEMMA SameHolders ==
  ASSUME NEW p \in Procs, NEW l \in PCs, TypeInv, pc' = [pc EXCEPT ![p] = l],
         p \in Tunnels => ((pc[p] \in {"absent", "out"} \cup Cleaning) <=> (l \in {"absent", "out"} \cup Cleaning))
  PROVE  Holders' = Holders
BY DEF Holders, TypeInv, Cleaning

LEMMA StepTypes ==
  ASSUME TypeInv, ObjectInv, ModeInv, RoomInv, ShareInv, [Next]_vars
  PROVE  TypeInv'
<1> USE DEF TypeInv, ObjectInv, ModeInv, RoomInv, PCs, Goto, WithObject, Outside
<1>1. ASSUME NEW p \in Procs, RegisterShared(p) PROVE TypeInv'
  BY <1>1, SMTT(30) DEF RegisterShared, memory, others
<1>2. ASSUME NEW p \in Procs, StoreShared(p) PROVE TypeInv'
  BY <1>2, SMTT(30) DEF StoreShared, others
<1>3. ASSUME NEW p \in Procs, UnregisterShared(p) PROVE TypeInv'
  <2>1. refCount - 1 \in Nat
    BY <1>3, HolderCounted, SMTT(30) DEF UnregisterShared
  <2> QED BY <1>3, <2>1 DEF UnregisterShared, memory, others
<1>4. ASSUME NEW p \in Procs, UnregisterCAS(p) PROVE TypeInv'
  BY <1>4 DEF UnregisterCAS, others
<1>5. ASSUME NEW p \in Procs, UnregisterSub(p) PROVE TypeInv'
  BY <1>5, SMTT(30) DEF UnregisterSub, memory, others
<1>6. ASSUME NEW p \in Procs, UnregisterDelete(p) PROVE TypeInv'
  BY <1>6, SMTT(30) DEF UnregisterDelete, others
<1>7. ASSUME NEW p \in Procs, RequestSend(p) PROVE TypeInv'
  BY <1>7, SMTT(30) DEF RequestSend, sendFrame, others
<1>8. ASSUME NEW p \in Procs, MarkActive(p) PROVE TypeInv'
  BY <1>8 DEF MarkActive, sendFrame, others
<1>9. ASSUME NEW p \in Procs, IncActive(p) PROVE TypeInv'
  BY <1>9, SMTT(30) DEF IncActive, sendFrame, others
<1>10. ASSUME NEW p \in Procs, StillThere(p) PROVE TypeInv'
  BY <1>10 DEF StillThere, sendFrame, others
<1>11. ASSUME NEW p \in Procs, UndoActive(p) PROVE TypeInv'
  BY <1>11, SMTT(30) DEF UndoActive, sendFrame, others
<1>12. ASSUME NEW p \in Procs, replenishDeficit(p) PROVE TypeInv'
  <2>1. deficit' \in [Objects -> Nat]
    <3>1. obj[p] \in Objects
      BY <1>12, SMTT(30) DEF replenishDeficit
    <3>2. PICK n \in 0 .. DeficitCap :
            deficit' = IF n = 0 THEN deficit
                       ELSE [deficit EXCEPT ![obj[p]] =
                               IF deficit[obj[p]] + n > DeficitCap THEN DeficitCap
                                                                   ELSE deficit[obj[p]] + n]
      BY <1>12 DEF replenishDeficit
    <3> QED BY <3>1, <3>2, SMTT(30)
  <2> QED BY <1>12, <2>1 DEF replenishDeficit, sendFrame, others
<1>13. ASSUME NEW p \in Procs, Reserve(p) PROVE TypeInv'
  <2>0. obj[p] \in Objects /\ size[p] \in Sizes
    BY <1>13, SMTT(30) DEF Reserve
  <2>1. obj[p] \in Objects /\ size[p] \in Nat /\ deficit[obj[p]] \in Nat
    BY <2>0, SizesPositive
  <2>2. deficit' \in [Objects -> Nat]
    <3>1. CASE deficit[obj[p]] >= size[p]
      <4>1. deficit' = [deficit EXCEPT ![obj[p]] = deficit[obj[p]] - size[p]]
        BY <1>13, <3>1 DEF Reserve
      <4>2. deficit[obj[p]] - size[p] \in Nat
        BY <2>1, <3>1, SMTT(30)
      <4> QED BY <2>1, <4>1, <4>2
    <3>2. CASE ~(deficit[obj[p]] >= size[p])
      BY <1>13, <2>1, <3>2 DEF Reserve
    <3> QED BY <3>1, <3>2
  <2> QED BY <1>13, <2>2 DEF Reserve, sendFrame, others
<1>14. ASSUME NEW p \in Procs, RecordSent(p) PROVE TypeInv'
  BY <1>14 DEF RecordSent, sendFrame, others
<1>15. ASSUME NEW p \in Procs, RefundSend(p) PROVE TypeInv'
  <2>1. size[p] \in Nat
    BY <1>15, SizesPositive DEF RefundSend
  <2>2. deficit' \in [Objects -> Nat]
    <3>1. CASE entry = 0
      BY <1>15, <3>1 DEF RefundSend
    <3>2. CASE entry # 0
      <4>1. entry \in Objects /\ deficit[entry] + size[p] \in Nat
        BY <2>1, <3>2, SMTT(30)
      <4> QED BY <1>15, <3>2, <4>1 DEF RefundSend
    <3> QED BY <3>1, <3>2
  <2> QED BY <1>15, <2>2 DEF RefundSend, sendFrame, others
<1>16. CASE Unregister BY <1>16 DEF Unregister, ownerFrame
<1>17. CASE OwnerSub BY <1>17, SMTT(30) DEF OwnerSub, ownerFrame
<1>18. CASE OwnerDelete BY <1>18, SMTT(30) DEF OwnerDelete, ownerFrame
<1>19. CASE checkIdleBackends BY <1>19 DEF checkIdleBackends, idleFrame
<1>20. CASE IdleSub BY <1>20, SMTT(30) DEF IdleSub, idleFrame
<1>21. CASE IdleReset BY <1>21 DEF IdleReset, idleFrame
<1>22. CASE UNCHANGED vars BY <1>22 DEF vars, memory, others
<1> QED BY <1>1, <1>2, <1>3, <1>4, <1>5, <1>6, <1>7, <1>8, <1>9, <1>10, <1>11, <1>12,
           <1>13, <1>14, <1>15, <1>16, <1>17, <1>18, <1>19, <1>20, <1>21, <1>22
        DEF Next, Sharing, Sending, Owner, Idler

LEMMA StepControl ==
  ASSUME TypeInv, ObjectInv, ModeInv, RoomInv, ShareInv, [Next]_vars
  PROVE  (ObjectInv /\ ModeInv)'
<1> USE DEF TypeInv, ObjectInv, ModeInv, PCs, Goto, WithObject, Outside
<1>1. ASSUME NEW p \in Procs, RegisterShared(p) PROVE (ObjectInv /\ ModeInv)'
  BY <1>1 DEF RegisterShared, memory, others
<1>2. ASSUME NEW p \in Procs, StoreShared(p) PROVE (ObjectInv /\ ModeInv)'
  BY <1>2 DEF StoreShared, others
<1>3. ASSUME NEW p \in Procs, UnregisterShared(p) PROVE (ObjectInv /\ ModeInv)'
  BY <1>3 DEF UnregisterShared, memory, others
<1>4. ASSUME NEW p \in Procs, UnregisterCAS(p) PROVE (ObjectInv /\ ModeInv)'
  BY <1>4, SMTT(30) DEF UnregisterCAS, others
<1>5. ASSUME NEW p \in Procs, UnregisterSub(p) PROVE (ObjectInv /\ ModeInv)'
  BY <1>5 DEF UnregisterSub, memory, others
<1>6. ASSUME NEW p \in Procs, UnregisterDelete(p) PROVE (ObjectInv /\ ModeInv)'
  BY <1>6 DEF UnregisterDelete, others
<1>7. ASSUME NEW p \in Procs, RequestSend(p) PROVE (ObjectInv /\ ModeInv)'
  BY <1>7 DEF RequestSend, sendFrame, others
<1>8. ASSUME NEW p \in Procs, MarkActive(p) PROVE (ObjectInv /\ ModeInv)'
  BY <1>8 DEF MarkActive, sendFrame, others
<1>9. ASSUME NEW p \in Procs, IncActive(p) PROVE (ObjectInv /\ ModeInv)'
  BY <1>9 DEF IncActive, sendFrame, others
<1>10. ASSUME NEW p \in Procs, StillThere(p) PROVE (ObjectInv /\ ModeInv)'
  BY <1>10, SMTT(30) DEF StillThere, sendFrame, others
<1>11. ASSUME NEW p \in Procs, UndoActive(p) PROVE (ObjectInv /\ ModeInv)'
  BY <1>11 DEF UndoActive, sendFrame, others
<1>12. ASSUME NEW p \in Procs, replenishDeficit(p) PROVE (ObjectInv /\ ModeInv)'
  BY <1>12 DEF replenishDeficit, sendFrame, others
<1>13. ASSUME NEW p \in Procs, Reserve(p) PROVE (ObjectInv /\ ModeInv)'
  BY <1>13 DEF Reserve, sendFrame, others
<1>14. ASSUME NEW p \in Procs, RecordSent(p) PROVE (ObjectInv /\ ModeInv)'
  BY <1>14 DEF RecordSent, sendFrame, others
<1>15. ASSUME NEW p \in Procs, RefundSend(p) PROVE (ObjectInv /\ ModeInv)'
  BY <1>15 DEF RefundSend, sendFrame, others
<1>16. CASE Unregister BY <1>16 DEF Unregister, ownerFrame
<1>17. CASE OwnerSub BY <1>17 DEF OwnerSub, ownerFrame
<1>18. CASE OwnerDelete BY <1>18 DEF OwnerDelete, ownerFrame
<1>19. CASE checkIdleBackends BY <1>19 DEF checkIdleBackends, idleFrame
<1>20. CASE IdleSub BY <1>20 DEF IdleSub, idleFrame
<1>21. CASE IdleReset BY <1>21 DEF IdleReset, idleFrame
<1>22. CASE UNCHANGED vars BY <1>22 DEF vars, memory, others
<1> QED BY <1>1, <1>2, <1>3, <1>4, <1>5, <1>6, <1>7, <1>8, <1>9, <1>10, <1>11, <1>12,
           <1>13, <1>14, <1>15, <1>16, <1>17, <1>18, <1>19, <1>20, <1>21, <1>22
        DEF Next, Sharing, Sending, Owner, Idler

LEMMA StepRoom ==
  ASSUME TypeInv, ModeInv, RoomInv, ShareInv, [Next]_vars
  PROVE  RoomInv'
<1> USE DEF TypeInv, ModeInv, RoomInv, PCs, Goto, Outside, Cleaning
<1>1. ASSUME NEW p \in Procs, RegisterShared(p) PROVE RoomInv'
  BY <1>1 DEF RegisterShared, memory, others
<1>2. ASSUME NEW p \in Procs, StoreShared(p) PROVE RoomInv'
  BY <1>2, SMTT(30) DEF StoreShared, others
<1>3. ASSUME NEW p \in Procs, UnregisterShared(p) PROVE RoomInv'
  BY <1>3 DEF UnregisterShared, memory, others
<1>4. ASSUME NEW p \in Procs, UnregisterCAS(p) PROVE RoomInv'
  BY <1>4 DEF UnregisterCAS, others
<1>5. ASSUME NEW p \in Procs, UnregisterSub(p) PROVE RoomInv'
  BY <1>5 DEF UnregisterSub, memory, others
<1>6. ASSUME NEW p \in Procs, UnregisterDelete(p) PROVE RoomInv'
  <2>1. p \in Tunnels /\ refCount = 0
    BY <1>6 DEF UnregisterDelete, ShareInv
  <2>2. Holders = {}
    BY <2>1, NobodyHolds
  <2> QED BY <1>6, <2>2 DEF UnregisterDelete, others, Holders
<1>7. ASSUME NEW p \in Procs, RequestSend(p) PROVE RoomInv'
  BY <1>7 DEF RequestSend, sendFrame, others
<1>8. ASSUME NEW p \in Procs, MarkActive(p) PROVE RoomInv'
  BY <1>8 DEF MarkActive, sendFrame, others
<1>9. ASSUME NEW p \in Procs, IncActive(p) PROVE RoomInv'
  BY <1>9 DEF IncActive, sendFrame, others
<1>10. ASSUME NEW p \in Procs, StillThere(p) PROVE RoomInv'
  BY <1>10 DEF StillThere, sendFrame, others
<1>11. ASSUME NEW p \in Procs, UndoActive(p) PROVE RoomInv'
  BY <1>11 DEF UndoActive, sendFrame, others
<1>12. ASSUME NEW p \in Procs, replenishDeficit(p) PROVE RoomInv'
  BY <1>12 DEF replenishDeficit, sendFrame, others
<1>13. ASSUME NEW p \in Procs, Reserve(p) PROVE RoomInv'
  BY <1>13 DEF Reserve, sendFrame, others
<1>14. ASSUME NEW p \in Procs, RecordSent(p) PROVE RoomInv'
  BY <1>14 DEF RecordSent, sendFrame, others
<1>15. ASSUME NEW p \in Procs, RefundSend(p) PROVE RoomInv'
  BY <1>15 DEF RefundSend, sendFrame, others
<1>16. CASE Unregister BY <1>16 DEF Unregister, ownerFrame
<1>17. CASE OwnerSub BY <1>17 DEF OwnerSub, ownerFrame
<1>18. CASE OwnerDelete BY <1>18 DEF OwnerDelete, ownerFrame
<1>19. CASE checkIdleBackends BY <1>19 DEF checkIdleBackends, idleFrame
<1>20. CASE IdleSub BY <1>20 DEF IdleSub, idleFrame
<1>21. CASE IdleReset BY <1>21 DEF IdleReset, idleFrame
<1>22. CASE UNCHANGED vars BY <1>22 DEF vars, memory, others
<1> QED BY <1>1, <1>2, <1>3, <1>4, <1>5, <1>6, <1>7, <1>8, <1>9, <1>10, <1>11, <1>12,
           <1>13, <1>14, <1>15, <1>16, <1>17, <1>18, <1>19, <1>20, <1>21, <1>22
        DEF Next, Sharing, Sending, Owner, Idler

LEMMA StepShare ==
  ASSUME TypeInv, ObjectInv, ModeInv, RoomInv, ShareInv, [Next]_vars
  PROVE  ShareInv'
<1> USE DEF TypeInv, ModeInv, ShareInv, SharedEntryLives, PCs, Cleaning
<1>1. ASSUME NEW p \in Procs, RegisterShared(p) PROVE ShareInv'
  <2>0. p \in Tunnels
    BY <1>1 DEF RegisterShared, ModeInv, Outside
  <2>1. Holders' = Holders \cup {p} /\ p \notin Holders
    BY <1>1, <2>0, SMTT(30) DEF RegisterShared, Goto, Holders
  <2>2. refCount' = Cardinality(Holders')
    <3>1. IsFiniteSet(Holders)
      BY FS_Subset DEF Holders
    <3>2. Cardinality(Holders') = Cardinality(Holders) + 1
      BY <2>1, <3>1, FS_AddElement
    <3> QED BY <1>1, <3>2 DEF RegisterShared
  <2> QED BY <1>1, <2>2 DEF RegisterShared, memory, others, Goto
<1>2. ASSUME NEW p \in Procs, StoreShared(p) PROVE ShareInv'
  <2>1. Holders' = Holders
    BY <1>2, SameHolders DEF StoreShared, Goto, PCs, Cleaning, ModeInv, Outside
  <2> QED BY <1>2, <2>1, SMTT(30) DEF StoreShared, others, Goto
<1>3. ASSUME NEW p \in Procs, UnregisterShared(p) PROVE ShareInv'
  <2>1. Holders' = Holders \ {p} /\ p \in Holders
    BY <1>3 DEF UnregisterShared, Goto, Holders
  <2>2. refCount' = Cardinality(Holders')
    <3>1. IsFiniteSet(Holders)
      BY FS_Subset DEF Holders
    <3>2. Cardinality(Holders') = Cardinality(Holders) - 1
      BY <2>1, <3>1, FS_RemoveElement
    <3> QED BY <1>3, <3>2 DEF UnregisterShared
  <2> QED BY <1>3, <2>2, SMTT(30) DEF UnregisterShared, memory, others, Goto
<1>4. ASSUME NEW p \in Procs, UnregisterCAS(p) PROVE ShareInv'
  <2>1. Holders' = Holders
    BY <1>4, SameHolders DEF UnregisterCAS, Goto, PCs, Cleaning, ModeInv, Outside
  <2> QED BY <1>4, <2>1 DEF UnregisterCAS, others, Goto
<1>5. ASSUME NEW p \in Procs, UnregisterSub(p) PROVE ShareInv'
  <2>1. Holders' = Holders
    BY <1>5, SameHolders DEF UnregisterSub, Goto, PCs, Cleaning, ModeInv, Outside
  <2> QED BY <1>5, <2>1 DEF UnregisterSub, memory, others, Goto
<1>6. ASSUME NEW p \in Procs, UnregisterDelete(p) PROVE ShareInv'
  <2>1. p \in Tunnels /\ refCount = 0 /\ Holders = {}
    BY <1>6, NobodyHolds DEF UnregisterDelete, ModeInv, Outside
  <2>2. Holders' = Holders
    BY <1>6, SameHolders DEF UnregisterDelete, Goto, PCs, Cleaning
  <2>3. SharedEntryLives'
    BY <2>1, <2>2 DEF Holders, SharedEntryLives
  <2> QED BY <1>6, <2>1, <2>2, <2>3 DEF UnregisterDelete, others, Goto
<1>7. ASSUME NEW p \in Procs, RequestSend(p) PROVE ShareInv'
  <2>1. Holders' = Holders
    BY <1>7, SameHolders DEF RequestSend, Goto, PCs, Cleaning, ModeInv, Outside
  <2> QED BY <1>7, <2>1 DEF RequestSend, sendFrame, others, Goto
<1>8. ASSUME NEW p \in Procs, MarkActive(p) PROVE ShareInv'
  <2>1. Holders' = Holders
    BY <1>8, SameHolders DEF MarkActive, Goto, PCs, Cleaning, ModeInv, Outside
  <2> QED BY <1>8, <2>1 DEF MarkActive, sendFrame, others, Goto
<1>9. ASSUME NEW p \in Procs, IncActive(p) PROVE ShareInv'
  <2>1. Holders' = Holders
    BY <1>9, SameHolders DEF IncActive, Goto, PCs, Cleaning, ModeInv, Outside
  <2> QED BY <1>9, <2>1 DEF IncActive, sendFrame, others, Goto
<1>10. ASSUME NEW p \in Procs, StillThere(p) PROVE ShareInv'
  <2>1. Holders' = Holders
    BY <1>10, SameHolders DEF StillThere, Goto, PCs, Cleaning, ModeInv, Outside
  <2> QED BY <1>10, <2>1 DEF StillThere, sendFrame, others, Goto
<1>11. ASSUME NEW p \in Procs, UndoActive(p) PROVE ShareInv'
  <2>1. Holders' = Holders
    BY <1>11, SameHolders DEF UndoActive, Goto, PCs, Cleaning, ModeInv, Outside
  <2> QED BY <1>11, <2>1 DEF UndoActive, sendFrame, others, Goto
<1>12. ASSUME NEW p \in Procs, replenishDeficit(p) PROVE ShareInv'
  <2>1. Holders' = Holders
    BY <1>12, SameHolders DEF replenishDeficit, Goto, PCs, Cleaning, ModeInv, Outside
  <2> QED BY <1>12, <2>1 DEF replenishDeficit, sendFrame, others, Goto
<1>13. ASSUME NEW p \in Procs, Reserve(p) PROVE ShareInv'
  <2>1. Holders' = Holders
    BY <1>13, SameHolders DEF Reserve, Goto, PCs, Cleaning, ModeInv, Outside
  <2> QED BY <1>13, <2>1, SMTT(30) DEF Reserve, sendFrame, others, Goto
<1>14. ASSUME NEW p \in Procs, RecordSent(p) PROVE ShareInv'
  <2>1. Holders' = Holders
    BY <1>14, SameHolders DEF RecordSent, Goto, PCs, Cleaning, ModeInv, Outside
  <2> QED BY <1>14, <2>1 DEF RecordSent, sendFrame, others, Goto
<1>15. ASSUME NEW p \in Procs, RefundSend(p) PROVE ShareInv'
  <2>1. Holders' = Holders
    BY <1>15, SameHolders DEF RefundSend, Goto, PCs, Cleaning, ModeInv, Outside
  <2> QED BY <1>15, <2>1 DEF RefundSend, sendFrame, others, Goto
<1>16. CASE Unregister
  <2>1. Holders' = Holders
    BY <1>16 DEF Unregister, ownerFrame, Holders
  <2> QED BY <1>16, <2>1 DEF Unregister, ownerFrame
<1>17. CASE OwnerSub
  <2>1. Holders' = Holders
    BY <1>17 DEF OwnerSub, ownerFrame, Holders
  <2> QED BY <1>17, <2>1 DEF OwnerSub, ownerFrame
<1>18. CASE OwnerDelete
  <2>1. Holders' = Holders
    BY <1>18 DEF OwnerDelete, ownerFrame, Holders
  <2> QED BY <1>18, <2>1 DEF OwnerDelete, ownerFrame
<1>19. CASE checkIdleBackends
  <2>1. Holders' = Holders
    BY <1>19 DEF checkIdleBackends, idleFrame, Holders
  <2> QED BY <1>19, <2>1 DEF checkIdleBackends, idleFrame
<1>20. CASE IdleSub
  <2>1. Holders' = Holders
    BY <1>20 DEF IdleSub, idleFrame, Holders
  <2> QED BY <1>20, <2>1 DEF IdleSub, idleFrame
<1>21. CASE IdleReset
  <2>1. Holders' = Holders
    BY <1>21 DEF IdleReset, idleFrame, Holders
  <2> QED BY <1>21, <2>1 DEF IdleReset, idleFrame
<1>22. CASE UNCHANGED vars 
  <2>1. Holders' = Holders
    BY <1>22 DEF vars, Holders
  <2> QED BY <1>22, <2>1 DEF vars, memory, others
<1> QED BY <1>1, <1>2, <1>3, <1>4, <1>5, <1>6, <1>7, <1>8, <1>9, <1>10, <1>11, <1>12,
           <1>13, <1>14, <1>15, <1>16, <1>17, <1>18, <1>19, <1>20, <1>21, <1>22
        DEF Next, Sharing, Sending, Owner, Idler

-----------------------------------------------------------------------------
(* Counting: how a step changes the sets CountMatchesFlags counts *)

LEMMA ProcsFinite == \A m : IsFiniteSet(At(m)) /\ Count(At(m)) \in Nat
<1>1. IsFiniteSet(Procs)
  BY FS_Union
<1> QED BY <1>1, FS_Subset, FS_CardinalityType DEF At, Count

LEMMA ActiveFinite == IsFiniteSet(Active) /\ Count(Active) \in Nat
<1>1. IsFiniteSet(Objects)
  BY FS_Interval, SMTT(30)
<1> QED BY <1>1, FS_Subset, FS_CardinalityType DEF Active, Count

\* A goroutine leaves one control point and enters another.
LEMMA Moves ==
  ASSUME TypeInv, NEW p \in Procs, NEW l \in PCs, pc' = [pc EXCEPT ![p] = l], NEW m \in PCs
  PROVE  Count(At(m))' = Count(At(m)) + (IF l = m THEN 1 ELSE 0) - (IF pc[p] = m THEN 1 ELSE 0)
<1>0. IsFiniteSet(At(m)) /\ Count(At(m)) \in Nat
  BY ProcsFinite
<1>1. CASE (l = m) <=> (pc[p] = m)
  <2>1. At(m)' = At(m)
    BY <1>1 DEF At, TypeInv
  <2> QED BY <1>0, <1>1, <2>1, SMTT(30) DEF Count
<1>2. CASE l = m /\ pc[p] # m
  <2>1. At(m)' = At(m) \cup {p} /\ p \notin At(m)
    BY <1>2 DEF At, TypeInv
  <2>2. Count(At(m))' = Count(At(m)) + 1
    BY <1>0, <2>1, FS_AddElement DEF Count
  <2> QED BY <1>0, <1>2, <2>2, SMTT(30)
<1>3. CASE l # m /\ pc[p] = m
  <2>1. At(m)' = At(m) \ {p} /\ p \in At(m)
    BY <1>3 DEF At, TypeInv
  <2>2. Count(At(m))' = Count(At(m)) - 1
    BY <1>0, <2>1, FS_RemoveElement DEF Count
  <2> QED BY <1>0, <1>3, <2>2, SMTT(30)
<1> QED BY <1>1, <1>2, <1>3

\* What a move of goroutine p from label k to label l does to the counts.
LEMMA RemoveOne ==
  ASSUME NEW S, IsFiniteSet(S), NEW x \in S
  PROVE  Count(S \ {x}) = Count(S) - 1
BY FS_RemoveElement, FS_CardinalityType DEF Count

LEMMA Enters ==
  ASSUME TypeInv, NEW p \in Procs, NEW l \in PCs, pc' = [pc EXCEPT ![p] = l], pc[p] # l
  PROVE  Count(At(l))' = Count(At(l)) + 1
<1>1. IsFiniteSet(At(l))
  BY ProcsFinite
<1>2. At(l)' = At(l) \cup {p} /\ p \notin At(l)
  BY DEF At, TypeInv
<1> QED BY <1>1, <1>2, FS_AddElement DEF Count

LEMMA Leaves ==
  ASSUME TypeInv, NEW p \in Procs, NEW k \in PCs, NEW l \in PCs,
         pc' = [pc EXCEPT ![p] = l], pc[p] = k, k # l
  PROVE  Count(At(k))' = Count(At(k)) - 1
<1>1. IsFiniteSet(At(k)) /\ Count(At(k)) \in Nat
  BY ProcsFinite
<1>2. At(k)' = At(k) \ {p} /\ p \in At(k)
  BY DEF At, TypeInv
<1> QED BY <1>1, <1>2, RemoveOne

LEMMA Elsewhere ==
  ASSUME NEW m, \A q \in Procs : pc'[q] = m <=> pc[q] = m
  PROVE  Count(At(m))' = Count(At(m))
BY DEF At, Count

\* Both sides of the balance go down by one.
LEMMA DropOne ==
  ASSUME NEW a \in Int, NEW b \in Int, NEW c \in Int, NEW d \in Int, NEW e \in Int,
         NEW f \in Int, NEW g \in Int, a = b - c + d + e + f + g
  PROVE  /\ a - 1 = b - c + (d - 1) + e + f + g
         /\ a - 1 = b - c + d + (e - 1) + f + g
BY SMTT(30)

LEMMA Stays ==
  ASSUME pc' = pc, NEW m
  PROVE  Count(At(m))' = Count(At(m))
BY DEF At, Count

\* The CAS that sets a flag, and the one that clears it.
LEMMA FlagSet ==
  ASSUME TypeInv, NEW o \in Objects, isActive' = [isActive EXCEPT ![o] = TRUE]
  PROVE  Count(Active)' = Count(Active) + (IF isActive[o] THEN 0 ELSE 1)
<1>0. IsFiniteSet(Active) /\ Count(Active) \in Nat
  BY ActiveFinite
<1>1. CASE isActive[o]
  <2>1. Active' = Active
    BY <1>1 DEF Active, TypeInv
  <2> QED BY <1>0, <1>1, <2>1, SMTT(30) DEF Count
<1>2. CASE ~isActive[o]
  <2>1. Active' = Active \cup {o} /\ o \notin Active
    BY <1>2 DEF Active, TypeInv
  <2> QED BY <1>0, <1>2, <2>1, FS_AddElement DEF Count
<1> QED BY <1>1, <1>2

LEMMA FlagClear ==
  ASSUME TypeInv, NEW o \in Objects, isActive' = [isActive EXCEPT ![o] = FALSE]
  PROVE  Count(Active)' = Count(Active) - (IF isActive[o] THEN 1 ELSE 0)
<1>0. IsFiniteSet(Active) /\ Count(Active) \in Nat
  BY ActiveFinite
<1>1. CASE ~isActive[o]
  <2>1. Active' = Active
    BY <1>1 DEF Active, TypeInv
  <2> QED BY <1>0, <1>1, <2>1, SMTT(30) DEF Count
<1>2. CASE isActive[o]
  <2>1. Active' = Active \ {o} /\ o \in Active
    BY <1>2 DEF Active, TypeInv
  <2> QED BY <1>0, <1>2, <2>1, FS_RemoveElement DEF Count
<1> QED BY <1>1, <1>2

LEMMA FlagsStay == isActive' = isActive => Count(Active)' = Count(Active)
BY DEF Active, Count

LEMMA StepCount ==
  ASSUME TypeInv, ObjectInv, CountMatchesFlags, [Next]_vars
  PROVE  CountMatchesFlags'
<1> USE DEF TypeInv, CountMatchesFlags
<1>1. ASSUME NEW p \in Procs, RegisterShared(p) PROVE CountMatchesFlags'
  <2>1. pc' = [pc EXCEPT ![p] = "store"]
    BY <1>1 DEF RegisterShared, Goto
  <2>2. \A m \in PCs : Count(At(m))' = Count(At(m)) + (IF "store" = m THEN 1 ELSE 0)
                                      - (IF pc[p] = m THEN 1 ELSE 0)
    BY <2>1, Moves DEF PCs
  <2>4. Count(Active)' = Count(Active)
    BY <1>1, FlagsStay DEF RegisterShared, memory, others
  <2> QED BY <1>1, <2>2, <2>4, ProcsFinite, ActiveFinite, SMTT(30) DEF RegisterShared, memory,
     others, PCs
<1>2. ASSUME NEW p \in Procs, StoreShared(p) PROVE CountMatchesFlags'
  <2>1. pc' = [pc EXCEPT ![p] = "ready"]
    BY <1>2 DEF StoreShared, Goto
  <2>2. \A m \in PCs : Count(At(m))' = Count(At(m)) + (IF "ready" = m THEN 1 ELSE 0)
                                      - (IF pc[p] = m THEN 1 ELSE 0)
    BY <2>1, Moves DEF PCs
  <2>4. Count(Active)' = Count(Active)
    BY <1>2, FlagsStay DEF StoreShared, others
  <2> QED BY <1>2, <2>2, <2>4, ProcsFinite, ActiveFinite, SMTT(30) DEF StoreShared, others, PCs
<1>3. ASSUME NEW p \in Procs, UnregisterShared(p) PROVE CountMatchesFlags'
  <2>1. CASE refCount = 1
    <3>1. pc' = [pc EXCEPT ![p] = "cas"]
      BY <1>3, <2>1 DEF UnregisterShared, Goto
    <3>2. \A m \in PCs : Count(At(m))' = Count(At(m)) + (IF "cas" = m THEN 1 ELSE 0)
                                        - (IF pc[p] = m THEN 1 ELSE 0)
      BY <3>1, Moves DEF PCs
    <3>4. Count(Active)' = Count(Active)
      BY <1>3, <2>1, FlagsStay DEF UnregisterShared, memory, others
    <3> QED BY <1>3, <2>1, <3>2, <3>4, ProcsFinite, ActiveFinite, SMTT(30)
       DEF UnregisterShared, memory, others, PCs
  <2>2. CASE refCount # 1
    <3>1. pc' = [pc EXCEPT ![p] = "out"]
      BY <1>3, <2>2 DEF UnregisterShared, Goto
    <3>2. \A m \in PCs : Count(At(m))' = Count(At(m)) + (IF "out" = m THEN 1 ELSE 0)
                                        - (IF pc[p] = m THEN 1 ELSE 0)
      BY <3>1, Moves DEF PCs
    <3>4. Count(Active)' = Count(Active)
      BY <1>3, <2>2, FlagsStay DEF UnregisterShared, memory, others
    <3> QED BY <1>3, <2>2, <3>2, <3>4, ProcsFinite, ActiveFinite, SMTT(30)
       DEF UnregisterShared, memory, others, PCs
  <2> QED BY <2>1, <2>2
<1>4. ASSUME NEW p \in Procs, UnregisterCAS(p) PROVE CountMatchesFlags'
  <2>1. CASE entry # 0 /\ isActive[entry]
    <3>1. pc' = [pc EXCEPT ![p] = "sub"]
      BY <1>4, <2>1 DEF UnregisterCAS, Goto
    <3>2. \A m \in PCs : Count(At(m))' = Count(At(m)) + (IF "sub" = m THEN 1 ELSE 0)
                                        - (IF pc[p] = m THEN 1 ELSE 0)
      BY <3>1, Moves DEF PCs
    <3>3. entry \in Objects /\ isActive' = [isActive EXCEPT ![entry] = FALSE]
      BY <1>4, <2>1, SMTT(30) DEF UnregisterCAS, ObjectInv, WithObject, TypeInv
    <3>4. Count(Active)' = Count(Active) - (IF isActive[entry] THEN 1 ELSE 0)
      BY <3>3, FlagClear
    <3>5. /\ Count(At("inc"))' = Count(At("inc"))
          /\ Count(At("sub"))' = Count(At("sub")) + 1
          /\ Count(At("undo"))' = Count(At("undo"))
      <4>1. pc[p] = "cas" /\ {"inc", "sub", "undo", "sub", "cas"} \subseteq PCs
        BY <1>4 DEF UnregisterCAS, PCs
      <4>2. Count(At("inc"))' = Count(At("inc"))
        BY <3>1, <4>1, Elsewhere
      <4>3. Count(At("sub"))' = Count(At("sub")) + 1
        BY <3>1, <4>1, Enters
      <4>4. Count(At("undo"))' = Count(At("undo"))
        BY <3>1, <4>1, Elsewhere
      <4> QED BY <4>2, <4>3, <4>4
    <3>6. activeCount' = activeCount /\ owner' = owner /\ idler' = idler
      BY <1>4, <2>1 DEF UnregisterCAS, others
    <3>7. Count(At("inc")) \in Nat /\ Count(At("sub")) \in Nat /\ Count(At("undo")) \in Nat
      BY ProcsFinite
    <3> QED BY <3>4, <3>5, <3>6, <3>7, <2>1, ActiveFinite, SMTT(30)
  <2>2. CASE ~(entry # 0 /\ isActive[entry])
    <3>1. pc' = [pc EXCEPT ![p] = "delete"]
      BY <1>4, <2>2 DEF UnregisterCAS, Goto
    <3>2. \A m \in PCs : Count(At(m))' = Count(At(m)) + (IF "delete" = m THEN 1 ELSE 0)
                                        - (IF pc[p] = m THEN 1 ELSE 0)
      BY <3>1, Moves DEF PCs
    <3>4. Count(Active)' = Count(Active)
      BY <1>4, <2>2, FlagsStay DEF UnregisterCAS, others
    <3> QED BY <1>4, <2>2, <3>2, <3>4, ProcsFinite, ActiveFinite, SMTT(30) DEF UnregisterCAS,
       others, PCs
  <2> QED BY <2>1, <2>2
<1>5. ASSUME NEW p \in Procs, UnregisterSub(p) PROVE CountMatchesFlags'
  <2>1. pc' = [pc EXCEPT ![p] = "delete"]
    BY <1>5 DEF UnregisterSub, Goto
  <2>2. \A m \in PCs : Count(At(m))' = Count(At(m)) + (IF "delete" = m THEN 1 ELSE 0)
                                      - (IF pc[p] = m THEN 1 ELSE 0)
    BY <2>1, Moves DEF PCs
  <2>4. Count(Active)' = Count(Active)
    BY <1>5, FlagsStay DEF UnregisterSub, memory, others
  <2>5. /\ Count(At("inc"))' = Count(At("inc"))
        /\ Count(At("sub"))' = Count(At("sub")) - 1
        /\ Count(At("undo"))' = Count(At("undo"))
    <3>1. pc[p] = "sub" /\ {"inc", "sub", "undo", "delete", "sub"} \subseteq PCs
      BY <1>5 DEF UnregisterSub, PCs
    <3>2. Count(At("inc"))' = Count(At("inc"))
      BY <2>1, <3>1, Elsewhere
    <3>3. Count(At("sub"))' = Count(At("sub")) - 1
      BY <2>1, <3>1, Leaves
    <3>4. Count(At("undo"))' = Count(At("undo"))
      BY <2>1, <3>1, Elsewhere
    <3> QED BY <3>2, <3>3, <3>4
  <2>6. activeCount' = activeCount - 1 /\ owner' = owner /\ idler' = idler
    BY <1>5 DEF UnregisterSub, memory, others
  <2>7. Count(At("inc")) \in Nat /\ Count(At("sub")) \in Nat /\ Count(At("undo")) \in Nat
    BY ProcsFinite
  <2>8. /\ (IF owner = "add" THEN 1 ELSE 0) \in Int /\ (IF idler = "sub" THEN 1 ELSE 0) \in Int
        /\ activeCount \in Int /\ Count(Active) \in Int
    BY ActiveFinite, SMTT(30)
  <2>9. activeCount - 1 = Count(Active) - Count(At("inc")) + (Count(At("sub")) - 1) + Count(At("undo"))
                          + (IF owner = "add" THEN 1 ELSE 0) + (IF idler = "sub" THEN 1 ELSE 0)
    <3> HIDE DEF TypeInv
    <3> DEFINE f == IF owner = "add" THEN 1 ELSE 0
               g == IF idler = "sub" THEN 1 ELSE 0
    <3>1. f \in Int /\ g \in Int
      BY SMTT(30)
    <3>2. activeCount = Count(Active) - Count(At("inc")) + Count(At("sub")) + Count(At("undo")) + f + g
      BY DEF CountMatchesFlags
    <3> HIDE DEF f, g, CountMatchesFlags
    <3>3. activeCount - 1 = Count(Active) - Count(At("inc")) + (Count(At("sub")) - 1) + Count(At("undo")) + f + g
      BY <2>7, <2>8, <3>1, <3>2, SMTT(30)
    <3> QED BY <3>3 DEF f, g
  <2> QED BY <2>4, <2>5, <2>6, <2>9
<1>6. ASSUME NEW p \in Procs, UnregisterDelete(p) PROVE CountMatchesFlags'
  <2>1. pc' = [pc EXCEPT ![p] = "out"]
    BY <1>6 DEF UnregisterDelete, Goto
  <2>2. \A m \in PCs : Count(At(m))' = Count(At(m)) + (IF "out" = m THEN 1 ELSE 0)
                                      - (IF pc[p] = m THEN 1 ELSE 0)
    BY <2>1, Moves DEF PCs
  <2>4. Count(Active)' = Count(Active)
    BY <1>6, FlagsStay DEF UnregisterDelete, others
  <2> QED BY <1>6, <2>2, <2>4, ProcsFinite, ActiveFinite, SMTT(30) DEF UnregisterDelete,
     others, PCs
<1>7. ASSUME NEW p \in Procs, RequestSend(p) PROVE CountMatchesFlags'
  <2>1. CASE entry = 0
    <3>1. pc' = [pc EXCEPT ![p] = "send"]
      BY <1>7, <2>1 DEF RequestSend, Goto
    <3>2. \A m \in PCs : Count(At(m))' = Count(At(m)) + (IF "send" = m THEN 1 ELSE 0)
                                        - (IF pc[p] = m THEN 1 ELSE 0)
      BY <3>1, Moves DEF PCs
    <3>4. Count(Active)' = Count(Active)
      BY <1>7, <2>1, FlagsStay DEF RequestSend, sendFrame, others
    <3> QED BY <1>7, <2>1, <3>2, <3>4, ProcsFinite, ActiveFinite, SMTT(30) DEF RequestSend,
       sendFrame, others, PCs
  <2>2. CASE entry # 0
    <3>1. pc' = [pc EXCEPT ![p] = "mark"]
      BY <1>7, <2>2 DEF RequestSend, Goto
    <3>2. \A m \in PCs : Count(At(m))' = Count(At(m)) + (IF "mark" = m THEN 1 ELSE 0)
                                        - (IF pc[p] = m THEN 1 ELSE 0)
      BY <3>1, Moves DEF PCs
    <3>4. Count(Active)' = Count(Active)
      BY <1>7, <2>2, FlagsStay DEF RequestSend, sendFrame, others
    <3> QED BY <1>7, <2>2, <3>2, <3>4, ProcsFinite, ActiveFinite, SMTT(30) DEF RequestSend,
       sendFrame, others, PCs
  <2> QED BY <2>1, <2>2
<1>8. ASSUME NEW p \in Procs, MarkActive(p) PROVE CountMatchesFlags'
  <2>1. CASE isActive[obj[p]]
    <3>1. pc' = [pc EXCEPT ![p] = "replenish"]
      BY <1>8, <2>1 DEF MarkActive, Goto
    <3>2. \A m \in PCs : Count(At(m))' = Count(At(m)) + (IF "replenish" = m THEN 1 ELSE 0)
                                        - (IF pc[p] = m THEN 1 ELSE 0)
      BY <3>1, Moves DEF PCs
    <3>3. obj[p] \in Objects /\ isActive' = [isActive EXCEPT ![obj[p]] = TRUE]
      BY <1>8, <2>1, SMTT(30) DEF MarkActive, ObjectInv, WithObject, TypeInv
    <3>4. Count(Active)' = Count(Active) + (IF isActive[obj[p]] THEN 0 ELSE 1)
      BY <3>3, FlagSet
    <3> QED BY <1>8, <2>1, <3>2, <3>4, ProcsFinite, ActiveFinite, SMTT(30) DEF MarkActive,
       sendFrame, others, PCs
  <2>2. CASE ~isActive[obj[p]]
    <3>1. pc' = [pc EXCEPT ![p] = "inc"]
      BY <1>8, <2>2 DEF MarkActive, Goto
    <3>2. \A m \in PCs : Count(At(m))' = Count(At(m)) + (IF "inc" = m THEN 1 ELSE 0)
                                        - (IF pc[p] = m THEN 1 ELSE 0)
      BY <3>1, Moves DEF PCs
    <3>3. obj[p] \in Objects /\ isActive' = [isActive EXCEPT ![obj[p]] = TRUE]
      BY <1>8, <2>2, SMTT(30) DEF MarkActive, ObjectInv, WithObject, TypeInv
    <3>4. Count(Active)' = Count(Active) + (IF isActive[obj[p]] THEN 0 ELSE 1)
      BY <3>3, FlagSet
    <3>5. /\ Count(At("inc"))' = Count(At("inc")) + 1
          /\ Count(At("sub"))' = Count(At("sub"))
          /\ Count(At("undo"))' = Count(At("undo"))
      <4>1. pc[p] = "mark" /\ {"inc", "sub", "undo", "inc", "mark"} \subseteq PCs
        BY <1>8 DEF MarkActive, PCs
      <4>2. Count(At("inc"))' = Count(At("inc")) + 1
        BY <3>1, <4>1, Enters
      <4>3. Count(At("sub"))' = Count(At("sub"))
        BY <3>1, <4>1, Elsewhere
      <4>4. Count(At("undo"))' = Count(At("undo"))
        BY <3>1, <4>1, Elsewhere
      <4> QED BY <4>2, <4>3, <4>4
    <3>6. activeCount' = activeCount /\ owner' = owner /\ idler' = idler
      BY <1>8, <2>2 DEF MarkActive, sendFrame, others
    <3>7. Count(At("inc")) \in Nat /\ Count(At("sub")) \in Nat /\ Count(At("undo")) \in Nat
      BY ProcsFinite
    <3> QED BY <3>4, <3>5, <3>6, <3>7, <2>2, ActiveFinite, SMTT(30)
  <2> QED BY <2>1, <2>2
<1>9. ASSUME NEW p \in Procs, IncActive(p) PROVE CountMatchesFlags'
  <2>1. pc' = [pc EXCEPT ![p] = "still"]
    BY <1>9 DEF IncActive, Goto
  <2>2. \A m \in PCs : Count(At(m))' = Count(At(m)) + (IF "still" = m THEN 1 ELSE 0)
                                      - (IF pc[p] = m THEN 1 ELSE 0)
    BY <2>1, Moves DEF PCs
  <2>4. Count(Active)' = Count(Active)
    BY <1>9, FlagsStay DEF IncActive, sendFrame, others
  <2>5. /\ Count(At("inc"))' = Count(At("inc")) - 1
        /\ Count(At("sub"))' = Count(At("sub"))
        /\ Count(At("undo"))' = Count(At("undo"))
    <3>1. pc[p] = "inc" /\ {"inc", "sub", "undo", "still", "inc"} \subseteq PCs
      BY <1>9 DEF IncActive, PCs
    <3>2. Count(At("inc"))' = Count(At("inc")) - 1
      BY <2>1, <3>1, Leaves
    <3>3. Count(At("sub"))' = Count(At("sub"))
      BY <2>1, <3>1, Elsewhere
    <3>4. Count(At("undo"))' = Count(At("undo"))
      BY <2>1, <3>1, Elsewhere
    <3> QED BY <3>2, <3>3, <3>4
  <2>6. activeCount' = activeCount + 1 /\ owner' = owner /\ idler' = idler
    BY <1>9 DEF IncActive, sendFrame, others
  <2>7. Count(At("inc")) \in Nat /\ Count(At("sub")) \in Nat /\ Count(At("undo")) \in Nat
    BY ProcsFinite
  <2> QED BY <2>4, <2>5, <2>6, <2>7, ActiveFinite, SMTT(30)
<1>10. ASSUME NEW p \in Procs, StillThere(p) PROVE CountMatchesFlags'
  <2>1. CASE entry # 0
    <3>1. pc' = [pc EXCEPT ![p] = "replenish"]
      BY <1>10, <2>1 DEF StillThere, Goto
    <3>2. \A m \in PCs : Count(At(m))' = Count(At(m)) + (IF "replenish" = m THEN 1 ELSE 0)
                                        - (IF pc[p] = m THEN 1 ELSE 0)
      BY <3>1, Moves DEF PCs
    <3>4. Count(Active)' = Count(Active)
      BY <1>10, <2>1, FlagsStay DEF StillThere, sendFrame, others
    <3> QED BY <1>10, <2>1, <3>2, <3>4, ProcsFinite, ActiveFinite, SMTT(30) DEF StillThere,
       sendFrame, others, PCs
  <2>2. CASE entry = 0 /\ isActive[obj[p]]
    <3>1. pc' = [pc EXCEPT ![p] = "undo"]
      BY <1>10, <2>2 DEF StillThere, Goto
    <3>2. \A m \in PCs : Count(At(m))' = Count(At(m)) + (IF "undo" = m THEN 1 ELSE 0)
                                        - (IF pc[p] = m THEN 1 ELSE 0)
      BY <3>1, Moves DEF PCs
    <3>3. obj[p] \in Objects /\ isActive' = [isActive EXCEPT ![obj[p]] = FALSE]
      BY <1>10, <2>2, SMTT(30) DEF StillThere, ObjectInv, WithObject, TypeInv
    <3>4. Count(Active)' = Count(Active) - (IF isActive[obj[p]] THEN 1 ELSE 0)
      BY <3>3, FlagClear
    <3>5. /\ Count(At("inc"))' = Count(At("inc"))
          /\ Count(At("sub"))' = Count(At("sub"))
          /\ Count(At("undo"))' = Count(At("undo")) + 1
      <4>1. pc[p] = "still" /\ {"inc", "sub", "undo", "undo", "still"} \subseteq PCs
        BY <1>10 DEF StillThere, PCs
      <4>2. Count(At("inc"))' = Count(At("inc"))
        BY <3>1, <4>1, Elsewhere
      <4>3. Count(At("sub"))' = Count(At("sub"))
        BY <3>1, <4>1, Elsewhere
      <4>4. Count(At("undo"))' = Count(At("undo")) + 1
        BY <3>1, <4>1, Enters
      <4> QED BY <4>2, <4>3, <4>4
    <3>6. activeCount' = activeCount /\ owner' = owner /\ idler' = idler
      BY <1>10, <2>2 DEF StillThere, sendFrame, others
    <3>7. Count(At("inc")) \in Nat /\ Count(At("sub")) \in Nat /\ Count(At("undo")) \in Nat
      BY ProcsFinite
    <3> QED BY <3>4, <3>5, <3>6, <3>7, <2>2, ActiveFinite, SMTT(30)
  <2>3. CASE entry = 0 /\ ~isActive[obj[p]]
    <3>1. pc' = [pc EXCEPT ![p] = "send"]
      BY <1>10, <2>3 DEF StillThere, Goto
    <3>2. \A m \in PCs : Count(At(m))' = Count(At(m)) + (IF "send" = m THEN 1 ELSE 0)
                                        - (IF pc[p] = m THEN 1 ELSE 0)
      BY <3>1, Moves DEF PCs
    <3>3. obj[p] \in Objects /\ isActive' = [isActive EXCEPT ![obj[p]] = FALSE]
      BY <1>10, <2>3, SMTT(30) DEF StillThere, ObjectInv, WithObject, TypeInv
    <3>4. Count(Active)' = Count(Active) - (IF isActive[obj[p]] THEN 1 ELSE 0)
      BY <3>3, FlagClear
    <3> QED BY <1>10, <2>3, <3>2, <3>4, ProcsFinite, ActiveFinite, SMTT(30) DEF StillThere,
       sendFrame, others, PCs
  <2> QED BY <2>1, <2>2, <2>3
<1>11. ASSUME NEW p \in Procs, UndoActive(p) PROVE CountMatchesFlags'
  <2>1. pc' = [pc EXCEPT ![p] = "send"]
    BY <1>11 DEF UndoActive, Goto
  <2>2. \A m \in PCs : Count(At(m))' = Count(At(m)) + (IF "send" = m THEN 1 ELSE 0)
                                      - (IF pc[p] = m THEN 1 ELSE 0)
    BY <2>1, Moves DEF PCs
  <2>4. Count(Active)' = Count(Active)
    BY <1>11, FlagsStay DEF UndoActive, sendFrame, others
  <2>5. /\ Count(At("inc"))' = Count(At("inc"))
        /\ Count(At("sub"))' = Count(At("sub"))
        /\ Count(At("undo"))' = Count(At("undo")) - 1
    <3>1. pc[p] = "undo" /\ {"inc", "sub", "undo", "send", "undo"} \subseteq PCs
      BY <1>11 DEF UndoActive, PCs
    <3>2. Count(At("inc"))' = Count(At("inc"))
      BY <2>1, <3>1, Elsewhere
    <3>3. Count(At("sub"))' = Count(At("sub"))
      BY <2>1, <3>1, Elsewhere
    <3>4. Count(At("undo"))' = Count(At("undo")) - 1
      BY <2>1, <3>1, Leaves
    <3> QED BY <3>2, <3>3, <3>4
  <2>6. activeCount' = activeCount - 1 /\ owner' = owner /\ idler' = idler
    BY <1>11 DEF UndoActive, sendFrame, others
  <2>7. Count(At("inc")) \in Nat /\ Count(At("sub")) \in Nat /\ Count(At("undo")) \in Nat
    BY ProcsFinite
  <2> QED BY <2>4, <2>5, <2>6, <2>7, ActiveFinite, DropOne, SMTT(30)
<1>12. ASSUME NEW p \in Procs, replenishDeficit(p) PROVE CountMatchesFlags'
  <2>1. pc' = [pc EXCEPT ![p] = "reserve"]
    BY <1>12 DEF replenishDeficit, Goto
  <2>2. \A m \in PCs : Count(At(m))' = Count(At(m)) + (IF "reserve" = m THEN 1 ELSE 0)
                                      - (IF pc[p] = m THEN 1 ELSE 0)
    BY <2>1, Moves DEF PCs
  <2>4. Count(Active)' = Count(Active)
    BY <1>12, FlagsStay DEF replenishDeficit, sendFrame, others
  <2> QED BY <1>12, <2>2, <2>4, ProcsFinite, ActiveFinite, SMTT(30) DEF replenishDeficit,
     sendFrame, others, PCs
<1>13. ASSUME NEW p \in Procs, Reserve(p) PROVE CountMatchesFlags'
  <2>1. CASE deficit[obj[p]] >= size[p]
    <3>1. pc' = [pc EXCEPT ![p] = "send"]
      BY <1>13, <2>1 DEF Reserve, Goto
    <3>2. \A m \in PCs : Count(At(m))' = Count(At(m)) + (IF "send" = m THEN 1 ELSE 0)
                                        - (IF pc[p] = m THEN 1 ELSE 0)
      BY <3>1, Moves DEF PCs
    <3>4. Count(Active)' = Count(Active)
      BY <1>13, <2>1, FlagsStay DEF Reserve, sendFrame, others
    <3> QED BY <1>13, <2>1, <3>2, <3>4, ProcsFinite, ActiveFinite, SMTT(30) DEF Reserve,
       sendFrame, others, PCs
  <2>2. CASE ~(deficit[obj[p]] >= size[p])
    <3>1. pc' = [pc EXCEPT ![p] = "ready"]
      BY <1>13, <2>2 DEF Reserve, Goto
    <3>2. \A m \in PCs : Count(At(m))' = Count(At(m)) + (IF "ready" = m THEN 1 ELSE 0)
                                        - (IF pc[p] = m THEN 1 ELSE 0)
      BY <3>1, Moves DEF PCs
    <3>4. Count(Active)' = Count(Active)
      BY <1>13, <2>2, FlagsStay DEF Reserve, sendFrame, others
    <3> QED BY <1>13, <2>2, <3>2, <3>4, ProcsFinite, ActiveFinite, SMTT(30) DEF Reserve,
       sendFrame, others, PCs
  <2> QED BY <2>1, <2>2
<1>14. ASSUME NEW p \in Procs, RecordSent(p) PROVE CountMatchesFlags'
  <2>1. pc' = [pc EXCEPT ![p] = "ready"]
    BY <1>14 DEF RecordSent, Goto
  <2>2. \A m \in PCs : Count(At(m))' = Count(At(m)) + (IF "ready" = m THEN 1 ELSE 0)
                                      - (IF pc[p] = m THEN 1 ELSE 0)
    BY <2>1, Moves DEF PCs
  <2>4. Count(Active)' = Count(Active)
    BY <1>14, FlagsStay DEF RecordSent, sendFrame, others
  <2> QED BY <1>14, <2>2, <2>4, ProcsFinite, ActiveFinite, SMTT(30) DEF RecordSent, sendFrame,
     others, PCs
<1>15. ASSUME NEW p \in Procs, RefundSend(p) PROVE CountMatchesFlags'
  <2>1. pc' = [pc EXCEPT ![p] = "ready"]
    BY <1>15 DEF RefundSend, Goto
  <2>2. \A m \in PCs : Count(At(m))' = Count(At(m)) + (IF "ready" = m THEN 1 ELSE 0)
                                      - (IF pc[p] = m THEN 1 ELSE 0)
    BY <2>1, Moves DEF PCs
  <2>4. Count(Active)' = Count(Active)
    BY <1>15, FlagsStay DEF RefundSend, sendFrame, others
  <2> QED BY <1>15, <2>2, <2>4, ProcsFinite, ActiveFinite, SMTT(30) DEF RefundSend, sendFrame,
     others, PCs
<1>16. CASE Unregister
  <2>1. \A m : Count(At(m))' = Count(At(m))
    BY <1>16, Stays DEF Unregister, ownerFrame
  <2>2. entry \in Objects /\ isActive' = [isActive EXCEPT ![entry] = FALSE]
    BY <1>16, SMTT(30) DEF Unregister, ObjectInv, TypeInv
  <2>3. Count(Active)' = Count(Active) - (IF isActive[entry] THEN 1 ELSE 0)
    BY <2>2, FlagClear
  <2> QED BY <1>16, <2>1, <2>3, ProcsFinite, ActiveFinite, SMTT(30) DEF Unregister, ownerFrame
<1>17. CASE OwnerSub
  <2>1. \A m : Count(At(m))' = Count(At(m))
    BY <1>17, Stays DEF OwnerSub, ownerFrame
  <2>3. Count(Active)' = Count(Active)
    BY <1>17, FlagsStay DEF OwnerSub, ownerFrame
  <2> QED BY <1>17, <2>1, <2>3, ProcsFinite, ActiveFinite, SMTT(30) DEF OwnerSub, ownerFrame
<1>18. CASE OwnerDelete
  <2>1. \A m : Count(At(m))' = Count(At(m))
    BY <1>18, Stays DEF OwnerDelete, ownerFrame
  <2>3. Count(Active)' = Count(Active)
    BY <1>18, FlagsStay DEF OwnerDelete, ownerFrame
  <2> QED BY <1>18, <2>1, <2>3, ProcsFinite, ActiveFinite DEF OwnerDelete, ownerFrame
<1>19. CASE checkIdleBackends
  <2>1. \A m : Count(At(m))' = Count(At(m))
    BY <1>19, Stays DEF checkIdleBackends, idleFrame
  <2>2. entry \in Objects /\ isActive' = [isActive EXCEPT ![entry] = FALSE]
    BY <1>19, SMTT(30) DEF checkIdleBackends, ObjectInv, TypeInv
  <2>3. Count(Active)' = Count(Active) - (IF isActive[entry] THEN 1 ELSE 0)
    BY <2>2, FlagClear
  <2> QED BY <1>19, <2>1, <2>3, ProcsFinite, ActiveFinite, SMTT(30) DEF checkIdleBackends,
     idleFrame
<1>20. CASE IdleSub
  <2>1. \A m : Count(At(m))' = Count(At(m))
    BY <1>20, Stays DEF IdleSub, idleFrame
  <2>3. Count(Active)' = Count(Active)
    BY <1>20, FlagsStay DEF IdleSub, idleFrame
  <2> QED BY <1>20, <2>1, <2>3, ProcsFinite, ActiveFinite, SMTT(30) DEF IdleSub, idleFrame
<1>21. CASE IdleReset
  <2>1. \A m : Count(At(m))' = Count(At(m))
    BY <1>21, Stays DEF IdleReset, idleFrame
  <2>3. Count(Active)' = Count(Active)
    BY <1>21, FlagsStay DEF IdleReset, idleFrame
  <2> QED BY <1>21, <2>1, <2>3, ProcsFinite, ActiveFinite DEF IdleReset, idleFrame
<1>22. CASE UNCHANGED vars 
  BY <1>22, Stays, FlagsStay DEF vars, memory, others
<1> QED BY <1>1, <1>2, <1>3, <1>4, <1>5, <1>6, <1>7, <1>8, <1>9, <1>10, <1>11, <1>12,
           <1>13, <1>14, <1>15, <1>16, <1>17, <1>18, <1>19, <1>20, <1>21, <1>22
        DEF Next, Sharing, Sending, Owner, Idler

-----------------------------------------------------------------------------
(* The inductive invariant and the theorems *)

LEMMA InitInv == Init => IInv /\ CountMatchesFlags
<1> SUFFICES ASSUME Init PROVE IInv /\ CountMatchesFlags
  OBVIOUS
<1>1. TypeInv /\ ObjectInv /\ ModeInv /\ RoomInv
  BY SMTT(30) DEF Init, TypeInv, ObjectInv, ModeInv, RoomInv, PCs, WithObject, Outside
<1>2. Holders = {}
  BY DEF Init, Holders
<1>3. ShareInv
  BY <1>2, FS_EmptySet DEF Init, ShareInv, SharedEntryLives, Cleaning
<1>4. Active = {} /\ At("inc") = {} /\ At("sub") = {} /\ At("undo") = {}
  BY DEF Init, Active, At
<1>5. CountMatchesFlags
  <2>1. Count(Active) = 0 /\ Count(At("inc")) = 0 /\ Count(At("sub")) = 0 /\ Count(At("undo")) = 0
    BY <1>4, FS_EmptySet DEF Count
  <2>2. activeCount = 0 /\ owner # "add" /\ idler # "sub"
    BY DEF Init
  <2> QED BY <2>1, <2>2, SMTT(30) DEF CountMatchesFlags
<1> QED BY <1>1, <1>3, <1>5 DEF IInv

LEMMA Inductive == IInv /\ CountMatchesFlags /\ [Next]_vars => (IInv /\ CountMatchesFlags)'
BY StepTypes, StepControl, StepRoom, StepShare, StepCount DEF IInv

LEMMA Invariant == Spec => [](IInv /\ CountMatchesFlags)
BY InitInv, Inductive, PTL DEF Spec

\* Whoever wins the CAS on isActive (a client, a tunnel, Unregister or the idle
\* check), activeCount follows the flags, for any number of goroutines.
THEOREM CountMatchesFlagsHolds == Spec => []CountMatchesFlags
BY Invariant, PTL

\* No interleaving of reservations, refunds, replenishments and idle resets
\* overdraws a deficit, for any number of goroutines and any message sizes.
THEOREM NeverOverdrawnHolds == Spec => []NeverOverdrawn
<1>1. IInv => NeverOverdrawn
  BY SMTT(30) DEF IInv, TypeInv, NeverOverdrawn
<1> QED BY <1>1, Invariant, PTL

\* A tunnel that has registered a shared id finds its entry until it
\* unregisters, whatever other tunnels register and unregister meanwhile.
THEOREM SharedEntryLivesHolds == Spec => []SharedEntryLives
<1>1. IInv => SharedEntryLives
  BY DEF IInv, ShareInv
<1> QED BY <1>1, Invariant, PTL

\* Type correctness; the reference count never exceeds the number of tunnels.
THEOREM TypeCorrect == Spec => []TypeOK
<1>1. IInv => TypeOK
  <2> SUFFICES ASSUME IInv PROVE TypeOK
    OBVIOUS
  <2>1. IsFiniteSet(Tunnels) /\ Holders \subseteq Tunnels
    BY DEF Holders
  <2>2. Cardinality(Holders) <= Cardinality(Tunnels)
    BY <2>1, FS_Subset
  <2>3. refCount \in 0 .. Count(Tunnels)
    BY <2>1, <2>2, FS_CardinalityType, SMTT(30) DEF IInv, TypeInv, ShareInv, Count
  <2> QED BY <2>3, SMTT(30) DEF IInv, TypeInv, TypeOK
<1> QED BY <1>1, Invariant, PTL
=============================================================================
