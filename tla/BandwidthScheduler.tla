------------------------- MODULE BandwidthScheduler -------------------------
(***************************************************************************)
(* The deficit scheduler of src/internal/bandwidth/scheduler.go for one    *)
(* backend id, with the goroutines that use it: client goroutines of a     *)
(* backend (Backend.SendData, backendBandwidthGate) whose hub registers    *)
(* the id once and unregisters it when the backend goes; tunnels that      *)
(* share an id with RegisterShared/UnregisterShared; the idle check.       *)
(* Every atomic operation is a step; a region under sharedMu holds `mu'.   *)
(* A BackendBandwidth is an object with a number, so that a goroutine can  *)
(* hold one that has left the map.  Time is abstracted: a replenishment    *)
(* adds any amount up to the cap, an id may look idle at any check.        *)
(***************************************************************************)
EXTENDS Integers, FiniteSets

CONSTANTS
  Clients,     \* goroutines that send on a directly registered id
  Tunnels,     \* goroutines that share the id by reference count
  Sizes,       \* message sizes
  DeficitCap,  \* maxDeficit, at least minDeficitCap
  MaxObjects   \* bound: BackendBandwidth objects allocated

ASSUME SchedulerConstants ==
  /\ IsFiniteSet(Clients) /\ IsFiniteSet(Tunnels) /\ Clients \cap Tunnels = {}
  /\ "free" \notin Tunnels
  /\ Sizes \subseteq 1 .. DeficitCap
  /\ DeficitCap \in Nat /\ MaxObjects \in Nat \ {0}

Procs == Clients \cup Tunnels
Objects == 1 .. MaxObjects

VARIABLES
  entry,       \* Scheduler.backends[id]: an object, 0 = no entry
  allocated,   \* objects allocated so far
  isActive, deficit,           \* per object
  activeCount,
  refCount, mu,                \* refCounts[id]; holder of sharedMu or "free"
  pc, obj, size,               \* per goroutine: control point, bw, bytes
  owner,       \* Hub.unregister: "up", "add", "delete", "down"
  idler, idleObj               \* checkIdleBackends

memory == <<entry, allocated, isActive, deficit>>
others == <<owner, idler, idleObj>>
vars == <<memory, activeCount, refCount, mu, pc, obj, size, others>>

\* The id is that of a hub backend, registered before its pumps start, or one
\* that tunnels register later: never both.
Init ==
  /\ entry \in {0, 1} /\ allocated = entry
  /\ isActive = [o \in Objects |-> FALSE]
  /\ deficit = [o \in Objects |-> 0]
  /\ activeCount = 0 /\ refCount = 0 /\ mu = "free"
  /\ pc = [p \in Procs |-> IF (p \in Clients) # (entry = 1) THEN "absent"
                           ELSE IF p \in Clients THEN "ready" ELSE "out"]
  /\ obj = [p \in Procs |-> 0] /\ size = [p \in Procs |-> 0]
  /\ owner = (IF entry = 0 THEN "down" ELSE "up")
  /\ idler = "sleep" /\ idleObj = 0

Goto(p, l) == pc' = [pc EXCEPT ![p] = l]

-----------------------------------------------------------------------------
(* RegisterShared and UnregisterShared *)

RegisterShared(p) ==
  /\ pc[p] = "out" /\ mu = "free" /\ allocated < MaxObjects
  /\ refCount' = refCount + 1
  /\ Goto(p, "store")
  /\ UNCHANGED <<memory, activeCount, mu, obj, size, others>>

\* The Load of a caller that is not the first, and everybody's LoadOrStore.
StoreShared(p) ==
  /\ pc[p] = "store"
  /\ IF entry # 0
     THEN UNCHANGED <<entry, allocated>>
     ELSE allocated' = allocated + 1 /\ entry' = allocated + 1
  /\ Goto(p, "ready")
  /\ UNCHANGED <<isActive, deficit, activeCount, refCount, mu, obj, size, others>>

\* Mutant: the lock is released before the entry is cleaned up.
UnregisterUnlocked(p) ==
  /\ pc[p] = "ready" /\ p \in Tunnels /\ mu = "free"
  /\ refCount' = refCount - 1
  /\ Goto(p, IF refCount = 1 THEN "cas" ELSE "out")
  /\ UNCHANGED <<memory, activeCount, mu, obj, size, others>>

\* The last reference cleans up under the lock.
UnregisterShared(p) ==
  /\ pc[p] = "ready" /\ p \in Tunnels /\ mu = "free"
  /\ refCount' = refCount - 1
  /\ mu' = IF refCount = 1 THEN p ELSE "free"
  /\ Goto(p, IF refCount = 1 THEN "cas" ELSE "out")
  /\ UNCHANGED <<memory, activeCount, obj, size, others>>

UnregisterCAS(p) ==
  /\ pc[p] = "cas"
  /\ obj' = [obj EXCEPT ![p] = entry]
  /\ IF entry # 0 /\ isActive[entry]
     THEN isActive' = [isActive EXCEPT ![entry] = FALSE] /\ Goto(p, "sub")
     ELSE Goto(p, "delete") /\ UNCHANGED isActive
  /\ UNCHANGED <<entry, allocated, deficit, activeCount, refCount, mu, size, others>>

UnregisterSub(p) ==
  /\ pc[p] = "sub"
  /\ activeCount' = activeCount - 1
  /\ Goto(p, "delete")
  /\ UNCHANGED <<memory, refCount, mu, obj, size, others>>

UnregisterDelete(p) ==
  /\ pc[p] = "delete"
  /\ entry' = 0
  /\ mu' = "free"
  /\ Goto(p, "out")
  /\ UNCHANGED <<allocated, isActive, deficit, activeCount, refCount, obj, size, others>>

Sharing(p) == RegisterShared(p) \/ StoreShared(p) \/ UnregisterShared(p)
                \/ UnregisterCAS(p) \/ UnregisterSub(p) \/ UnregisterDelete(p)

-----------------------------------------------------------------------------
(* RequestSend, then the send, then RecordSent or RefundSend *)

sendFrame == <<entry, allocated, refCount, mu, others>>

\* An unknown backend is allowed without a reservation.
RequestSend(p) ==
  /\ pc[p] = "ready"
  /\ \E n \in Sizes : size' = [size EXCEPT ![p] = n]
  /\ obj' = [obj EXCEPT ![p] = entry]
  /\ Goto(p, IF entry = 0 THEN "send" ELSE "mark")
  /\ UNCHANGED <<sendFrame, isActive, deficit, activeCount>>

MarkActive(p) ==
  /\ pc[p] = "mark"
  /\ isActive' = [isActive EXCEPT ![obj[p]] = TRUE]
  /\ Goto(p, IF isActive[obj[p]] THEN "replenish" ELSE "inc")
  /\ UNCHANGED <<sendFrame, deficit, activeCount, obj, size>>

IncActive(p) ==
  /\ pc[p] = "inc"
  /\ activeCount' = activeCount + 1
  /\ Goto(p, "still")
  /\ UNCHANGED <<sendFrame, isActive, deficit, obj, size>>

\* The re-check: undo the increment if the id has left the map.
StillThere(p) ==
  /\ pc[p] = "still"
  /\ IF entry # 0 THEN Goto(p, "replenish") /\ UNCHANGED isActive
     ELSE /\ isActive' = [isActive EXCEPT ![obj[p]] = FALSE]
          /\ Goto(p, IF isActive[obj[p]] THEN "undo" ELSE "send")
  /\ UNCHANGED <<sendFrame, deficit, activeCount, obj, size>>

UndoActive(p) ==
  /\ pc[p] = "undo"
  /\ activeCount' = activeCount - 1
  /\ Goto(p, "send")
  /\ UNCHANGED <<sendFrame, isActive, deficit, obj, size>>

\* n = 0: no time has passed, or another goroutine won the CAS on lastActive,
\* and the deficit is left alone.
replenishDeficit(p) ==
  /\ pc[p] = "replenish"
  /\ \E n \in 0 .. DeficitCap :
       LET sum == deficit[obj[p]] + n
       IN  deficit' = IF n = 0 THEN deficit
                      ELSE [deficit EXCEPT ![obj[p]] = IF sum > DeficitCap THEN DeficitCap ELSE sum]
  /\ Goto(p, "reserve")
  /\ UNCHANGED <<sendFrame, isActive, activeCount, obj, size>>

\* The CAS loop: reserve the bytes, or come back after waitTime.
Reserve(p) ==
  /\ pc[p] = "reserve"
  /\ IF deficit[obj[p]] >= size[p]
     THEN deficit' = [deficit EXCEPT ![obj[p]] = @ - size[p]] /\ Goto(p, "send")
     ELSE Goto(p, "ready") /\ UNCHANGED deficit
  /\ UNCHANGED <<sendFrame, isActive, activeCount, obj, size>>

\* The lane takes the frame: RecordSent touches only metrics and lastActive.
RecordSent(p) ==
  /\ pc[p] = "send"
  /\ Goto(p, "ready")
  /\ size' = [size EXCEPT ![p] = 0]
  /\ UNCHANGED <<sendFrame, isActive, deficit, activeCount, obj>>

\* The lane is full: the bytes go back to the object now in the map.
RefundSend(p) ==
  /\ pc[p] = "send"
  /\ deficit' = IF entry = 0 THEN deficit ELSE [deficit EXCEPT ![entry] = @ + size[p]]
  /\ Goto(p, "ready")
  /\ size' = [size EXCEPT ![p] = 0]
  /\ UNCHANGED <<sendFrame, isActive, activeCount, obj>>

Sending(p) == RequestSend(p) \/ MarkActive(p) \/ IncActive(p) \/ StillThere(p)
                \/ UndoActive(p) \/ replenishDeficit(p) \/ Reserve(p)
                \/ RecordSent(p) \/ RefundSend(p)

-----------------------------------------------------------------------------
(* Hub.unregister calls Unregister while the backend's clients still send *)

ownerFrame == <<allocated, deficit, refCount, mu, pc, obj, size, idler, idleObj>>

\* Mutant: the count is lowered whether or not the backend was active.
UnregisterAlways ==
  /\ owner = "up"
  /\ isActive' = [isActive EXCEPT ![entry] = FALSE]
  /\ owner' = "add"
  /\ UNCHANGED <<entry, activeCount, ownerFrame>>

Unregister ==
  /\ owner = "up"
  /\ isActive' = [isActive EXCEPT ![entry] = FALSE]
  /\ owner' = IF isActive[entry] THEN "add" ELSE "delete"
  /\ UNCHANGED <<entry, activeCount, ownerFrame>>

OwnerSub ==
  /\ owner = "add"
  /\ activeCount' = activeCount - 1
  /\ owner' = "delete"
  /\ UNCHANGED <<entry, isActive, ownerFrame>>

OwnerDelete ==
  /\ owner = "delete"
  /\ entry' = 0
  /\ owner' = "down"
  /\ UNCHANGED <<isActive, activeCount, ownerFrame>>

Owner == Unregister \/ OwnerSub \/ OwnerDelete

-----------------------------------------------------------------------------
(* checkIdleBackends *)

idleFrame == <<entry, allocated, refCount, mu, pc, obj, size, owner>>

checkIdleBackends ==
  /\ idler = "sleep" /\ entry # 0
  /\ idleObj' = entry
  /\ isActive' = [isActive EXCEPT ![entry] = FALSE]
  /\ idler' = IF isActive[entry] THEN "sub" ELSE "sleep"
  /\ UNCHANGED <<idleFrame, deficit, activeCount>>

IdleSub ==
  /\ idler = "sub"
  /\ activeCount' = activeCount - 1
  /\ idler' = "reset"
  /\ UNCHANGED <<idleFrame, isActive, deficit, idleObj>>

IdleReset ==
  /\ idler = "reset"
  /\ deficit' = [deficit EXCEPT ![idleObj] = 0]
  /\ idler' = "sleep"
  /\ UNCHANGED <<idleFrame, isActive, activeCount, idleObj>>

Idler == checkIdleBackends \/ IdleSub \/ IdleReset

Next == (\E p \in Procs : Sharing(p) \/ Sending(p)) \/ Owner \/ Idler

Spec == Init /\ [][Next]_vars

-----------------------------------------------------------------------------
(* Properties *)

PCs == {"absent", "out", "store", "ready", "cas", "sub", "delete", "send", "mark",
        "inc", "still", "undo", "replenish", "reserve"}

Count(S) == Cardinality(S)
Active == {o \in Objects : isActive[o]}
At(l) == {p \in Procs : pc[p] = l}

\* Types; a shared id never has more references than tunnels.
TypeOK ==
  /\ entry \in 0 .. MaxObjects /\ allocated \in 0 .. MaxObjects
  /\ isActive \in [Objects -> BOOLEAN] /\ deficit \in [Objects -> Int]
  /\ activeCount \in Int /\ refCount \in 0 .. Count(Tunnels)
  /\ mu \in Tunnels \cup {"free"} /\ pc \in [Procs -> PCs]
  /\ obj \in [Procs -> 0 .. MaxObjects] /\ size \in [Procs -> Sizes \cup {0}]
  /\ owner \in {"up", "add", "delete", "down"} /\ idler \in {"sleep", "sub", "reset"}

\* Every change of isActive is matched by exactly one change of activeCount,
\* whoever wins the CAS: only steps between a CAS and its Add make a difference.
CountMatchesFlags ==
  activeCount = Count(Active) - Count(At("inc")) + Count(At("sub")) + Count(At("undo"))
                  + (IF owner = "add" THEN 1 ELSE 0) + (IF idler = "sub" THEN 1 ELSE 0)

\* The reservation CAS: a deficit is never overdrawn by two goroutines that saw
\* the same value, nor by the idle reset between them.
NeverOverdrawn == \A o \in Objects : deficit[o] >= 0

\* "The backend is only removed when all callers have called UnregisterShared":
\* a tunnel that has registered finds its entry, whatever the others do, as long
\* as each releases only the reference it took.
SharedEntryLives ==
  \A p \in Tunnels : pc[p] \notin {"absent", "out", "store", "cas", "sub", "delete"} => entry # 0

\* RequestSend re-checks the registration "to prevent permanent drift if
\* Unregister runs concurrently": once everybody is out of it, the count is
\* that of the registered active backends.
NoPermanentDrift ==
  (owner = "down" /\ idler = "sleep" /\ \A p \in Procs : pc[p] \in {"absent", "ready", "out", "send"}) =>
    activeCount = Count(Active \cap {entry})
=============================================================================
