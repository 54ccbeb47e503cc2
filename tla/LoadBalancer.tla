---------------------------- MODULE LoadBalancer ----------------------------
(***************************************************************************)
(* One LoadBalancerPool (src/internal/hub/loadbalancer.go): backends join  *)
(* and leave under the pool's lock while Select goes round.  currentIndex  *)
(* and currentWeight survive every change of the membership, so a round    *)
(* may go on with a position and a weight that belong to another pool.     *)
(* Ingress uses the pools of the hub and takes Select to be any choice.    *)
(***************************************************************************)
EXTENDS Integers, Sequences, SequencesExt, FiniteSetsExt

CONSTANTS
  Backends,
  Weight      \* of each backend; the hub turns a weight below one into one

VARIABLES
  backends, currentIndex, currentWeight, greatestCommonDiv,
  picks,      \* the last selections, as many as a round has (history)
  settling    \* selections left of the two rounds after a change (history)

vars == <<backends, currentIndex, currentWeight, greatestCommonDiv, picks, settling>>

\* A hub creates a pool for the first backend that claims its key.
Init ==
  /\ backends = <<>> /\ currentIndex = -1 /\ currentWeight = 0 /\ greatestCommonDiv = 1
  /\ picks = <<>> /\ settling = 0

Weights(s) == {Weight[b] : b \in ToSet(s)}

\* Euclid's gcd, folded over the weights; a pool of one has its own weight.
recalculateGCD(s) ==
  IF s = <<>> THEN 1
  ELSE Max({d \in 1 .. Min(Weights(s)) : \A w \in Weights(s) : w % d = 0})

maxWeight == Max(Weights(backends))

\* The selections of a full round, weight by weight.
Round(s) == FoldSeq(LAMBDA b, n : n + Weight[b] \div recalculateGCD(s), 0, s)

Changed(s) ==
  /\ backends' = s
  /\ picks' = <<>> /\ settling' = 2 * Round(s)
  /\ UNCHANGED <<currentIndex, currentWeight>>

AddBackend(b) ==
  /\ b \notin ToSet(backends)
  /\ Changed(Append(backends, b)) /\ greatestCommonDiv' = recalculateGCD(backends')

\* The last backend takes the place of the one that leaves.
WithoutSwapped(i) ==
  Front([backends EXCEPT ![i] = backends[Len(backends)]])

\* Mutant: the divisor of the old membership is kept.
RemoveBackendKeepsGCD(b) ==
  \E i \in 1 .. Len(backends) :
    /\ backends[i] = b
    /\ Changed(WithoutSwapped(i)) /\ UNCHANGED greatestCommonDiv

RemoveBackend(b) ==
  \E i \in 1 .. Len(backends) :
    /\ backends[i] = b
    /\ Changed(WithoutSwapped(i)) /\ greatestCommonDiv' = recalculateGCD(backends')

\* One turn of Select's loop from position i and weight w; a new round starts
\* at the largest weight once the weight is used up.
NextIndex(i) == (i + 1) % Len(backends)
NextWeight(i, w) ==
  IF NextIndex(i) # 0 THEN w
  ELSE IF w - greatestCommonDiv <= 0 THEN maxWeight ELSE w - greatestCommonDiv

RECURSIVE Turn(_, _)
Turn(i, w) ==
  LET j == NextIndex(i)  v == NextWeight(i, w)
  IN  IF Weight[backends[j + 1]] >= v THEN <<j, v>> ELSE Turn(j, v)

Picked(b) ==
  LET s == Append(picks, b)
  IN  /\ picks' = IF Len(s) > Round(backends) THEN Tail(s) ELSE s
      /\ settling' = IF settling = 0 THEN 0 ELSE settling - 1

Select ==
  /\ backends # <<>>
  /\ IF Len(backends) = 1
     THEN Picked(backends[1]) /\ UNCHANGED <<currentIndex, currentWeight>>
     ELSE LET t == Turn(currentIndex, currentWeight)
          IN  /\ currentIndex' = t[1] /\ currentWeight' = t[2]
              /\ Picked(backends[t[1] + 1])
  /\ UNCHANGED <<backends, greatestCommonDiv>>

Next == Select \/ \E b \in Backends : AddBackend(b) \/ RemoveBackend(b)

Spec == Init /\ [][Next]_vars

-----------------------------------------------------------------------------

Share(b) == Len(SelectSeq(picks, LAMBDA p : p = b))

(***************************************************************************)
(* "Weighted Round Robin": whatever state the pool was in when a backend   *)
(* joined or left, two rounds later every round's worth of consecutive     *)
(* selections gives each backend exactly the share of its weight, so that  *)
(* no backend is starved by a position or a weight left over.              *)
(***************************************************************************)
FairShare ==
  settling = 0 =>
    \A b \in ToSet(backends) : Share(b) * recalculateGCD(backends) = Weight[b]

=============================================================================
