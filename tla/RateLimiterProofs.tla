-------------------------- MODULE RateLimiterProofs --------------------------
(***************************************************************************)
(* Proofs about RateLimiter for any set of callers and keys, any window,   *)
(* capacity and clock: the limiter implements the sliding window.          *)
(***************************************************************************)
EXTENDS RateLimiter, TLAPS, FiniteSetTheorems, WellFoundedInduction

-----------------------------------------------------------------------------
(* The order of insertion is a strict order of all tracked keys, and a key *)
(* that was inserted after another was checked since that one was. The     *)
(* last is what makes the eviction of the oldest key one that Capacity     *)
(* other keys account for.                                                 *)
InOrder ==
  /\ \A x \in Tracked : x \notin older[x]
  /\ \A x, y \in Tracked : x \in older[y] => older[x] \subseteq older[y]
  /\ \A x, y \in Tracked : x = y \/ x \in older[y] \/ y \in older[x]

LaterSeen == \A x, y \in Tracked : x \in older[y] => y \in others[x]

LimiterIInv == LimiterTypeOK /\ InOrder /\ LaterSeen

USE DEF Times, NoHits, Tracked, limiter

LEMMA NowInWindow == \A n \in Times : n - n < Window
  BY LimiterAssumption

-----------------------------------------------------------------------------
(* Sets of keys.                                                           *)

LEMMA TrackedFinite ==
  ASSUME LimiterIInv
  PROVE  IsFiniteSet(Tracked) /\ Cardinality(Tracked) \in Nat
  <1>1. IsFiniteSet(Tracked)
    BY LimiterAssumption, FS_Subset DEF LimiterIInv, LimiterTypeOK
  <1> QED
    BY <1>1, FS_CardinalityType

(* There is an oldest key as long as there is a key.                       *)
LEMMA OldestExists == ASSUME LimiterIInv, Tracked # {} PROVE Oldest # {}
  <1> DEFINE T == {older[x] : x \in Tracked}
             R == StrictSubsetOrdering(Tracked)
  <1>1. T \subseteq FiniteSubsetsOf(Tracked)
    <2>1. \A x \in Tracked : older[x] \in SUBSET Tracked
      BY DEF LimiterIInv, LimiterTypeOK
    <2>2. \A S \in SUBSET Tracked : IsFiniteSet(S)
      BY TrackedFinite, FS_Subset
    <2> QED
      BY <2>1, <2>2 DEF FiniteSubsetsOf
  <1>2. PICK m \in T : \A s \in T : <<s, m>> \notin R
    <2>1. IsWellFoundedOn(R, FiniteSubsetsOf(Tracked)) /\ T # {}
      BY FS_StrictSubsetOrderingWellFounded
    <2> HIDE DEF R, T
    <2> QED
      BY <1>1, <2>1, WFMin
  <1>3. PICK x \in Tracked : m = older[x]
    BY <1>2
  <1>4. ASSUME NEW y \in older[x] PROVE FALSE
    <2>1. y \in Tracked /\ older[y] \in SUBSET Tracked /\ older[x] \in SUBSET Tracked
      BY <1>3, <1>4 DEF LimiterIInv, LimiterTypeOK
    <2>2. older[y] \subseteq older[x] /\ older[y] # older[x]
      BY <1>3, <1>4, <2>1 DEF LimiterIInv, InOrder
    <2>3. <<older[y], older[x]>> \in R
      BY <2>1, <2>2 DEF StrictSubsetOrdering
    <2> QED
      BY <1>2, <1>3, <2>1, <2>3
  <1> QED
    BY <1>3, <1>4 DEF Oldest

(* What is evicted: nothing, or the one oldest key of a full Map.          *)
LEMMA EvictedCases ==
  ASSUME LimiterIInv, NEW k \in Keys
  PROVE  \/ Evicted(k) = {} /\ (k \in Tracked \/ Cardinality(Tracked) < Capacity)
         \/ /\ k \notin Tracked /\ Cardinality(Tracked) >= Capacity
            /\ \E x \in Tracked : Evicted(k) = {x} /\ older[x] = {}
  <1>1. CASE k \notin Tracked /\ Cardinality(Tracked) >= Capacity
    <2>1. Tracked # {}
      BY <1>1, LimiterAssumption, FS_EmptySet
    <2>2. PICK x \in Oldest : TRUE
      BY <2>1, OldestExists
    <2>3. \A y \in Oldest : y = x
      BY <2>2 DEF Oldest, LimiterIInv, InOrder
    <2>4. Oldest = {x} /\ x \in Tracked /\ older[x] = {}
      BY <2>2, <2>3 DEF Oldest
    <2> QED
      BY <1>1, <2>4 DEF Evicted
  <1>2. CASE ~(k \notin Tracked /\ Cardinality(Tracked) >= Capacity)
    BY <1>2, TrackedFinite, LimiterAssumption DEF Evicted
  <1> QED
    BY <1>1, <1>2

(* The Map never has more than Capacity keys.                              *)
LEMMA RoomMade ==
  ASSUME LimiterIInv, NEW k \in Keys
  PROVE  Cardinality((Tracked \ (Evicted(k) \cup {k})) \cup {k}) <= Capacity
  <1> DEFINE T == (Tracked \ (Evicted(k) \cup {k})) \cup {k}
  <1>1. Cardinality(Tracked) <= Capacity /\ Capacity \in Nat
    BY LimiterAssumption DEF LimiterIInv, LimiterTypeOK
  <1>2. CASE k \in Tracked /\ Evicted(k) = {}
    <2>1. T = Tracked
      BY <1>2
    <2> QED
      BY <1>1, <2>1
  <1>3. CASE k \notin Tracked /\ Evicted(k) = {} /\ Cardinality(Tracked) < Capacity
    <2>1. T = Tracked \cup {k}
      BY <1>3
    <2>2. Cardinality(Tracked \cup {k}) = Cardinality(Tracked) + 1
      BY <1>3, TrackedFinite, FS_AddElement
    <2> QED
      BY <1>1, <1>3, <2>1, <2>2, TrackedFinite
  <1>4. ASSUME k \notin Tracked, NEW x \in Tracked, Evicted(k) = {x}
        PROVE  Cardinality(T) <= Capacity
    <2>1. T = (Tracked \ {x}) \cup {k}
      BY <1>4
    <2>2. IsFiniteSet(Tracked \ {x}) /\ Cardinality(Tracked \ {x}) = Cardinality(Tracked) - 1
      BY <1>4, TrackedFinite, FS_RemoveElement
    <2>3. Cardinality((Tracked \ {x}) \cup {k}) = Cardinality(Tracked \ {x}) + 1
      BY <1>4, <2>2, FS_AddElement
    <2>4. Cardinality((Tracked \ {x}) \cup {k}) = Cardinality(Tracked)
      <3>1. Cardinality(Tracked) \in Int
        BY TrackedFinite
      <3> HIDE DEF T
      <3> QED
        BY <2>2, <2>3, <3>1
    <2> QED
      BY <1>1, <2>1, <2>4
  <1> QED
    BY <1>2, <1>3, <1>4, EvictedCases

(* An evicted key is crowded out: since its last check all the other keys  *)
(* of the full Map, and the one that arrives, were checked.                *)
LEMMA EvictedCrowdedOut ==
  ASSUME LimiterIInv, NEW k \in Keys, NEW x \in Evicted(k)
  PROVE  x \in Keys \ {k} /\ Cardinality(others[x] \cup {k}) >= Capacity
  <1>1. /\ k \notin Tracked /\ Cardinality(Tracked) >= Capacity
        /\ x \in Tracked /\ older[x] = {}
    BY EvictedCases
  <1>2. x \in Keys \ {k}
    BY <1>1 DEF LimiterIInv, LimiterTypeOK
  <1>3. Tracked \ {x} \subseteq others[x]
    BY <1>1 DEF LimiterIInv, InOrder, LaterSeen
  <1>4. (Tracked \ {x}) \cup {k} \subseteq others[x] \cup {k}
    BY <1>3
  <1>5. IsFiniteSet(others[x] \cup {k})
    <2>1. others[x] \cup {k} \in SUBSET Keys
      BY <1>2 DEF LimiterIInv, LimiterTypeOK
    <2> QED
      BY <2>1, LimiterAssumption, FS_Subset
  <1>6. IsFiniteSet(Tracked \ {x}) /\ Cardinality(Tracked \ {x}) = Cardinality(Tracked) - 1
    BY <1>1, TrackedFinite, FS_RemoveElement
  <1>7. Cardinality((Tracked \ {x}) \cup {k}) = Cardinality(Tracked)
    <2>1. Cardinality((Tracked \ {x}) \cup {k}) = Cardinality(Tracked \ {x}) + 1
      BY <1>1, <1>6, FS_AddElement
    <2> QED
      BY <1>6, <2>1, TrackedFinite
  <1>8. Cardinality((Tracked \ {x}) \cup {k}) <= Cardinality(others[x] \cup {k})
    BY <1>4, <1>5, FS_Subset
  <1>9. Cardinality(others[x] \cup {k}) \in Nat
    BY <1>5, FS_CardinalityType
  <1> QED
    BY <1>1, <1>2, <1>7, <1>8, <1>9, TrackedFinite, LimiterAssumption

-----------------------------------------------------------------------------
LEMMA LimiterInitIInv == LimiterInit => LimiterIInv
  <1> SUFFICES ASSUME LimiterInit PROVE LimiterIInv
    OBVIOUS
  <1>1. Tracked = {} /\ Cardinality(Tracked) = 0
    BY FS_EmptySet DEF LimiterInit
  <1> QED
    BY <1>1, LimiterAssumption DEF LimiterInit, LimiterIInv, LimiterTypeOK, InOrder, LaterSeen

LEMMA CheckIInv == ASSUME LimiterIInv, NEW k \in Keys, Check(k) PROVE LimiterIInv'
  <1> DEFINE kept == Tracked \ (Evicted(k) \cup {k})
             allowed == Total(Recent(hits[k])) < limit
  <1>1. older' = [x \in kept \cup {k} |-> IF x = k THEN kept ELSE older[x] \cap kept]
    BY DEF Check, Reinserted, Kept
  <1>2. others' = [x \in Keys |-> IF x = k THEN {} ELSE others[x] \cup {k}]
    BY DEF Check
  <1>3. hits' = [x \in Keys |->
          IF x \in Evicted(k) THEN NoHits
          ELSE IF x # k THEN hits[x]
          ELSE IF allowed THEN [Recent(hits[k]) EXCEPT ![now] = @ + 1]
          ELSE Recent(hits[k])]
    BY DEF Check
  <1>4. LimiterTypeOK'
    <2>1. Recent(hits[k]) \in [Times -> Nat]
      BY LimiterAssumption DEF Recent, LimiterIInv, LimiterTypeOK
    <2>2. [Recent(hits[k]) EXCEPT ![now] = @ + 1] \in [Times -> Nat]
      BY <2>1, LimiterAssumption DEF LimiterIInv, LimiterTypeOK
    <2>3. hits' \in [Keys -> [Times -> Nat]]
      <3> HIDE DEF allowed
      <3> QED
        BY <1>3, <2>1, <2>2, LimiterAssumption DEF LimiterIInv, LimiterTypeOK
    <2>4. Tracked' = kept \cup {k}
      BY <1>1
    <2>5. Cardinality(Tracked') <= Capacity
      BY <2>4, RoomMade
    <2>6. Tracked' \subseteq Keys /\ older' \in [Tracked' -> SUBSET Tracked']
      BY <1>1, <2>4 DEF LimiterIInv, LimiterTypeOK
    <2>7. others' \in [Keys -> SUBSET Keys]
      BY <1>2 DEF LimiterIInv, LimiterTypeOK
    <2>8. ASSUME NEW x \in Keys \ Tracked' PROVE hits'[x] = NoHits
      BY <1>3, <2>4, <2>8 DEF LimiterIInv, LimiterTypeOK
    <2>9. UNCHANGED <<now, kind, limit>>
      BY DEF Check
    <2> QED
      BY <2>3, <2>5, <2>6, <2>7, <2>8, <2>9 DEF LimiterIInv, LimiterTypeOK
  <1>5. InOrder'
    BY <1>1 DEF LimiterIInv, InOrder
  <1>6. LaterSeen'
    BY <1>1, <1>2 DEF LimiterIInv, LimiterTypeOK, LaterSeen
  <1> QED
    BY <1>4, <1>5, <1>6 DEF LimiterIInv

LEMMA PruneIInv == LimiterIInv /\ Prune => LimiterIInv'
  <1> SUFFICES ASSUME LimiterIInv, Prune PROVE LimiterIInv'
    OBVIOUS
  <1> DEFINE kept == {k \in Tracked : Fresh(hits[k]) # NoHits}
  <1>1. /\ older' = [x \in kept |-> older[x] \cap kept]
        /\ hits' = [k \in Keys |-> Fresh(hits[k])]
        /\ UNCHANGED <<now, kind, limit, verdict, others>>
    BY DEF Prune, Kept
  <1>2. Tracked' = kept
    BY <1>1
  <1>3. Cardinality(kept) <= Capacity
    <2>1. Cardinality(kept) <= Cardinality(Tracked) /\ Cardinality(kept) \in Nat
      BY TrackedFinite, FS_Subset, FS_CardinalityType
    <2> QED
      BY <2>1, TrackedFinite, LimiterAssumption DEF LimiterIInv, LimiterTypeOK
  <1>4. hits' \in [Keys -> [Times -> Nat]]
    BY <1>1, LimiterAssumption DEF Fresh, LimiterIInv, LimiterTypeOK
  <1>5. ASSUME NEW k \in Keys \ kept PROVE hits'[k] = NoHits
    <2>1. CASE k \in Tracked
      BY <1>1, <1>5, <2>1
    <2>2. CASE k \notin Tracked
      BY <1>1, <1>5, <2>2, LimiterAssumption DEF Fresh, LimiterIInv, LimiterTypeOK
    <2> QED
      BY <2>1, <2>2
  <1>6. kept \subseteq Tracked
    OBVIOUS
  <1> HIDE DEF kept
  <1>7. LimiterTypeOK'
    BY <1>1, <1>2, <1>3, <1>4, <1>5, <1>6 DEF LimiterIInv, LimiterTypeOK
  <1>8. InOrder' /\ LaterSeen'
    BY <1>1, <1>2, <1>6 DEF LimiterIInv, InOrder, LaterSeen
  <1> QED
    BY <1>7, <1>8 DEF LimiterIInv

LEMMA LimiterNextIInv == LimiterIInv /\ [LimiterNext]_limiter => LimiterIInv'
  <1> SUFFICES ASSUME LimiterIInv, [LimiterNext]_limiter PROVE LimiterIInv'
    OBVIOUS
  <1>1. CASE UNCHANGED limiter
    BY <1>1 DEF LimiterIInv, LimiterTypeOK, InOrder, LaterSeen
  <1>2. ASSUME NEW c \in Callers, Call(c) PROVE LimiterIInv'
    BY <1>2, CheckIInv DEF Call
  <1>3. ASSUME NEW c \in Callers, NoAddress(c) PROVE LimiterIInv'
    BY <1>3 DEF NoAddress, LimiterIInv, LimiterTypeOK, InOrder, LaterSeen
  <1>4. ASSUME NEW n \in Limits, SetLimit(n) PROVE LimiterIInv'
    BY <1>4, LimiterAssumption DEF SetLimit, LimiterIInv, LimiterTypeOK, InOrder, LaterSeen
  <1>5. CASE Tick
    BY <1>5, LimiterAssumption DEF Tick, LimiterIInv, LimiterTypeOK, InOrder, LaterSeen
  <1> QED
    BY <1>1, <1>2, <1>3, <1>4, <1>5, PruneIInv DEF LimiterNext

LEMMA LimiterInvariant == LimiterSpec => []LimiterIInv
  BY LimiterInitIInv, LimiterNextIInv, PTL DEF LimiterSpec

(* However callers, pruning and reloads of the limit fall together, the    *)
(* Map has at most maxEntries keys, and no times are kept for others.      *)
(* (WebhookRateLimiter.check, RateLimiter.middleware.)                     *)
THEOREM LimiterTypeCorrect == LimiterSpec => []LimiterTypeOK
  <1>1. LimiterIInv => LimiterTypeOK
    BY DEF LimiterIInv
  <1> QED
    BY <1>1, LimiterInvariant, PTL

-----------------------------------------------------------------------------
(* The refinement.                                                         *)
Log == [k \in Keys |-> [t \in 0..MaxTime |-> IF now - t < Window THEN hits[k][t] ELSE 0]]

LEMMA CheckImplements ==
  ASSUME LimiterIInv, NEW k \in Keys, Check(k)
  PROVE  Promise!Call(k)
  <1> DEFINE recent == Recent(hits[k])
             allowed == Total(recent) < limit
             lost == Evicted(k)
  <1>1. Log[k] = recent
    BY DEF Log, Recent
  <1>2. Promise!Allowed(k) = allowed
    BY <1>1 DEF Promise!Allowed, Total, Log
  <1>3. lost \in SUBSET Promise!CrowdedOutBy(k)
    <2>1. \A x \in lost : x \in Keys \ {k} /\ Cardinality(others[x] \cup {k}) >= Capacity
      BY EvictedCrowdedOut
    <2>2. \A S : Promise!Cardinality(S) = Cardinality(S)
      BY DEF Promise!Cardinality, Cardinality
    <2> HIDE DEF lost
    <2>3. \A x \in lost : x \in Promise!CrowdedOutBy(k)
      BY <2>1, <2>2 DEF Promise!CrowdedOutBy
    <2> QED
      BY <2>3
  <1>4. /\ hits' = [x \in Keys |->
             IF x \in lost THEN NoHits
             ELSE IF x # k THEN hits[x]
             ELSE IF allowed THEN [recent EXCEPT ![now] = @ + 1]
             ELSE recent]
        /\ verdict' = <<k, allowed>>
        /\ others' = [x \in Keys |-> IF x = k THEN {} ELSE others[x] \cup {k}]
        /\ UNCHANGED <<now, kind, limit>>
    BY DEF Check
  <1>5. now \in Times /\ hits \in [Keys -> [Times -> Nat]]
    BY DEF LimiterIInv, LimiterTypeOK
  <1>6. recent \in [Times -> Nat]
    BY <1>5, LimiterAssumption DEF Recent
  <1> HIDE DEF recent, allowed, lost
  <1>7. ASSUME NEW x \in Keys
        PROVE  Log'[x] = IF x \in lost THEN Promise!NoHits
                         ELSE IF x = k /\ allowed THEN [Log[x] EXCEPT ![now] = @ + 1]
                         ELSE Log[x]
    <2>1. Log'[x] = [t \in 0..MaxTime |-> IF now - t < Window THEN hits'[x][t] ELSE 0]
      BY <1>4 DEF Log
    <2>2. CASE x \in lost
      BY <1>4, <2>1, <2>2 DEF Promise!NoHits, Promise!Times
    <2>3. CASE x \notin lost /\ x # k
      BY <1>4, <2>1, <2>3 DEF Log
    <2>4. CASE x \notin lost /\ x = k
      <3>1. recent = [t \in Times |-> IF now - t < Window THEN recent[t] ELSE 0]
        BY <1>6 DEF recent, Recent
      <3>2. CASE ~allowed
        BY <1>1, <1>4, <2>1, <2>4, <3>1, <3>2
      <3>3. CASE allowed
        <4>1. hits'[x] = [recent EXCEPT ![now] = @ + 1]
          BY <1>4, <2>4, <3>3
        <4>2. \A t \in Times :
                (IF now - t < Window THEN hits'[x][t] ELSE 0) = hits'[x][t]
          BY <1>5, <1>6, <3>1, <4>1, NowInWindow
        <4>3. Log'[x] = [t \in Times |-> hits'[x][t]]
          BY <2>1, <4>2
        <4> QED
          BY <1>1, <1>6, <2>4, <3>3, <4>1, <4>3
      <3> QED
        BY <3>2, <3>3
    <2> QED
      BY <2>2, <2>3, <2>4
  <1>8. Log' = [x \in Keys |->
          IF x \in lost THEN Promise!NoHits
          ELSE IF x = k /\ allowed THEN [Log[x] EXCEPT ![now] = @ + 1]
          ELSE Log[x]]
    BY <1>7 DEF Log
  <1> QED
    BY <1>2, <1>3, <1>4, <1>8 DEF Promise!Call, Log

LEMMA InitImplements == LimiterInit => Promise!Init
  <1> SUFFICES ASSUME LimiterInit PROVE Promise!Init
    OBVIOUS
  <1>1. Log = [k \in Keys |-> Promise!NoHits]
    BY DEF LimiterInit, Log, Promise!NoHits, Promise!Times
  <1> QED
    BY <1>1, LimiterAssumption DEF LimiterInit, Promise!Init, Log

LEMMA StepImplements == LimiterIInv /\ [LimiterNext]_limiter => [Promise!Next]_Promise!vars
  <1> SUFFICES ASSUME LimiterIInv, [LimiterNext]_limiter PROVE [Promise!Next]_Promise!vars
    OBVIOUS
  <1>1. CASE UNCHANGED limiter
    BY <1>1 DEF Promise!vars
  <1>2. ASSUME NEW c \in Callers, Call(c) PROVE Promise!Next
    BY <1>2, CheckImplements DEF Call, Promise!Next
  <1>3. ASSUME NEW c \in Callers, NoAddress(c) PROVE Promise!Next
    BY <1>3 DEF NoAddress, Promise!Next, Promise!Anonymous
  <1>4. CASE Prune
    <2>1. UNCHANGED <<now, limit, verdict, others>> /\ hits' = [k \in Keys |-> Fresh(hits[k])]
      BY <1>4 DEF Prune
    <2>2. now \in Times
      BY DEF LimiterIInv, LimiterTypeOK
    <2>3. ASSUME NEW k \in Keys, NEW t \in 0..MaxTime
          PROVE  (IF now' - t < Window THEN hits'[k][t] ELSE 0)
                   = (IF now - t < Window THEN hits[k][t] ELSE 0)
      BY <2>1, <2>2, LimiterAssumption DEF Fresh
    <2>4. Log' = Log
      BY <2>3 DEF Log
    <2> QED
      BY <2>1, <2>4 DEF Promise!vars, Log
  <1>5. ASSUME NEW n \in Limits, SetLimit(n) PROVE Promise!Next
    <2>1. limit' \in Nat
      BY <1>5, LimiterAssumption DEF SetLimit
    <2> QED
      BY <1>5, <2>1 DEF SetLimit, Promise!Next, Promise!Reconfigure
  <1>6. CASE Tick
    <2>1. now \in Times /\ now' = now + 1 /\ now' \in Times /\ now' > now
      BY <1>6, LimiterAssumption DEF LimiterIInv, LimiterTypeOK, Tick
    <2>2. UNCHANGED <<limit, hits, verdict, others>>
      BY <1>6 DEF Tick
    <2>3. ASSUME NEW k \in Keys
          PROVE  Log'[k] = Promise!InWindow(Log[k], now')
      <3>1. ASSUME NEW t \in 0..MaxTime
            PROVE  (IF now' - t < Window THEN hits'[k][t] ELSE 0)
                     = (IF now' - t < Window THEN Log[k][t] ELSE 0)
        BY <2>1, <2>2, LimiterAssumption DEF Log
      <3> QED
        BY <3>1 DEF Promise!InWindow, Promise!Times, Log
    <2>4. Log' = [k \in Keys |-> Promise!InWindow(Log[k], now')]
      BY <2>3 DEF Log
    <2> QED
      BY <2>1, <2>2, <2>4 DEF Promise!Next, Promise!Elapse, Promise!Times, Log
  <1> QED
    BY <1>1, <1>2, <1>3, <1>4, <1>5, <1>6 DEF LimiterNext

(* The limiters implement the sliding window: pruning, the rewriting of    *)
(* arrays, a reload of the limit and the order of the Map cost no caller a *)
(* request and give none, and a window is forgotten only for Capacity      *)
(* other callers. (WebhookRateLimiter.check, RateLimiter.middleware.)      *)
THEOREM Refinement == LimiterSpec => WindowKept
  BY InitImplements, StepImplements, LimiterInvariant, PTL
     DEF LimiterSpec, WindowKept, Promise!Spec
=============================================================================
