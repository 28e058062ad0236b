----------------------------- MODULE RateLimiter -----------------------------
(***************************************************************************)
(* The two rate limiters: WebhookRateLimiter in front of the ingestion of  *)
(* webhooks, and RateLimiter, the Express middleware in front of the       *)
(* management routes. They keep a Map from caller to times of admissions,  *)
(* whose insertion order serves as recency. Both are synchronous; their    *)
(* timer prunes the Map in between, and the hot reload sets their limit.   *)
(*                                                                         *)
(* Here the Map is, for each of its keys, the set of keys that were        *)
(* inserted before it (`older`), and how many times of each value its      *)
(* array holds.                                                            *)
(***************************************************************************)
EXTENDS Integers, FiniteSets

CONSTANTS
  Callers,      \* requests: their webhook, address and proxy headers
  Keys,         \* keys of the Map
  TrustProxy,   \* #trustProxy
  Window,       \* #windowMs
  Capacity,     \* #maxEntries
  Limits,       \* values that #limit is set to
  None,         \* an address that is missing
  MaxTime       \* bound: the clock

VARIABLES
  now,       \* Date.now()
  kind,      \* which of the two limiters this one is
  limit,     \* #limit
  older,     \* for each key of #hits, the keys inserted before it
  hits,      \* values of #hits
  verdict,   \* the last answer
  others     \* history: keys checked since each key's last check

limiter == <<now, kind, limit, older, hits, verdict, others>>

Promise == INSTANCE SlidingWindow WITH
  log <- [k \in Keys |-> [t \in 0..MaxTime |->
            IF now - t < Window THEN hits[k][t] ELSE 0]]

Times == 0..MaxTime
NoHits == [t \in Times |-> 0]
Total(h) == Promise!Total(h)

ASSUME LimiterAssumption ==
  /\ MaxTime \in Nat /\ Window \in Nat \ {0} /\ Capacity \in Nat \ {0}
  /\ Limits \subseteq Nat /\ Limits # {} /\ IsFiniteSet(Keys)

Admissible(n) == kind = "webhook" => n > 0

(* Headers that hold no valid address are None here.                       *)
Address(c) ==
  IF kind = "management" /\ TrustProxy /\ c.forwarded # None THEN c.forwarded
  ELSE IF kind = "management" /\ TrustProxy /\ c.real # None THEN c.real
  ELSE c.socket

(* The webhook limiter counts per webhook and address, or per webhook.     *)
Key(c) == IF kind = "management" THEN <<Address(c)>>
          ELSE IF Address(c) = None THEN <<c.webhook>>
          ELSE <<c.webhook, Address(c)>>

Refused(c) == kind = "management" /\ Address(c) = None

LimiterInit ==
  /\ now = 0 /\ kind \in {"webhook", "management"}
  /\ limit \in {n \in Limits : Admissible(n)}
  /\ older = [k \in {} |-> {}] /\ hits = [k \in Keys |-> NoHits]
  /\ verdict = <<>> /\ others = [k \in Keys |-> {}]

Tracked == DOMAIN older

Recent(h) == [t \in Times |-> IF now - t < Window THEN h[t] ELSE 0]

Oldest == {x \in Tracked : older[x] = {}}

\* Seeded fault: the Map is one key larger before it makes room.
Evicted_Late(k) ==
  IF k \notin Tracked /\ Cardinality(Tracked) > Capacity THEN Oldest ELSE {}

(* The oldest key makes room for a new one when the Map is full.           *)
Evicted(k) ==
  IF k \notin Tracked /\ Cardinality(Tracked) >= Capacity THEN Oldest ELSE {}

(* What of the Map stays, in the order it had.                             *)
Kept(keys) == [x \in keys |-> older[x] \cap keys]

\* Seeded fault: a key that is checked keeps its place in the Map.
Reinserted_InPlace(k) ==
  LET kept == Tracked \ Evicted(k)
  IN IF k \in kept THEN older ELSE [x \in kept \cup {k} |-> IF x = k THEN kept ELSE Kept(kept)[x]]

(* A checked key moves to the end of the Map.                              *)
Reinserted(k) ==
  LET kept == Tracked \ (Evicted(k) \cup {k})
  IN [x \in kept \cup {k} |-> IF x = k THEN kept ELSE Kept(kept)[x]]

(* What check and the middleware do once the key is known: hits outside    *)
(* the window are dropped, and a hit is added unless the limit is reached. *)
Check(k) ==
  LET recent == Recent(hits[k])
      allowed == Total(recent) < limit
  IN /\ older' = Reinserted(k)
     /\ hits' = [x \in Keys |->
          IF x \in Evicted(k) THEN NoHits
          ELSE IF x # k THEN hits[x]
          ELSE IF allowed THEN [recent EXCEPT ![now] = @ + 1]
          ELSE recent]
     /\ verdict' = <<k, allowed>>
     /\ others' = [x \in Keys |-> IF x = k THEN {} ELSE others[x] \cup {k}]
     /\ UNCHANGED <<now, kind, limit>>

Call(c) == ~Refused(c) /\ Key(c) \in Keys /\ Check(Key(c))

(* 400: the middleware cannot tell who calls.                              *)
NoAddress(c) ==
  /\ Refused(c)
  /\ verdict' = <<>>
  /\ UNCHANGED <<now, kind, limit, older, hits, others>>

Fresh(h) == [t \in Times |-> IF t > now - Window THEN h[t] ELSE 0]

(* The timer of the limiter. An entry that stays keeps its place.          *)
Prune ==
  /\ hits' = [k \in Keys |-> Fresh(hits[k])]
  /\ older' = Kept({k \in Tracked : Fresh(hits[k]) # NoHits})
  /\ UNCHANGED <<now, kind, limit, verdict, others>>

SetLimit(n) ==
  /\ Admissible(n)
  /\ limit' = n
  /\ UNCHANGED <<now, kind, older, hits, verdict, others>>

Tick ==
  /\ now < MaxTime
  /\ now' = now + 1
  /\ UNCHANGED <<kind, limit, older, hits, verdict, others>>

LimiterNext ==
  \/ \E c \in Callers : Call(c) \/ NoAddress(c)
  \/ Prune
  \/ \E n \in Limits : SetLimit(n)
  \/ Tick

LimiterSpec == LimiterInit /\ [][LimiterNext]_limiter

-----------------------------------------------------------------------------
(* The Map has at most Capacity keys, and an array for each.               *)
LimiterTypeOK ==
  /\ now \in Times /\ kind \in {"webhook", "management"} /\ limit \in Nat
  /\ Tracked \subseteq Keys /\ Cardinality(Tracked) <= Capacity
  /\ older \in [Tracked -> SUBSET Tracked]
  /\ hits \in [Keys -> [Times -> Nat]]
  /\ \A k \in Keys \ Tracked : hits[k] = NoHits
  /\ others \in [Keys -> SUBSET Keys]

(* Neither the pruning, the rewriting of the arrays, a reload of the limit *)
(* nor the order of the Map costs a caller a request or gives it one more: *)
(* it is admitted exactly when it had fewer than `limit` admissions in the *)
(* window, unless Capacity other keys were checked since it last was.      *)
(* (WebhookRateLimiter.check, RateLimiter.middleware.)                     *)
WindowKept == Promise!Spec
=============================================================================
