---------------------------- MODULE SlidingWindow ----------------------------
(***************************************************************************)
(* What a rate limiter promises: a caller is admitted exactly when it was  *)
(* admitted fewer than `limit` times during the last Window, and what is   *)
(* known of a caller is forgotten only when so many others have called     *)
(* since that Capacity of them crowd it out.                               *)
(***************************************************************************)
EXTENDS Integers, FiniteSets, FiniteSetsExt

CONSTANTS Keys, Window, Capacity, MaxTime

VARIABLES
  now,       \* the time
  limit,     \* admissions per window
  log,       \* admissions of each caller at each time of the window
  others,    \* callers that have called since each caller's last call
  verdict    \* the last answer

vars == <<now, limit, log, others, verdict>>

Times == 0..MaxTime
NoHits == [t \in Times |-> 0]
InWindow(h, at) == [t \in Times |-> IF at - t < Window THEN h[t] ELSE 0]
Total(h) == MapThenSumSet(LAMBDA t : h[t], Times)

Init ==
  /\ now = 0 /\ limit \in Nat /\ verdict = <<>>
  /\ log = [k \in Keys |-> NoHits] /\ others = [k \in Keys |-> {}]

Allowed(k) == Total(log[k]) < limit

CrowdedOutBy(k) ==
  {x \in Keys \ {k} : Cardinality(others[x] \cup {k}) >= Capacity}

(* A call of k, which may make the log forget callers that it crowds out.  *)
Call(k) == \E lost \in SUBSET CrowdedOutBy(k) :
  /\ verdict' = <<k, Allowed(k)>>
  /\ log' = [x \in Keys |->
       IF x \in lost THEN NoHits
       ELSE IF x = k /\ Allowed(k) THEN [log[x] EXCEPT ![now] = @ + 1]
       ELSE log[x]]
  /\ others' = [x \in Keys |-> IF x = k THEN {} ELSE others[x] \cup {k}]
  /\ UNCHANGED <<now, limit>>

(* A caller without an address gets no service and leaves no trace.        *)
Anonymous == verdict' = <<>> /\ UNCHANGED <<now, limit, log, others>>

Reconfigure == limit' \in Nat /\ UNCHANGED <<now, log, others, verdict>>

Elapse ==
  /\ now' \in Times /\ now' > now
  /\ log' = [k \in Keys |-> InWindow(log[k], now')]
  /\ UNCHANGED <<limit, others, verdict>>

Next == (\E k \in Keys : Call(k)) \/ Anonymous \/ Reconfigure \/ Elapse

Spec == Init /\ [][Next]_vars
=============================================================================
