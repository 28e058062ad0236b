----------------------------- MODULE Forwarding -----------------------------
(***************************************************************************)
(* The outbound side: ForwardingService with its CircuitBreaker, used by   *)
(* two callers.  The background tasks of the ingest middleware forward an  *)
(* event after pushing it to the dataset, under a timer that aborts them;  *)
(* the replay route calls sendSafeRequest directly, under a timer of its   *)
(* own.  Requests to one host share its breaker state, and each request is *)
(* somewhere between two awaits while the others go on.                    *)
(*                                                                         *)
(* Back-off delays and deadlines may take any time; what matters is their  *)
(* order.  The breaker's nextAttempt is kept as the time left until it.    *)
(***************************************************************************)
EXTENDS Integers, Sequences, FiniteSets, Functions

CONSTANTS
  Forwards,   \* events that are forwarded
  Replays,    \* calls of the replay route
  Hosts,      \* host names
  HostOf,     \* the host of each request's target
  RetriesOf,  \* maxForwardRetries or replayMaxRetries of each request
  Threshold,  \* failureThreshold
  Cooldown,   \* resetTimeoutMs, in ticks of the clock
  MaxSize     \* maxSize of the breaker's map

Requests == Forwards \cup Replays

ASSUME ConstantsAssumption ==
  /\ HostOf \in [Requests -> Hosts] /\ RetriesOf \in [Requests -> Nat]
  /\ Threshold \in Nat \ {0} /\ Cooldown \in Nat /\ MaxSize \in Nat
  /\ Forwards \cap Replays = {}
  /\ IsFiniteSet(Requests)

VARIABLES
  failures,  \* states: consecutive failures of each host, 0 without an entry
  wait,      \* states: nextAttempt - Date.now(), or -1 when it is past
  order,     \* states: the hosts that have an entry, oldest insertion first
  at,        \* each request: the await that it is suspended at
  attempt,   \* sendSafeRequest: attempt
  aborted,   \* requests whose AbortSignal fired while they awaited
             \* something that does not listen to it
  verdict,   \* history: how each request ended
  noted      \* history: requests whose error item reached the dataset

vars == <<failures, wait, order, at, attempt, aborted, verdict, noted>>

breakerVars == <<failures, wait, order>>
requestVars == <<at, attempt, aborted, verdict, noted>>

-----------------------------------------------------------------------------
Init ==
  /\ failures = [h \in Hosts |-> 0] /\ wait = [h \in Hosts |-> -1] /\ order = <<>>
  /\ at = [t \in Requests |-> "idle"] /\ attempt = [t \in Requests |-> 0]
  /\ aborted = {} /\ verdict = [t \in Requests |-> "none"] /\ noted = {}

-----------------------------------------------------------------------------
(* CircuitBreaker                                                          *)
IsOpen(h) == failures[h] >= Threshold /\ wait[h] > 0

\* Seeded fault: the entry of a host is added anew at every failure.
RecordFailure_AddsAnew(h) ==
  /\ failures' = [failures EXCEPT ![h] = @ + 1]
  /\ wait' = [wait EXCEPT ![h] = Cooldown]
  /\ order' = Append(order, h)

(* A host keeps its place in the map until its entry is deleted.           *)
RecordFailure(h) ==
  /\ failures' = [failures EXCEPT ![h] = @ + 1]
  /\ wait' = [wait EXCEPT ![h] = Cooldown]
  /\ order' = IF h \in Range(order) THEN order ELSE Append(order, h)

PlaceOf(h) == CHOOSE k \in 1..Len(order) : order[k] = h

Forget(S) ==
  /\ failures' = [h \in Hosts |-> IF h \in S THEN 0 ELSE failures[h]]
  /\ wait' = [h \in Hosts |-> IF h \in S THEN -1 ELSE wait[h]]

RecordSuccess(h) ==
  /\ Forget({h})
  /\ order' = IF h \notin Range(order) THEN order
              ELSE SubSeq(order, 1, PlaceOf(h) - 1)
                     \o SubSeq(order, PlaceOf(h) + 1, Len(order))

(* The timer of the breaker.  An entry is only stale without failures, and *)
(* no entry is: what is left to do is to evict the oldest ones, whether    *)
(* open or not.                                                            *)
Prune ==
  LET excess == Len(order) - MaxSize
  IN  /\ excess > 0
      /\ Forget({order[k] : k \in 1..excess})
      /\ order' = SubSeq(order, excess + 1, Len(order))
      /\ UNCHANGED requestVars

Tick ==
  /\ \E h \in Hosts : wait[h] > -1
  /\ wait' = [h \in Hosts |-> IF wait[h] > -1 THEN wait[h] - 1 ELSE -1]
  /\ UNCHANGED <<failures, order, requestVars>>

-----------------------------------------------------------------------------
MoveTo(t, where) == at' = [at EXCEPT ![t] = where]

(* The request is over, an abort that is still to come means nothing.      *)
EndAs(t, v) ==
  /\ MoveTo(t, "done")
  /\ verdict' = [verdict EXCEPT ![t] = v]
  /\ aborted' = aborted \ {t}

(* forwardWebhook catches the error and pushes an item to the dataset; the *)
(* replay route answers its client.                                        *)
FailAs(t) ==
  /\ MoveTo(t, IF t \in Forwards THEN "report" ELSE "done")
  /\ verdict' = [verdict EXCEPT ![t] = "failed"]
  /\ UNCHANGED aborted

\* Seeded fault: one attempt more than maxRetries.
NextAttempt_OneMore(t) ==
  IF t \in aborted THEN EndAs(t, "cancelled") /\ UNCHANGED attempt
  ELSE IF attempt[t] <= RetriesOf[t]
  THEN /\ MoveTo(t, "send")
       /\ attempt' = [attempt EXCEPT ![t] = @ + 1]
       /\ UNCHANGED <<aborted, verdict>>
  ELSE FailAs(t) /\ UNCHANGED attempt

(* The head of the loop of sendSafeRequest.  With no retry allowed not     *)
(* even one attempt is made.                                               *)
NextAttempt(t) ==
  IF t \in aborted THEN EndAs(t, "cancelled") /\ UNCHANGED attempt
  ELSE IF attempt[t] < RetriesOf[t]
  THEN /\ MoveTo(t, "send")
       /\ attempt' = [attempt EXCEPT ![t] = @ + 1]
       /\ UNCHANGED <<aborted, verdict>>
  ELSE FailAs(t) /\ UNCHANGED attempt

-----------------------------------------------------------------------------
(* #executeBackgroundTasks: the event is pushed first.                     *)
StartForward(t) ==
  /\ t \in Forwards /\ at[t] = "idle"
  /\ MoveTo(t, "push")
  /\ UNCHANGED <<breakerVars, attempt, aborted, verdict, noted>>

(* Pushed: unless aborted, forwardWebhook looks at the breaker, and then   *)
(* waits for the target to be resolved.                                    *)
Pushed(t) ==
  /\ at[t] = "push"
  /\ IF t \in aborted THEN EndAs(t, "cancelled")
     ELSE IF IsOpen(HostOf[t]) THEN EndAs(t, "dropped")
     ELSE MoveTo(t, "resolve") /\ UNCHANGED <<aborted, verdict>>
  /\ UNCHANGED <<breakerVars, attempt, noted>>

(* pushData rejects or times out: the event is not forwarded.              *)
PushFails(t) ==
  /\ at[t] = "push"
  /\ EndAs(t, IF t \in aborted THEN "cancelled" ELSE "dropped")
  /\ UNCHANGED <<breakerVars, attempt, noted>>

(* The replay route: the target and the stored event are looked up. The    *)
(* breaker is not asked.                                                   *)
StartReplay(t) ==
  /\ t \in Replays /\ at[t] = "idle"
  /\ MoveTo(t, "resolve")
  /\ UNCHANGED <<breakerVars, attempt, aborted, verdict, noted>>

Resolved(t) ==
  /\ at[t] = "resolve"
  /\ NextAttempt(t)
  /\ UNCHANGED <<breakerVars, noted>>

(* The target is not allowed, the body too large or the event not found.   *)
Refused(t) ==
  /\ at[t] = "resolve"
  /\ EndAs(t, "dropped")
  /\ UNCHANGED <<breakerVars, attempt, noted>>

-----------------------------------------------------------------------------
(* The answer to an attempt: a status 2xx...                               *)
Delivered(t) ==
  /\ at[t] = "send"
  /\ RecordSuccess(HostOf[t])
  /\ EndAs(t, "delivered")
  /\ UNCHANGED <<attempt, noted>>

(* ...another one or an error that is not worth a retry...                 *)
Rejected(t) ==
  /\ at[t] = "send"
  /\ RecordFailure(HostOf[t])
  /\ FailAs(t)
  /\ UNCHANGED <<attempt, noted>>

\* Seeded fault: every failed attempt is recorded.
Unreachable_CountsEach(t) ==
  /\ at[t] = "send"
  /\ RecordFailure(HostOf[t])
  /\ IF attempt[t] >= RetriesOf[t] THEN FailAs(t)
     ELSE MoveTo(t, "backoff") /\ UNCHANGED <<aborted, verdict>>
  /\ UNCHANGED <<attempt, noted>>

(* ...or a transient one, a timeout of the attempt included: the breaker   *)
(* hears of the last attempt only.                                         *)
Unreachable(t) ==
  /\ at[t] = "send"
  /\ IF attempt[t] >= RetriesOf[t]
     THEN RecordFailure(HostOf[t]) /\ FailAs(t)
     ELSE MoveTo(t, "backoff") /\ UNCHANGED <<breakerVars, aborted, verdict>>
  /\ UNCHANGED <<attempt, noted>>

BackoffOver(t) ==
  /\ at[t] = "backoff"
  /\ NextAttempt(t)
  /\ UNCHANGED <<breakerVars, noted>>

(* The error item is pushed, or pushing it fails and is ignored.           *)
Reported(t, pushed) ==
  /\ at[t] = "report"
  /\ MoveTo(t, "done")
  /\ noted' = IF pushed THEN noted \cup {t} ELSE noted
  /\ UNCHANGED <<breakerVars, attempt, aborted, verdict>>

-----------------------------------------------------------------------------
\* Seeded fault: the abort is looked at only at the head of the loop.
Abort_NoSignal(t) ==
  /\ t \notin aborted
  /\ \/ at[t] \in {"send", "backoff"}
     \/ t \in Forwards /\ at[t] \in {"push", "resolve"}
  /\ aborted' = aborted \cup {t}
  /\ UNCHANGED <<at, verdict>>
  /\ UNCHANGED <<breakerVars, attempt, noted>>

(* The timer of the background tasks or of the replay fires.  The attempt  *)
(* in flight and the back-off listen to the signal; the other awaits are   *)
(* left to settle, and the signal is looked at then. The replay's timer    *)
(* starts with the first attempt.                                          *)
Abort(t) ==
  /\ t \notin aborted
  /\ \/ at[t] \in {"send", "backoff"} /\ EndAs(t, "cancelled")
     \/ /\ t \in Forwards /\ at[t] \in {"push", "resolve"}
        /\ aborted' = aborted \cup {t}
        /\ UNCHANGED <<at, verdict>>
  /\ UNCHANGED <<breakerVars, attempt, noted>>

-----------------------------------------------------------------------------
Next ==
  \/ \E t \in Requests :
       \/ StartForward(t) \/ Pushed(t) \/ PushFails(t) \/ StartReplay(t)
       \/ Resolved(t) \/ Refused(t) \/ Delivered(t) \/ Rejected(t)
       \/ Unreachable(t) \/ BackoffOver(t) \/ Abort(t)
       \/ \E pushed \in BOOLEAN : Reported(t, pushed)
  \/ Prune \/ Tick

Spec == Init /\ [][Next]_vars

(* Timers fire; pushing (raced with a timeout) and looking up settle.  A   *)
(* target need never answer.                                               *)
Fairness ==
  \A t \in Requests :
    /\ WF_vars(Pushed(t) \/ PushFails(t))
    /\ WF_vars(Resolved(t) \/ Refused(t))
    /\ WF_vars(Abort(t)) /\ WF_vars(BackoffOver(t))

FairSpec == Spec /\ Fairness

-----------------------------------------------------------------------------
Awaits == {"idle", "push", "resolve", "send", "backoff", "report", "done"}

TypeOK ==
  /\ failures \in [Hosts -> Nat] /\ wait \in [Hosts -> Int]
  /\ order \in Seq(Hosts)
  /\ \A j, k \in 1..Len(order) : order[j] = order[k] => j = k
  /\ at \in [Requests -> Awaits] /\ attempt \in [Requests -> Nat]
  /\ aborted \subseteq Requests /\ noted \subseteq Requests
  /\ verdict \in [Requests -> {"none", "delivered", "failed", "dropped", "cancelled"}]

(* A request counts at most once against its host, however often it was    *)
(* retried, and not at all when its own caller cut it short: a host is     *)
(* blocked only after Threshold different requests to it have failed.      *)
EachRequestCountsOnce ==
  \A h \in Hosts :
    failures[h] <= Cardinality({t \in Requests : HostOf[t] = h /\ verdict[t] = "failed"})

(* Bounded attempts, one final verdict, no attempt after it, and an error  *)
(* item only for a forwarded event that failed, once.                      *)
Promise == INSTANCE Delivery
             WITH sent <- attempt, Background <- Forwards, Limit <- RetriesOf

ImplementsDelivery == Promise!DeliverySpec

(* Every request gets its verdict although its target never answers.       *)
RequestsEnd == \A t \in Requests : at[t] # "idle" ~> verdict[t] # "none"

(* docs/architecture.md: "After consecutive failures, requests to the same *)
(* host are blocked for a cooldown period."                                *)
BlockedDuringCooldown ==
  [][\A t \in Requests : attempt'[t] > attempt[t] => ~IsOpen(HostOf[t])]_vars
=============================================================================
