------------------------------ MODULE Delivery ------------------------------
(***************************************************************************)
(* What the outbound side promises for each request, without hosts,        *)
(* breaker, timers or back-off: a bounded number of attempts, then one     *)
(* verdict that stays, and for a failed background request at most one     *)
(* error item in the dataset.                                              *)
(***************************************************************************)
EXTENDS Integers

CONSTANTS
  Requests,    \* outbound requests
  Background,  \* those of them that forward an event
  Limit        \* the attempts that each may make

VARIABLES
  sent,     \* attempts made
  verdict,  \* how each request ended, or "none"
  noted     \* requests with an error item

deliveryVars == <<sent, verdict, noted>>

Verdicts == {"delivered", "failed", "dropped", "cancelled"}

DeliveryInit ==
  /\ sent = [t \in Requests |-> 0]
  /\ verdict = [t \in Requests |-> "none"]
  /\ noted = {}

Attempt(t) ==
  /\ verdict[t] = "none" /\ sent[t] < Limit[t]
  /\ sent' = [sent EXCEPT ![t] = @ + 1]
  /\ UNCHANGED <<verdict, noted>>

(* Only what was attempted can be delivered; only what was never attempted *)
(* is dropped; a request fails after an attempt, or has none allowed.      *)
Settle(t, v) ==
  /\ verdict[t] = "none"
  /\ v = "delivered" => sent[t] > 0
  /\ v = "dropped" => sent[t] = 0
  /\ v = "failed" => sent[t] > 0 \/ Limit[t] = 0
  /\ verdict' = [verdict EXCEPT ![t] = v]
  /\ UNCHANGED <<sent, noted>>

Note(t) ==
  /\ t \in Background /\ t \notin noted /\ verdict[t] = "failed"
  /\ noted' = noted \cup {t}
  /\ UNCHANGED <<sent, verdict>>

DeliveryNext ==
  \E t \in Requests :
    Attempt(t) \/ Note(t) \/ \E v \in Verdicts : Settle(t, v)

DeliverySpec == DeliveryInit /\ [][DeliveryNext]_deliveryVars
=============================================================================
