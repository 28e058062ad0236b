------------------------------ MODULE MCReadApi ------------------------------
(* Instance of LogQuery and RateLimiter for TLC. Neither reads a variable  *)
(* of the other, so one of the two moves in each behaviour: all that the   *)
(* other's steps could add to it are stutters.                             *)
EXTENDS LogQuery, RateLimiter

CONSTANTS ip1, ip2, ip3, h1, h2

VARIABLE moving

vars == <<query, limiter, moving>>

Entry(stamp, hook, status) ==
  [timestamp |-> stamp, webhookId |-> hook, statusCode |-> status,
   requestUrl |-> "/webhook"]

\* Ids 1, 2 and 4 have the same timestamp; 3 is older than they are.
FourRows == <<Entry(2, h1, 200), Entry(2, h2, 404), Entry(1, h1, 500), Entry(2, h1, 200)>>

Condition(column, operator, value) ==
  [column |-> column, operator |-> operator, value |-> value]
SomeFilters == {
  {Condition("id", "eq", 1)},
  {Condition("statusCode", "gte", 400), Condition("statusCode", "about", 400)},
  {Condition("webhookId", "eq", h1), Condition("requestUrl", "like", {"/webhook"})}}

Rule(column, dir) == [column |-> column, dir |-> dir]
SomeSorts == {<<Rule("body", "ASC")>>,
              <<Rule("timestamp", "ASC"), Rule("id", "DESC")>>}

Asks(webhook, forwarded, real, socket) ==
  [webhook |-> webhook, forwarded |-> forwarded, real |-> real, socket |-> socket]
SomeCallers == {Asks(h1, None, None, ip1), Asks(h1, ip2, None, ip1), Asks(h1, None, ip3, ip1),
                Asks(h1, None, None, ip2), Asks(h1, None, None, None)}
SomeKeys == {<<ip1>>, <<ip2>>, <<ip3>>, <<h1>>, <<h1, ip1>>, <<h1, ip2>>}

SomeLimits == {3, -1, Absent, Garbage}

MCInit ==
  /\ Init /\ LimiterInit
  /\ \/ moving = "query" /\ kind = "webhook" /\ limit = 1
     \/ moving = "limiter" /\ rows = {}

MCNext ==
  \/ moving = "query" /\ Next /\ UNCHANGED <<limiter, moving>>
  \/ moving = "limiter" /\ LimiterNext /\ UNCHANGED <<query, moving>>

MCSpec == MCInit /\ [][MCNext]_vars

(* The type invariants of both.                                            *)
TypeOK == QueryTypeOK /\ LimiterTypeOK
=============================================================================
