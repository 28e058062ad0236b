-------------------------- MODULE ForwardingProofs --------------------------
(***************************************************************************)
(* Proofs about Forwarding for any requests, hosts, retries and breaker.   *)
(***************************************************************************)
EXTENDS Forwarding, TLAPS, FiniteSetTheorems, SequenceTheorems

USE DEF breakerVars, requestVars

AllVerdicts == {"none", "delivered", "failed", "dropped", "cancelled"}

(* The order of the breaker's map names no host twice.                     *)
Distinct(seq) == \A j, k \in 1..Len(seq) : seq[j] = seq[k] => j = k

BreakerOK ==
  /\ failures \in [Hosts -> Nat] /\ wait \in [Hosts -> Int]
  /\ order \in Seq(Hosts) /\ Distinct(order)

RequestOK ==
  /\ at \in [Requests -> Awaits] /\ attempt \in [Requests -> Nat]
  /\ aborted \subseteq Requests /\ noted \subseteq Requests
  /\ verdict \in [Requests -> AllVerdicts]

(* Where a request is tells what it has done so far.                       *)
Course ==
  \A t \in Requests :
    /\ at[t] \in {"report", "done"} <=> verdict[t] # "none"
    /\ at[t] \in {"idle", "push", "resolve"} => attempt[t] = 0
    /\ at[t] \in {"send", "backoff"} => attempt[t] > 0
    /\ at[t] = "report" =>
         t \in Forwards /\ verdict[t] = "failed" /\ t \notin noted
    /\ t \in noted => at[t] = "done"

FailedAt(h) == {t \in Requests : HostOf[t] = h /\ verdict[t] = "failed"}

IInv == TypeOK /\ Course /\ EachRequestCountsOnce

-----------------------------------------------------------------------------
LEMMA TypeParts == TypeOK <=> BreakerOK /\ RequestOK
  BY DEF TypeOK, BreakerOK, RequestOK, Distinct, AllVerdicts

(* The breaker's map: an entry appended, removed, or the oldest dropped.   *)
LEMMA FailureType ==
  ASSUME BreakerOK, NEW h \in Hosts, RecordFailure(h)
  PROVE  BreakerOK'
  <1>1. failures' \in [Hosts -> Nat] /\ wait' \in [Hosts -> Int]
    BY ConstantsAssumption DEF BreakerOK, RecordFailure
  <1>2. CASE order' = order
    BY <1>1, <1>2 DEF BreakerOK, Distinct
  <1>3. CASE order' = Append(order, h) /\ h \notin Range(order)
    <2>1. /\ order' \in Seq(Hosts) /\ Len(order') = Len(order) + 1
          /\ \A i \in 1..Len(order) : order'[i] = order[i]
          /\ order'[Len(order) + 1] = h /\ Len(order) \in Nat
      BY <1>3, AppendProperties, LenProperties DEF BreakerOK
    <2>2. \A i \in 1..Len(order) : order[i] # h
      BY <1>3, LenProperties DEF BreakerOK, Range
    <2> DEFINE n == Len(order)
    <2>3. \A i, j \in 1..n : order[i] = order[j] => i = j
      BY DEF BreakerOK, Distinct
    <2>4. n \in Nat /\ Len(order') = n + 1 /\ order'[n + 1] = h
          /\ (\A i \in 1..n : order'[i] = order[i] /\ order[i] # h)
      BY <2>1, <2>2
    <2> HIDE DEF n
    <2>5. ASSUME NEW i \in 1..n + 1, NEW j \in 1..n + 1, order'[i] = order'[j]
          PROVE  i = j
      <3>1. CASE i \in 1..n /\ j \in 1..n
        BY <2>3, <2>4, <2>5, <3>1
      <3>2. CASE i = n + 1 \/ j = n + 1
        BY <2>4, <2>5, <3>2
      <3>3. QED
        BY <2>4, <3>1, <3>2
    <2>6. QED
      BY <1>1, <2>1, <2>4, <2>5 DEF BreakerOK, Distinct
  <1>4. QED
    BY <1>2, <1>3 DEF RecordFailure

LEMMA ForgetType ==
  ASSUME BreakerOK, NEW S, Forget(S)
  PROVE  failures' \in [Hosts -> Nat] /\ wait' \in [Hosts -> Int]
  BY DEF BreakerOK, Forget

LEMMA SuccessType ==
  ASSUME BreakerOK, NEW h \in Hosts, RecordSuccess(h)
  PROVE  BreakerOK'
  <1>1. failures' \in [Hosts -> Nat] /\ wait' \in [Hosts -> Int]
    BY ForgetType DEF RecordSuccess
  <1>2. CASE order' = order
    BY <1>1, <1>2 DEF BreakerOK, Distinct
  <1>3. CASE h \in Range(order)
    <2> DEFINE i == PlaceOf(h)
               n == Len(order)
               old == SubSeq(order, 1, i - 1)
               new == SubSeq(order, i + 1, n)
    <2>1. order \in Seq(Hosts) /\ n \in Nat /\ order \in [1..n -> Hosts]
          /\ DOMAIN order = 1..n
      BY LenProperties DEF BreakerOK
    <2>2. i \in 1..n
      BY <1>3, <2>1 DEF PlaceOf, Range
    <2>3. order' = old \o new
      BY <1>3 DEF RecordSuccess
    <2> HIDE DEF i, n
    <2>4. /\ old \in Seq(Hosts) /\ Len(old) = i - 1
          /\ \A k \in 1..i - 1 : old[k] = order[k]
      <3>1. /\ old \in Seq(Hosts) /\ Len(old) = IF 1 <= i - 1 THEN i - 1 - 1 + 1 ELSE 0
            /\ \A k \in 1..(i - 1 - 1 + 1) : old[k] = order[1 + k - 1]
        BY <2>1, <2>2, SubSeqProperties
      <3>2. QED
        BY <3>1, <2>2
    <2>5. /\ new \in Seq(Hosts) /\ Len(new) = n - i
          /\ \A k \in 1..n - i : new[k] = order[i + k]
      <3>1. /\ new \in Seq(Hosts) /\ Len(new) = IF i + 1 <= n THEN n - (i + 1) + 1 ELSE 0
            /\ \A k \in 1..(n - (i + 1) + 1) : new[k] = order[i + 1 + k - 1]
        BY <2>1, <2>2, SubSeqProperties
      <3>2. QED
        BY <3>1, <2>1, <2>2
    <2> HIDE DEF old, new
    <2>6. /\ order' \in Seq(Hosts) /\ Len(order') = n - 1
          /\ \A k \in 1..n - 1 : order'[k] = IF k < i THEN order[k] ELSE order[k + 1]
      <3>1. /\ order' \in Seq(Hosts) /\ Len(order') = Len(old) + Len(new)
            /\ \A k \in 1..Len(old) + Len(new) :
                 order'[k] = IF k <= Len(old) THEN old[k] ELSE new[k - Len(old)]
        BY <2>3, <2>4, <2>5, ConcatProperties
      <3>2. QED
        BY <3>1, <2>1, <2>2, <2>4, <2>5
    <2>7. ASSUME NEW j \in 1..n - 1, NEW k \in 1..n - 1, order'[j] = order'[k]
          PROVE  j = k
      <3>1. \A a, b \in 1..n : order[a] = order[b] => a = b
        BY DEF BreakerOK, Distinct, n
      <3> DEFINE a == IF j < i THEN j ELSE j + 1
                 b == IF k < i THEN k ELSE k + 1
      <3>2. a \in 1..n /\ b \in 1..n /\ order[a] = order[b]
        BY <2>1, <2>2, <2>6, <2>7
      <3>3. a = b
        BY <3>1, <3>2
      <3>4. QED
        BY <2>1, <2>2, <3>3
    <2>8. QED
      BY <1>1, <2>6, <2>7 DEF BreakerOK, Distinct
  <1>4. QED
    BY <1>2, <1>3 DEF RecordSuccess

LEMMA PruneType ==
  ASSUME BreakerOK, Prune
  PROVE  BreakerOK'
  <1> DEFINE n == Len(order)
             x == n - MaxSize
  <1>1. order \in Seq(Hosts) /\ n \in Nat /\ order \in [1..n -> Hosts] /\ x \in Int
        /\ x > 0 /\ x <= n
    BY LenProperties, ConstantsAssumption DEF BreakerOK, Prune
  <1>2. order' = SubSeq(order, x + 1, n)
    BY DEF Prune
  <1>3. failures' \in [Hosts -> Nat] /\ wait' \in [Hosts -> Int]
    BY ForgetType DEF Prune
  <1> HIDE DEF n, x
  <1>4. /\ order' \in Seq(Hosts)
        /\ Len(order') = IF x + 1 <= n THEN n - (x + 1) + 1 ELSE 0
        /\ \A k \in 1..(n - (x + 1) + 1) : order'[k] = order[x + 1 + k - 1]
    BY <1>1, <1>2, SubSeqProperties
  <1>5. Len(order') = n - x /\ \A k \in 1..n - x : order'[k] = order[x + k]
    BY <1>1, <1>4
  <1>6. ASSUME NEW j \in 1..n - x, NEW k \in 1..n - x, order'[j] = order'[k]
        PROVE  j = k
    BY <1>1, <1>5, <1>6 DEF BreakerOK, Distinct, n
  <1>7. QED
    BY <1>3, <1>4, <1>5, <1>6 DEF BreakerOK, Distinct

-----------------------------------------------------------------------------
(* What one request does, seen from its history.  Others do not move.      *)
Stays(t) == \A u \in Requests \ {t} :
  /\ at'[u] = at[u] /\ attempt'[u] = attempt[u] /\ verdict'[u] = verdict[u]
  /\ u \in noted' <=> u \in noted

Walks(t) ==                     \* to another await
  /\ verdict' = verdict /\ attempt' = attempt /\ noted' = noted
  /\ at[t] \notin {"report", "done"}
  /\ \/ at'[t] = at[t]
     \/ at[t] = "idle" /\ at'[t] \in {"push", "resolve"}
     \/ at[t] = "push" /\ at'[t] = "resolve"
     \/ at[t] = "send" /\ at'[t] = "backoff"

Sends(t) ==
  /\ at[t] \in {"resolve", "backoff"} /\ at'[t] = "send"
  /\ attempt[t] < RetriesOf[t] /\ attempt' = [attempt EXCEPT ![t] = @ + 1]
  /\ verdict' = verdict /\ noted' = noted

Ends(t, v) ==
  /\ at[t] \notin {"report", "done"}
  /\ at'[t] = IF v = "failed" /\ t \in Forwards THEN "report" ELSE "done"
  /\ v = "delivered" => at[t] = "send"
  /\ v = "dropped" => at[t] \in {"push", "resolve"}
  /\ v = "failed" => at[t] \in {"send", "backoff"} \/ RetriesOf[t] <= attempt[t]
  /\ verdict' = [verdict EXCEPT ![t] = v]
  /\ attempt' = attempt /\ noted' = noted

Reports(t) ==
  /\ at[t] = "report" /\ at'[t] = "done"
  /\ noted' = noted \/ noted' = noted \cup {t}
  /\ verdict' = verdict /\ attempt' = attempt

Moves(t) ==
  /\ RequestOK' /\ Stays(t)
  /\ \/ Walks(t) \/ Sends(t) \/ Reports(t)
     \/ \E v \in AllVerdicts \ {"none"} : Ends(t, v)

LEMMA EndMoves ==
  ASSUME RequestOK, NEW t \in Requests, NEW v \in AllVerdicts \ {"none", "failed"},
         EndAs(t, v), attempt' = attempt, noted' = noted,
         at[t] \notin {"report", "done"}, v = "delivered" => at[t] = "send",
         v = "dropped" => at[t] \in {"push", "resolve"}
  PROVE  Moves(t)
  <1>1. RequestOK' /\ Stays(t)
    BY DEF RequestOK, EndAs, MoveTo, Awaits, Stays, AllVerdicts
  <1>2. Ends(t, v)
    BY DEF Ends, EndAs, MoveTo, RequestOK, AllVerdicts
  <1>3. QED
    BY <1>1, <1>2 DEF Moves

LEMMA FailMoves ==
  ASSUME RequestOK, NEW t \in Requests, FailAs(t), attempt' = attempt, noted' = noted,
         at[t] \in {"resolve", "send", "backoff"},
         at[t] = "resolve" => RetriesOf[t] <= attempt[t]
  PROVE  Moves(t)
  <1>1. RequestOK' /\ Stays(t)
    BY DEF RequestOK, FailAs, MoveTo, Awaits, Stays, AllVerdicts
  <1>2. Ends(t, "failed")
    BY DEF Ends, FailAs, MoveTo, RequestOK, AllVerdicts
  <1>3. QED
    BY <1>1, <1>2 DEF Moves, AllVerdicts

LEMMA NextAttemptMoves ==
  ASSUME RequestOK, NEW t \in Requests, NextAttempt(t), noted' = noted,
         at[t] \in {"resolve", "backoff"}
  PROVE  Moves(t)
  <1>0. RetriesOf[t] \in Nat /\ attempt[t] \in Nat
    BY ConstantsAssumption DEF RequestOK
  <1>1. CASE EndAs(t, "cancelled") /\ attempt' = attempt
    BY <1>1, EndMoves DEF AllVerdicts
  <1>2. CASE /\ MoveTo(t, "send") /\ attempt[t] < RetriesOf[t]
             /\ attempt' = [attempt EXCEPT ![t] = @ + 1]
             /\ UNCHANGED <<aborted, verdict>>
    <2>1. RequestOK' /\ Stays(t)
      BY <1>2 DEF RequestOK, MoveTo, Awaits, Stays
    <2>2. Sends(t)
      BY <1>2 DEF Sends, MoveTo, RequestOK
    <2>3. QED
      BY <2>1, <2>2 DEF Moves
  <1>3. CASE FailAs(t) /\ attempt' = attempt /\ ~(attempt[t] < RetriesOf[t])
    <2>1. RetriesOf[t] <= attempt[t]
      BY <1>0, <1>3
    <2>2. QED
      BY <1>3, <2>1, FailMoves
  <1>4. QED
    BY <1>1, <1>2, <1>3 DEF NextAttempt

LEMMA WalkMoves ==
  ASSUME RequestOK, NEW t \in Requests, NEW where \in {"push", "resolve", "backoff"},
         MoveTo(t, where), attempt' = attempt, verdict' = verdict,
         noted' = noted, aborted' = aborted,
         \/ at[t] = "idle" /\ where \in {"push", "resolve"}
         \/ at[t] = "push" /\ where = "resolve"
         \/ at[t] = "send" /\ where = "backoff"
  PROVE  Moves(t)
  <1>1. RequestOK' /\ Stays(t)
    BY DEF RequestOK, MoveTo, Awaits, Stays
  <1>2. Walks(t)
    BY DEF Walks, MoveTo, RequestOK
  <1>3. QED
    BY <1>1, <1>2 DEF Moves

-----------------------------------------------------------------------------
(* Every action but those of the breaker alone moves one request, and all  *)
(* but the answers of a target leave the breaker alone.                    *)
Quiet(t) ==
  \/ StartForward(t) \/ Pushed(t) \/ PushFails(t) \/ StartReplay(t)
  \/ Resolved(t) \/ Refused(t) \/ BackoffOver(t) \/ Abort(t)
  \/ \E pushed \in BOOLEAN : Reported(t, pushed)

LEMMA QuietMoves ==
  ASSUME TypeOK, NEW t \in Requests, Quiet(t)
  PROVE  Moves(t) /\ UNCHANGED breakerVars
  <1>0. RequestOK
    BY TypeParts
  <1>1. CASE StartForward(t)
    BY <1>0, <1>1, WalkMoves DEF StartForward
  <1>2. CASE Pushed(t)
    <2>1. CASE EndAs(t, "cancelled")
      BY <1>0, <1>2, <2>1, EndMoves DEF Pushed, AllVerdicts
    <2>2. CASE EndAs(t, "dropped")
      BY <1>0, <1>2, <2>2, EndMoves DEF Pushed, AllVerdicts
    <2>3. CASE MoveTo(t, "resolve") /\ UNCHANGED <<aborted, verdict>>
      BY <1>0, <1>2, <2>3, WalkMoves DEF Pushed
    <2>4. QED
      BY <1>2, <2>1, <2>2, <2>3 DEF Pushed
  <1>3. CASE PushFails(t)
    <2>1. PICK v \in {"cancelled", "dropped"} : EndAs(t, v)
      BY <1>3 DEF PushFails
    <2>2. QED
      BY <1>0, <1>3, <2>1, EndMoves DEF PushFails, AllVerdicts
  <1>4. CASE StartReplay(t)
    BY <1>0, <1>4, WalkMoves DEF StartReplay
  <1>5. CASE Resolved(t)
    BY <1>0, <1>5, NextAttemptMoves DEF Resolved
  <1>6. CASE Refused(t)
    BY <1>0, <1>6, EndMoves DEF Refused, AllVerdicts
  <1>7. CASE BackoffOver(t)
    BY <1>0, <1>7, NextAttemptMoves DEF BackoffOver
  <1>8. CASE Abort(t)
    <2>1. CASE at[t] \in {"send", "backoff"} /\ EndAs(t, "cancelled")
      BY <1>0, <1>8, <2>1, EndMoves DEF Abort, AllVerdicts
    <2>2. CASE /\ at[t] \in {"push", "resolve"}
               /\ aborted' = aborted \cup {t} /\ UNCHANGED <<at, verdict>>
      <3>1. RequestOK' /\ Stays(t)
        BY <1>0, <1>8, <2>2 DEF Abort, RequestOK, Stays
      <3>2. Walks(t)
        BY <1>0, <1>8, <2>2 DEF Abort, Walks
      <3>3. QED
        BY <1>8, <3>1, <3>2 DEF Abort, Moves
    <2>3. QED
      BY <1>8, <2>1, <2>2 DEF Abort
  <1>9. CASE \E pushed \in BOOLEAN : Reported(t, pushed)
    <2>1. PICK pushed \in BOOLEAN : Reported(t, pushed)
      BY <1>9
    <2>2. noted' = noted \/ noted' = noted \cup {t}
      BY <2>1 DEF Reported
    <2>3. RequestOK' /\ Stays(t)
      BY <1>0, <2>1, <2>2 DEF Reported, RequestOK, MoveTo, Awaits, Stays
    <2>4. Reports(t)
      BY <1>0, <2>1, <2>2 DEF Reported, Reports, MoveTo, RequestOK
    <2>5. QED
      BY <2>1, <2>3, <2>4 DEF Reported, Moves
  <1>10. QED
    BY <1>1, <1>2, <1>3, <1>4, <1>5, <1>6, <1>7, <1>8, <1>9 DEF Quiet

(* The answers, and what each of them tells the breaker.                   *)
Fails(t) ==
  /\ RecordFailure(HostOf[t])
  /\ verdict[t] = "none" /\ verdict' = [verdict EXCEPT ![t] = "failed"]

LEMMA AnswerMoves ==
  ASSUME IInv, NEW t \in Requests, Delivered(t) \/ Rejected(t) \/ Unreachable(t)
  PROVE  /\ Moves(t)
         /\ \/ RecordSuccess(HostOf[t])
            \/ Fails(t)
            \/ UNCHANGED breakerVars
  <1>0. RequestOK /\ verdict[t] = "none" /\ at[t] = "send"
    BY TypeParts DEF IInv, Course, Delivered, Rejected, Unreachable
  <1>1. CASE Delivered(t)
    BY <1>0, <1>1, EndMoves DEF Delivered, AllVerdicts
  <1>2. CASE /\ RecordFailure(HostOf[t]) /\ FailAs(t)
             /\ UNCHANGED <<attempt, noted>>
    <2>1. Moves(t)
      BY <1>0, <1>2, FailMoves
    <2>2. Fails(t)
      BY <1>0, <1>2 DEF Fails, FailAs
    <2>3. QED
      BY <2>1, <2>2
  <1>3. CASE /\ MoveTo(t, "backoff") /\ UNCHANGED <<breakerVars, aborted, verdict>>
             /\ UNCHANGED <<attempt, noted>>
    BY <1>0, <1>3, WalkMoves
  <1>4. QED
    BY <1>1, <1>2, <1>3 DEF Rejected, Unreachable

-----------------------------------------------------------------------------
LEMMA MovesCourse ==
  ASSUME TypeOK, Course, NEW t \in Requests, Moves(t)
  PROVE  Course'
  <1>0. RequestOK /\ RequestOK'
    BY TypeParts DEF Moves
  <1> DEFINE C(u) ==
        /\ at[u] \in {"report", "done"} <=> verdict[u] # "none"
        /\ at[u] \in {"idle", "push", "resolve"} => attempt[u] = 0
        /\ at[u] \in {"send", "backoff"} => attempt[u] > 0
        /\ at[u] = "report" =>
             u \in Forwards /\ verdict[u] = "failed" /\ u \notin noted
        /\ u \in noted => at[u] = "done"
  <1>1. ASSUME NEW u \in Requests \ {t} PROVE C(u)'
    BY <1>1 DEF Course, Moves, Stays
  <1>2. C(t)
    BY DEF Course
  <1>3. C(t)'
    <2>1. CASE Walks(t)
      BY <1>2, <2>1 DEF Walks
    <2>2. CASE Sends(t)
      <3>1. attempt'[t] = attempt[t] + 1 /\ attempt[t] \in Nat
        BY <1>0, <2>2 DEF Sends, RequestOK
      <3>2. QED
        BY <1>2, <2>2, <3>1 DEF Sends
    <2>3. CASE Reports(t)
      BY <1>2, <2>3 DEF Reports
    <2>4. ASSUME NEW v \in AllVerdicts \ {"none"}, Ends(t, v) PROVE C(t)'
      <3>1. verdict'[t] = v
        BY <1>0, <2>4 DEF Ends, RequestOK
      <3>2. QED
        BY <1>2, <2>4, <3>1 DEF Ends
    <2>5. QED
      BY <2>1, <2>2, <2>3, <2>4 DEF Moves
  <1>4. QED
    BY <1>1, <1>3 DEF Course

(* A verdict stays, so that the failed requests of a host only get more.   *)
LEMMA FailedGrows ==
  ASSUME TypeOK, Course, NEW t \in Requests, Moves(t), NEW h \in Hosts
  PROVE  FailedAt(h) \subseteq FailedAt(h)'
  <1>1. \A u \in Requests : verdict[u] = "failed" => verdict'[u] = "failed"
    <2>1. ASSUME NEW u \in Requests, verdict[u] = "failed"
          PROVE  verdict'[u] = "failed"
      <3>1. CASE u # t
        BY <2>1, <3>1 DEF Moves, Stays
      <3>2. CASE u = t
        BY <2>1, <3>2 DEF Moves, Course, Walks, Sends, Reports, Ends
      <3>3. QED
        BY <3>1, <3>2
    <2>2. QED
      BY <2>1
  <1>2. QED
    BY <1>1 DEF FailedAt

LEMMA FailedFinite ==
  ASSUME NEW h \in Hosts
  PROVE  /\ IsFiniteSet(FailedAt(h)) /\ IsFiniteSet(FailedAt(h)')
         /\ Cardinality(FailedAt(h)) \in Nat /\ Cardinality(FailedAt(h)') \in Nat
  <1>1. FailedAt(h) \in SUBSET Requests /\ FailedAt(h)' \in SUBSET Requests
    BY DEF FailedAt
  <1>2. IsFiniteSet(FailedAt(h)) /\ IsFiniteSet(FailedAt(h)')
    BY <1>1, FS_Subset, ConstantsAssumption
  <1>3. QED
    BY <1>2, FS_CardinalityType

LEMMA Counts == EachRequestCountsOnce <=>
                  \A h \in Hosts : failures[h] <= Cardinality(FailedAt(h))
  BY DEF EachRequestCountsOnce, FailedAt

LEMMA CountMonotone ==
  ASSUME TypeOK, Course, EachRequestCountsOnce, NEW t \in Requests, Moves(t),
         NEW h \in Hosts, failures'[h] \in Nat, failures'[h] <= failures[h]
  PROVE  failures'[h] <= Cardinality(FailedAt(h)')
  <1>1. Cardinality(FailedAt(h)) <= Cardinality(FailedAt(h)')
    BY FailedGrows, FailedFinite, FS_Subset
  <1>2. failures[h] <= Cardinality(FailedAt(h)) /\ failures[h] \in Nat
    BY Counts DEF TypeOK
  <1>3. QED
    BY <1>1, <1>2, FailedFinite

LEMMA CountOne ==
  ASSUME TypeOK, Course, EachRequestCountsOnce, NEW t \in Requests, Moves(t), Fails(t),
         NEW h \in Hosts
  PROVE  failures'[h] <= Cardinality(FailedAt(h)')
  <1>1. CASE h # HostOf[t]
    <2>1. failures'[h] = failures[h] /\ failures[h] \in Nat
      BY <1>1 DEF Fails, RecordFailure, TypeOK
    <2>2. QED
      BY <2>1, CountMonotone
  <1>2. CASE h = HostOf[t]
    <2>1. failures'[h] = failures[h] + 1 /\ failures[h] \in Nat
      BY <1>2 DEF Fails, RecordFailure, TypeOK
    <2>2. t \notin FailedAt(h) /\ FailedAt(h)' = FailedAt(h) \cup {t}
      BY <1>2 DEF Fails, FailedAt, TypeOK
    <2>3. Cardinality(FailedAt(h)') = Cardinality(FailedAt(h)) + 1
      BY <2>2, FailedFinite, FS_AddElement
    <2>4. failures[h] <= Cardinality(FailedAt(h))
      BY Counts
    <2>5. QED
      BY <2>1, <2>3, <2>4, FailedFinite
  <1>3. QED
    BY <1>1, <1>2

-----------------------------------------------------------------------------
LEMMA InitIInv == Init => IInv
  <1> SUFFICES ASSUME Init PROVE IInv
    OBVIOUS
  <1>1. BreakerOK
    BY EmptySeq DEF Init, BreakerOK, Distinct
  <1>2. RequestOK
    BY DEF Init, RequestOK, Awaits, AllVerdicts
  <1>3. Course
    BY DEF Init, Course
  <1>4. ASSUME NEW h \in Hosts PROVE failures[h] <= Cardinality(FailedAt(h))
    BY FailedFinite DEF Init
  <1>5. QED
    BY <1>1, <1>2, <1>3, <1>4, TypeParts, Counts DEF IInv

(* A step of a request that leaves the breaker alone or tells it an answer.*)
LEMMA MovesIInv ==
  ASSUME IInv, NEW t \in Requests, Moves(t),
         \/ RecordSuccess(HostOf[t])
         \/ Fails(t)
         \/ UNCHANGED breakerVars
  PROVE  IInv'
  <1>0. TypeOK /\ Course /\ EachRequestCountsOnce /\ BreakerOK /\ HostOf[t] \in Hosts
    BY TypeParts, ConstantsAssumption DEF IInv
  <1>1. BreakerOK'
    <2>1. CASE RecordSuccess(HostOf[t])
      BY <1>0, <2>1, SuccessType
    <2>2. CASE Fails(t)
      BY <1>0, <2>2, FailureType DEF Fails
    <2>3. CASE UNCHANGED breakerVars
      BY <1>0, <2>3 DEF BreakerOK, Distinct
    <2>4. QED
      BY <2>1, <2>2, <2>3
  <1>2. TypeOK'
    BY <1>1, TypeParts, PTL DEF Moves
  <1>3. Course'
    BY <1>0, MovesCourse
  <1>4. ASSUME NEW h \in Hosts PROVE failures'[h] <= Cardinality(FailedAt(h)')
    <2>0. failures[h] \in Nat /\ failures'[h] \in Nat
      BY <1>0, <1>1 DEF BreakerOK
    <2>1. CASE Fails(t)
      BY <1>0, <2>1, CountOne
    <2>2. CASE RecordSuccess(HostOf[t]) \/ UNCHANGED breakerVars
      <3>1. failures'[h] <= failures[h]
        BY <2>0, <2>2 DEF RecordSuccess, Forget
      <3>2. QED
        BY <1>0, <2>0, <3>1, CountMonotone
    <2>3. QED
      BY <2>1, <2>2
  <1>5. EachRequestCountsOnce'
    BY <1>4 DEF EachRequestCountsOnce, FailedAt
  <1>6. QED
    BY <1>2, <1>3, <1>5 DEF IInv

(* The breaker's own timers only forget.                                   *)
LEMMA TimersIInv ==
  ASSUME IInv, Prune \/ Tick \/ UNCHANGED vars
  PROVE  IInv' /\ UNCHANGED requestVars
  <1>0. BreakerOK /\ RequestOK
    BY TypeParts DEF IInv
  <1>1. UNCHANGED requestVars
    BY DEF Prune, Tick, vars
  <1>2. BreakerOK'
    <2>1. CASE Prune
      BY <1>0, <2>1, PruneType
    <2>2. CASE Tick
      BY <1>0, <2>2 DEF Tick, BreakerOK, Distinct
    <2>3. CASE UNCHANGED vars
      BY <1>0, <2>3 DEF vars, BreakerOK, Distinct
    <2>4. QED
      BY <2>1, <2>2, <2>3
  <1>3. RequestOK' /\ Course'
    BY <1>0, <1>1 DEF RequestOK, IInv, Course
  <1>4. ASSUME NEW h \in Hosts PROVE failures'[h] <= Cardinality(FailedAt(h)')
    <2>1. failures'[h] <= failures[h] /\ failures[h] \in Nat /\ failures'[h] \in Nat
      <3>1. failures[h] \in Nat /\ failures'[h] \in Nat
        BY <1>0, <1>2 DEF BreakerOK
      <3>2. CASE Prune
        <4>1. PICK S : Forget(S)
          BY <3>2 DEF Prune
        <4>2. QED
          BY <3>1, <4>1 DEF Forget
      <3>3. CASE Tick \/ UNCHANGED vars
        BY <3>1, <3>3 DEF Tick, vars
      <3>4. QED
        BY <3>1, <3>2, <3>3
    <2>2. FailedAt(h)' = FailedAt(h)
      BY <1>1 DEF FailedAt
    <2>3. failures[h] <= Cardinality(FailedAt(h))
      BY Counts DEF IInv
    <2>4. QED
      BY <2>1, <2>2, <2>3, FailedFinite
  <1>5. EachRequestCountsOnce'
    BY <1>4 DEF EachRequestCountsOnce, FailedAt
  <1>6. TypeOK'
    BY <1>2, <1>3, TypeParts, PTL
  <1>7. QED
    BY <1>1, <1>3, <1>5, <1>6 DEF IInv

LEMMA StepKinds ==
  ASSUME IInv, [Next]_vars
  PROVE  \/ Prune \/ Tick \/ UNCHANGED vars
         \/ \E t \in Requests :
              /\ Moves(t)
              /\ \/ RecordSuccess(HostOf[t])
                 \/ Fails(t)
                 \/ UNCHANGED breakerVars
  <1>1. ASSUME NEW t \in Requests, Quiet(t)
        PROVE  Moves(t) /\ UNCHANGED breakerVars
    BY <1>1, QuietMoves DEF IInv
  <1>2. ASSUME NEW t \in Requests, Delivered(t) \/ Rejected(t) \/ Unreachable(t)
        PROVE  /\ Moves(t)
               /\ \/ RecordSuccess(HostOf[t])
                  \/ Fails(t)
                  \/ UNCHANGED breakerVars
    BY <1>2, AnswerMoves
  <1>3. \/ Prune \/ Tick \/ UNCHANGED vars
        \/ \E t \in Requests : Quiet(t) \/ Delivered(t) \/ Rejected(t) \/ Unreachable(t)
    BY DEF Next, Quiet
  <1>4. QED
    BY <1>1, <1>2, <1>3

LEMMA NextIInv == IInv /\ [Next]_vars => IInv'
  BY StepKinds, MovesIInv, TimersIInv

LEMMA Invariant == Spec => []IInv
  BY InitIInv, NextIInv, PTL DEF Spec

-----------------------------------------------------------------------------
(* Types hold for any requests, retries and hosts; in particular no host   *)
(* is twice in the breaker's map, whatever is recorded, forgotten, evicted.*)
THEOREM TypeCorrect == Spec => []TypeOK
  <1>1. IInv => TypeOK
    BY DEF IInv
  <1>2. QED
    BY <1>1, Invariant, PTL

(* A host is blocked only after Threshold different requests to it failed: *)
(* retries and aborted requests do not count (sendSafeRequest).            *)
THEOREM EachRequestCountsOnceHolds == Spec => []EachRequestCountsOnce
  <1>1. IInv => EachRequestCountsOnce
    BY DEF IInv
  <1>2. QED
    BY <1>1, Invariant, PTL

-----------------------------------------------------------------------------
LEMMA DeliveryStep ==
  ASSUME IInv, [Next]_vars
  PROVE  [Promise!DeliveryNext]_(Promise!deliveryVars)
  <1> USE DEF Promise!deliveryVars
  <1>0. RequestOK
    BY TypeParts DEF IInv
  <1>1. CASE Prune \/ Tick \/ UNCHANGED vars
    BY <1>1 DEF Prune, Tick, vars
  <1>2. ASSUME NEW t \in Requests, Moves(t)
        PROVE  [Promise!DeliveryNext]_(Promise!deliveryVars)
    <2>0. verdict[t] = "none" \/ at[t] \in {"report", "done"}
      BY DEF IInv, Course
    <2>1. CASE Walks(t)
      BY <2>1 DEF Walks
    <2>2. CASE Sends(t)
      <3>1. Promise!Attempt(t)
        BY <2>0, <2>2 DEF Sends, Promise!Attempt
      <3>2. QED
        BY <3>1 DEF Promise!DeliveryNext
    <2>3. CASE Reports(t)
      <3>1. t \in Forwards /\ t \notin noted /\ verdict[t] = "failed"
        BY <2>3 DEF Reports, IInv, Course
      <3>2. noted' = noted \/ Promise!Note(t)
        BY <2>3, <3>1 DEF Reports, Promise!Note
      <3>3. QED
        BY <2>3, <3>2 DEF Reports, Promise!DeliveryNext
    <2>4. ASSUME NEW v \in AllVerdicts \ {"none"}, Ends(t, v)
          PROVE  [Promise!DeliveryNext]_(Promise!deliveryVars)
      <3>1. verdict[t] = "none" /\ attempt[t] \in Nat /\ RetriesOf[t] \in Nat
        BY <1>0, <2>0, <2>4, ConstantsAssumption DEF Ends, RequestOK
      <3>2. /\ at[t] \in {"push", "resolve"} => attempt[t] = 0
            /\ at[t] \in {"send", "backoff"} => attempt[t] > 0
        BY DEF IInv, Course
      <3>3. v = "failed" => attempt[t] > 0 \/ RetriesOf[t] = 0
        BY <2>4, <3>1, <3>2 DEF Ends
      <3>4. Promise!Settle(t, v)
        BY <2>4, <3>1, <3>2, <3>3 DEF Ends, Promise!Settle
      <3>5. v \in Promise!Verdicts
        BY DEF AllVerdicts, Promise!Verdicts
      <3>6. QED
        BY <3>4, <3>5 DEF Promise!DeliveryNext
    <2>5. QED
      BY <1>2, <2>1, <2>2, <2>3, <2>4 DEF Moves
  <1>3. QED
    BY <1>1, <1>2, StepKinds

(* ForwardingService implements what Delivery promises: bounded attempts,  *)
(* one final verdict, an error item only for a failed forward, once.       *)
THEOREM Refinement == Spec => ImplementsDelivery
  <1>1. Init => Promise!DeliveryInit
    BY DEF Init, Promise!DeliveryInit
  <1>2. IInv /\ [Next]_vars => [Promise!DeliveryNext]_(Promise!deliveryVars)
    BY DeliveryStep
  <1>3. QED
    BY <1>1, <1>2, Invariant, PTL DEF Spec, ImplementsDelivery, Promise!DeliverySpec

-----------------------------------------------------------------------------
(* The safety that RequestsEnd rests on. How far a request has come: each  *)
(* attempt takes it through "send" and perhaps "backoff" once.             *)
Progress(await, attempts, retries) ==
  CASE await = "idle"    -> 0
    [] await = "push"    -> 1
    [] await = "resolve" -> 2
    [] await = "send"    -> 2 * attempts + 1
    [] await = "backoff" -> 2 * attempts + 2
    [] await = "report"  -> 2 * retries + 3
    [] await = "done"    -> 2 * retries + 4

Place(t) == Progress(at[t], attempt[t], RetriesOf[t])

(* No request goes round for ever: what it does brings it nearer to an end *)
(* that is at most 2 * RetriesOf[t] + 4 awaits away, however the breaker,  *)
(* the other requests and the aborts fall in.                              *)
OnlyOnward ==
  [][\A t \in Requests :
       /\ at'[t] # at[t] \/ attempt'[t] # attempt[t] => Place(t) < Place(t)'
       /\ Place(t)' <= 2 * RetriesOf[t] + 4]_vars

WithinLimit == \A t \in Requests : attempt[t] <= RetriesOf[t]

LEMMA WithinLimitStep == IInv /\ WithinLimit /\ [Next]_vars => WithinLimit'
  <1> SUFFICES ASSUME IInv, WithinLimit, [Next]_vars, NEW u \in Requests
               PROVE  attempt'[u] <= RetriesOf[u]
    BY DEF WithinLimit
  <1>1. /\ attempt[u] <= RetriesOf[u] /\ attempt[u] \in Nat /\ RetriesOf[u] \in Nat
        /\ attempt \in [Requests -> Nat]
    BY TypeParts, ConstantsAssumption DEF IInv, RequestOK, WithinLimit
  <1>2. CASE Prune \/ Tick \/ UNCHANGED vars
    BY <1>1, <1>2 DEF Prune, Tick, vars
  <1>3. ASSUME NEW t \in Requests, Moves(t) PROVE attempt'[u] <= RetriesOf[u]
    BY <1>1, <1>3 DEF Moves, Walks, Sends, Ends, Reports
  <1> QED
    BY <1>2, <1>3, StepKinds

LEMMA WithinLimitAlways == Spec => []WithinLimit
  <1>1. Init => WithinLimit
    BY ConstantsAssumption DEF Init, WithinLimit
  <1> QED
    BY <1>1, WithinLimitStep, Invariant, PTL DEF Spec

LEMMA ProgressWithin ==
  ASSUME NEW await \in Awaits, NEW retries \in Nat, NEW attempts \in 0..retries
  PROVE  /\ Progress(await, attempts, retries) \in 0..(2 * retries + 4)
         /\ await \notin {"report", "done"} =>
              Progress(await, attempts, retries) <= 2 * retries + 2
  BY DEF Progress, Awaits

THEOREM OnlyOnwardHolds == Spec => OnlyOnward
  <1> DEFINE Onward(t) ==
        /\ at'[t] # at[t] \/ attempt'[t] # attempt[t] => Place(t) < Place(t)'
        /\ Place(t)' <= 2 * RetriesOf[t] + 4
  <1>1. ASSUME IInv, WithinLimit, IInv', WithinLimit', [Next]_vars, NEW u \in Requests
        PROVE  Onward(u)
    <2>0. /\ RequestOK /\ RequestOK' /\ RetriesOf[u] \in Nat
          /\ at[u] = "resolve" => attempt[u] = 0
      BY <1>1, TypeParts, ConstantsAssumption DEF IInv, Course, TypeOK, RequestOK,
                                                  AllVerdicts
    <2>1. /\ at[u] \in Awaits /\ attempt[u] \in 0..RetriesOf[u]
          /\ at'[u] \in Awaits /\ attempt'[u] \in 0..RetriesOf[u]
          /\ attempt \in [Requests -> Nat]
      BY <1>1, <2>0 DEF RequestOK, WithinLimit
    <2>2. /\ Place(u) \in Nat
          /\ at[u] \notin {"report", "done"} => Place(u) <= 2 * RetriesOf[u] + 2
          /\ Place(u)' \in 0..(2 * RetriesOf[u] + 4)
      <3>1. /\ Place(u) = Progress(at[u], attempt[u], RetriesOf[u])
            /\ Place(u)' = Progress(at'[u], attempt'[u], RetriesOf[u])
        BY DEF Place
      <3>2. /\ Place(u) \in 0..(2 * RetriesOf[u] + 4)
            /\ at[u] \notin {"report", "done"} => Place(u) <= 2 * RetriesOf[u] + 2
        BY <2>0, <2>1, <3>1, ProgressWithin
      <3>3. Place(u)' \in 0..(2 * RetriesOf[u] + 4)
        BY <2>0, <2>1, <3>1, ProgressWithin
      <3> QED
        BY <2>0, <3>2, <3>3
    <2>3. ASSUME at'[u] = at[u], attempt'[u] = attempt[u] PROVE Onward(u)
      BY <2>2, <2>3
    <2>4. CASE Prune \/ Tick \/ UNCHANGED vars
      BY <2>3, <2>4 DEF Prune, Tick, vars
    <2>5. ASSUME NEW t \in Requests \ {u}, Moves(t) PROVE Onward(u)
      BY <2>3, <2>5 DEF Moves, Stays
    <2>6. CASE Moves(u)
      <3>1. CASE Walks(u)
        <4>1. attempt'[u] = attempt[u]
          BY <3>1 DEF Walks
        <4>2. CASE at[u] = "idle" /\ at'[u] \in {"push", "resolve"}
          <5>1. Place(u) = 0 /\ Place(u)' \in {1, 2}
            BY <4>2 DEF Place, Progress
          <5> QED
            BY <2>2, <5>1
        <4>3. CASE at[u] = "push" /\ at'[u] = "resolve"
          <5>1. Place(u) = 1 /\ Place(u)' = 2
            BY <4>3 DEF Place, Progress
          <5> QED
            BY <2>2, <5>1
        <4>4. CASE at[u] = "send" /\ at'[u] = "backoff"
          <5>1. Place(u) = 2 * attempt[u] + 1 /\ Place(u)' = 2 * attempt[u] + 2
            BY <4>1, <4>4 DEF Place, Progress
          <5> QED
            BY <2>1, <2>2, <5>1
        <4> QED
          BY <2>3, <3>1, <4>1, <4>2, <4>3, <4>4 DEF Walks
      <3>2. CASE Sends(u)
        <4>1. /\ at'[u] = "send" /\ attempt'[u] = attempt[u] + 1
              /\ at[u] \in {"resolve", "backoff"}
          BY <2>1, <3>2 DEF Sends
        <4>2. Place(u)' = 2 * attempt[u] + 3
          BY <2>1, <4>1 DEF Place, Progress
        <4>3. Place(u) = 2 * attempt[u] + 2
          <5>1. CASE at[u] = "resolve"
            <6>1. Place(u) = 2
              BY <5>1 DEF Place, Progress
            <6> QED
              BY <2>0, <5>1, <6>1
          <5>2. CASE at[u] = "backoff"
            BY <5>2 DEF Place, Progress
          <5> QED
            BY <4>1, <5>1, <5>2
        <4> QED
          BY <2>1, <2>2, <4>2, <4>3
      <3>3. CASE Reports(u)
        BY <2>0, <2>1, <2>2, <3>3 DEF Reports, Place, Progress
      <3>4. ASSUME NEW v \in AllVerdicts \ {"none"}, Ends(u, v) PROVE Onward(u)
        <4>1. Place(u)' >= 2 * RetriesOf[u] + 3
          BY <2>0, <3>4 DEF Ends, Place, Progress
        <4> QED
          BY <2>0, <2>1, <2>2, <3>4, <4>1 DEF Ends
      <3> QED
        BY <2>6, <3>1, <3>2, <3>3, <3>4 DEF Moves
    <2> QED
      BY <1>1, <2>4, <2>5, <2>6, StepKinds
  <1>2. /\ IInv /\ WithinLimit /\ IInv' /\ WithinLimit' /\ [Next]_vars
        => [\A t \in Requests : Onward(t)]_vars
    BY <1>1
  <1> QED
    BY <1>2, Invariant, WithinLimitAlways, PTL DEF Spec, OnlyOnward
=============================================================================
