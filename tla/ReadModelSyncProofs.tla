------------------------ MODULE ReadModelSyncProofs ------------------------
(***************************************************************************)
(* Proofs about ReadModelSync for every set of events and webhooks, every  *)
(* number of concurrent sync jobs and every batch size: its types, that no *)
(* dataset item is skipped, that a row keeps its offset, that stop() leaves*)
(* no job behind, and that the service implements DatasetMirror.           *)
(***************************************************************************)
EXTENDS ReadModelSync, TLAPS, WellFoundedInduction, SequenceTheorems

-----------------------------------------------------------------------------
(* A bounded non-empty set of naturals has a greatest element: the CHOOSE  *)
(* of MaxOffset is well defined.                                           *)
LessNat == {p \in Nat \X Nat : p[1] < p[2]}

LEMMA LessNatWellFounded == IsWellFoundedOn(LessNat, Nat)
  BY NatLessThanWellFounded DEF OpToRel, LessNat

LEMMA GreatestExists ==
  ASSUME NEW n \in Nat, NEW S, S \subseteq 0..n, S # {}
  PROVE  \E m \in S : \A k \in S : k <= m
  <1> DEFINE Above == {u \in Nat : \A k \in S : k <= u}
  <1>1. n \in Above
    OBVIOUS
  <1>2. PICK u \in Above : \A v \in Above : ~(<<v, u>> \in LessNat)
    BY <1>1, LessNatWellFounded, WFMin
  <1>3. ASSUME NEW v \in Above PROVE u <= v
    <2>1. ~(<<v, u>> \in LessNat) /\ u \in Nat /\ v \in Nat
      BY <1>2
    <2>2. <<v, u>> \in Nat \X Nat
      BY <2>1
    <2>3. QED
      BY <2>1, <2>2 DEF LessNat
  <1>4. CASE u \in S
    BY <1>4
  <1>5. CASE u \notin S
    <2>1. u \in Nat /\ \A k \in S : k \in Nat /\ k < u
      BY <1>5
    <2>2. PICK k \in S : k < u
      BY <2>1
    <2>3. u - 1 \in Nat /\ \A i \in S : i <= u - 1
      BY <2>1, <2>2
    <2>4. QED
      BY <2>1, <2>3, <1>3
  <1>6. QED
    BY <1>4, <1>5

-----------------------------------------------------------------------------
(* MaxOffset is the marker or the offset of some row.                      *)
LEMMA MaxOffsetCases ==
  ASSUME TypeOK, OffsetIsPosition
  PROVE  \/ MaxOffset = MissingOffset
         \/ \E e \in rows : offset[e] # Null /\ MaxOffset = offset[e]
  <1> DEFINE offsets == {offset[e] : e \in {r \in rows : offset[r] # Null}}
  <1>1. CASE offsets = {}
    BY <1>1 DEF MaxOffset
  <1>2. CASE offsets # {}
    <2>1. Len(dataset) \in Nat /\ offsets \subseteq 0..Len(dataset)
      BY ConstantsAssumption, LenProperties DEF TypeOK, DataType, OffsetIsPosition
    <2>2. \E m \in offsets : \A o \in offsets : o <= m
      BY <1>2, <2>1, GreatestExists
    <2>3. MaxOffset \in offsets
      BY <1>2, <2>2 DEF MaxOffset
    <2>4. QED
      BY <2>3
  <1>3. QED
    BY <1>1, <1>2

LEMMA MaxOffsetType ==
  ASSUME TypeOK, OffsetIsPosition
  PROVE  MaxOffset \in Nat \cup {MissingOffset}
  BY MaxOffsetCases DEF TypeOK, DataType

(* The event at item k is found at position k when no event is there twice.*)
NoTwice == \A k, l \in 1..Len(dataset) : dataset[k] = dataset[l] => k = l

LEMMA PositionOfItem ==
  ASSUME TypeOK, NoTwice, NEW k \in 1..Len(dataset)
  PROVE  Position(dataset[k]) = k
  BY DEF NoTwice, Position

(* What a step keeps: the dataset is only extended, and a row or its offset*)
(* goes away only by being recorded as purged.                             *)
Keeps ==
  /\ Len(dataset) <= Len(dataset')
  /\ \A k \in 1..Len(dataset) : dataset'[k] = dataset[k]
  /\ purged \subseteq purged'
  /\ \A e \in rows : offset[e] # Null =>
       \/ e \notin rows' /\ e \in purged'
       \/ e \in rows' /\ offset'[e] = offset[e]

(* What is covered stays covered in such a step.                           *)
LEMMA CoveredStays ==
  ASSUME TypeOK, TypeOK', Keeps, NEW n \in Nat, Covered(n)
  PROVE  Covered(n)'
  <1>1. Len(dataset) \in Nat /\ Len(dataset') \in Nat
    BY LenProperties DEF TypeOK, DataType
  <1>2. ASSUME NEW k \in 1..n PROVE Mirrored(k)'
    <2>1. Mirrored(k) /\ dataset'[k] = dataset[k] /\ k - 1 # Null
      BY <1>1, <1>2, ConstantsAssumption DEF Covered, Keeps
    <2>2. QED
      BY <2>1 DEF Mirrored, Keeps
  <1>3. QED
    BY <1>1, <1>2 DEF Covered, Keeps

LEMMA CoveredLess ==
  ASSUME NEW n \in Nat, NEW m \in Nat, m <= n, TypeOK, Covered(n)
  PROVE  Covered(m)
  BY LenProperties DEF Covered, TypeOK, DataType

-----------------------------------------------------------------------------
(* The strengthening.  Read and fetched offsets are covered while a job is *)
(* under way, a fetched batch lies inside the dataset, and an inserted     *)
(* batch is covered before the cache moves past it.                        *)
Reading == {"answered", "info", "data", "insert", "inserted"}

RowsCovered == \A e \in rows : offset[e] # Null => Covered(offset[e] + 1)
CacheCovered == cached # Null => Covered(cached + 1)
JobCovered(j) ==
  /\ job[j].at \in Reading => Covered(job[j].next)
  /\ job[j].at \in {"insert", "inserted"}
       => job[j].next + job[j].got <= Len(dataset)
  /\ job[j].at = "inserted" => Covered(job[j].next + job[j].got)
JobsCovered == \A j \in Slots : JobCovered(j)

(* A running service listens, so that off() has a listener to remove.      *)
Listening == running => listeners > 0

IInv ==
  /\ TypeOK /\ NoTwice /\ OffsetIsPosition
  /\ RowsCovered /\ CacheCovered /\ JobsCovered /\ Listening

USE DEF MissingOffset, IdleJob, externalVars, dbVars, lifeVars, boundVars,
        FaultAllowed

(* start() and stop() touch neither the data nor an executing job.         *)
LEMMA CallFrame ==
  CallStep => UNCHANGED <<dataset, emitted, live, rows, offset, purged, cached, job>>
  BY DEF CallStep, LifeStep, Start, StopNothing, StopBegin, LimiterStopped,
         LimiterStopFails, Disconnected, DisconnectFails, StartResumes

LEMMA InitIInv == Init => IInv
  <1> SUFFICES ASSUME Init PROVE IInv
    OBVIOUS
  <1>1. TypeOK
    <2>1. DataType
      BY ConstantsAssumption, EmptySeq DEF Init, DataType, JobType
    <2>2. LifeType
      BY DEF Init, LifeType, CallType, IdleCall
    <2>3. BoundType
      BY DEF Init, BoundType
    <2>4. QED
      BY <2>1, <2>2, <2>3 DEF TypeOK
  <1>2. Len(dataset) = 0
    BY EmptySeq DEF Init
  <1>3. /\ NoTwice /\ OffsetIsPosition /\ RowsCovered /\ CacheCovered
        /\ JobsCovered /\ Listening
    BY <1>2 DEF Init, NoTwice, OffsetIsPosition, RowsCovered, CacheCovered,
                JobsCovered, JobCovered, Reading, Listening
  <1>4. QED
    BY <1>1, <1>3 DEF IInv

(* A job of the right type is resumed, returned or restarted.              *)
LEMMA JobUpdate ==
  ASSUME TypeOK, NEW j \in Slots
  PROVE  /\ \A at \in {"info", "data", "insert", "inserted"} :
              Resume(j, at) => job' \in [Slots -> JobType]
         /\ Return(j) => job' \in [Slots -> JobType]
         /\ \A at \in {"query", "answered", "info", "insert"}, n \in Nat, g \in Nat :
              job' = [job EXCEPT ![j] = [at |-> at, next |-> n, got |-> g]]
                => job' \in [Slots -> JobType]
  <1> USE DEF TypeOK, DataType, JobType, Resume, Return
  <1>1. job[j] \in JobType
    OBVIOUS
  <1>2. ASSUME NEW r \in JobType, job' = [job EXCEPT ![j] = r]
        PROVE  job' \in [Slots -> JobType]
    BY <1>2
  <1>3. ASSUME NEW at \in {"info", "data", "insert", "inserted"}, Resume(j, at)
        PROVE  job' \in [Slots -> JobType]
    BY <1>1, <1>3
  <1>4. QED
    BY <1>2, <1>3

(* The types of what start() and stop() change.                            *)
LEMMA NewLimiter ==
  ASSUME TypeOK, GoOn
  PROVE  starts + 1 \in Limiters /\ starts + 1 # Null
  BY ConstantsAssumption DEF GoOn, TypeOK, BoundType, Limiters

LEMMA GoOnTypes ==
  ASSUME TypeOK, GoOn, call' \in [Callers -> CallType]
  PROVE  LifeType'
  BY NewLimiter DEF GoOn, TypeOK, LifeType

(* The steps that neither start, stop nor crash leave limiters and calls   *)
(* alone, and only a trigger or a job that begins touches the queues.      *)
LEMMA LifeFrame ==
  ASSUME [Next]_vars
  PROVE  \/ CallStep \/ \E b \in BOOLEAN : Crash(b)
         \/ /\ UNCHANGED <<lifeVars, starts>>
            /\ Trigger \/ UNCHANGED queued \/ \E j \in Slots : BeginSync(j)
  <1> DEFINE Apart == /\ UNCHANGED <<lifeVars, starts>>
                      /\ Trigger \/ UNCHANGED queued \/ \E j \in Slots : BeginSync(j)
  <1>1. ASSUME NEW e \in Events, Emit(e) \/ Push(e) PROVE Apart
    BY <1>1 DEF Emit, Push
  <1>2. ASSUME NEW e \in Events, LiveInsert(e) \/ LiveInsertFails(e) PROVE Apart
    BY <1>2 DEF LiveInsert, LiveInsertFails
  <1>3. ASSUME NEW j \in Slots, SyncStep(j) PROVE Apart
    <2>1. CASE BeginSync(j)
      BY <2>1 DEF BeginSync
    <2>2. CASE AnswerMax(j) \/ CacheMax(j)
      BY <2>2 DEF AnswerMax, CacheMax
    <2>3. CASE ReadInfo(j) \/ FetchData(j)
      BY <2>3 DEF ReadInfo, FetchData
    <2>4. CASE InsertBatch(j) \/ FinishSync(j)
      BY <2>4 DEF InsertBatch, FinishSync
    <2>5. QED
      BY <1>3, <2>1, <2>2, <2>3, <2>4 DEF SyncStep
  <1>4. ASSUME NEW j \in Slots, SyncFails(j) PROVE Apart
    BY <1>4 DEF SyncFails
  <1>5. ASSUME NEW w \in Webhooks, PurgeWebhook(w) PROVE Apart
    BY <1>5 DEF PurgeWebhook
  <1>6. CASE UNCHANGED vars
    BY <1>6 DEF vars
  <1> HIDE DEF Apart
  <1>7. ASSUME Next PROVE Apart \/ CallStep \/ \E b \in BOOLEAN : Crash(b)
    BY <1>1, <1>2, <1>3, <1>4, <1>5, <1>7, Zenon DEF Next
  <1>8. QED
    BY <1>6, <1>7, Zenon DEF Apart

LEMMA LifeTypeStep == ASSUME IInv, [Next]_vars PROVE LifeType'
  <1>0. LifeType /\ Listening
    BY DEF IInv, TypeOK
  <1>0a. ASSUME GoOn, call' \in [Callers -> CallType] PROVE LifeType'
    BY <1>0a, GoOnTypes DEF IInv
  <1>1. IdleCall \in CallType
    BY DEF IdleCall, CallType
  <1> USE <1>0 DEF LifeType
  <1>2. CASE Start
    <2>1. GoOn /\ call' \in [Callers -> CallType]
      BY <1>2 DEF Start
    <2>2. QED
      BY <2>1, <1>0a, Zenon
  <1>3. CASE StopNothing
    <2>1. running /\ running' = FALSE /\ listeners' = listeners - 1
      BY <1>3, Zenon DEF StopNothing
    <2>2. listeners > 0
      BY <2>1, Zenon DEF Listening
    <2>3. listeners' \in Nat /\ running' \in BOOLEAN
      <3>1. listeners' \in Nat
        BY <2>1, <2>2
      <3>2. running' \in BOOLEAN
        BY <2>1, Zenon
      <3>3. QED
        BY <3>1, <3>2
    <2>4. QED
      BY <1>3, <2>3 DEF StopNothing
  <1>4. ASSUME NEW c \in Callers, NEW b \in BOOLEAN, StopBegin(c, b)
        PROVE  LifeType'
    <2>1. limiter \in Limiters /\ limiter # Null /\ limiter' = limiter
      BY <1>4 DEF StopBegin
    <2>2. [at |-> "stop", of |-> limiter, byStart |-> b] \in CallType
      BY <2>1 DEF CallType
    <2>3. call' \in [Callers -> CallType]
      BY <1>4, <2>2 DEF StopBegin
    <2>4. /\ running' = FALSE
          /\ running => listeners' = listeners - 1
          /\ ~running => listeners' = listeners
      BY <1>4, Zenon DEF StopBegin
    <2>5. listeners' \in Nat /\ running' \in BOOLEAN
      <3>1. \/ listeners' = listeners
            \/ listeners > 0 /\ listeners' = listeners - 1
        BY <2>4, Zenon DEF Listening
      <3>2. listeners' \in Nat
        BY <3>1
      <3>3. running' \in BOOLEAN
        BY <2>4, Zenon
      <3>4. QED
        BY <3>2, <3>3
    <2>6. CASE stopPromise = Null
      <3>1. /\ stopPromise' = limiter /\ queued' = [queued EXCEPT ![limiter] = 0]
            /\ \E p \in {"none", "open", "draining", "closed"} :
                 phase' = [phase EXCEPT ![limiter] = p]
        BY <1>4, <2>1, <2>6 DEF StopBegin
      <3>2. QED
        BY <2>1, <2>3, <2>5, <3>1
    <2>7. CASE stopPromise # Null
      <3>1. UNCHANGED <<stopPromise, phase, queued>>
        BY <1>4, <2>7, Zenon DEF StopBegin
      <3>2. QED
        BY <2>1, <2>3, <2>5, <3>1
    <2>8. QED
      BY <2>6, <2>7
  <1>5. ASSUME NEW c \in Callers, Disconnected(c) PROVE LifeType'
    <2>1. ASSUME NEW r \in CallType PROVE [r EXCEPT !.at = "stopped"] \in CallType
      BY DEF CallType
    <2>2. PICK r \in CallType : call' = [call EXCEPT ![c] = r]
      BY <1>1, <1>5, <2>1 DEF Disconnected
    <2>3. QED
      BY <1>5, <2>2 DEF Disconnected
  <1>6. ASSUME NEW c \in Callers, StartResumes(c) PROVE LifeType'
    <2>1. call' \in [Callers -> CallType]
      BY <1>1, <1>6 DEF StartResumes
    <2>2. GoOn
      BY <1>6 DEF StartResumes
    <2>3. QED
      BY <2>1, <2>2, GoOnTypes DEF IInv
  <1>7. ASSUME NEW c \in Callers, DisconnectFails(c) PROVE LifeType'
    BY <1>1, <1>7 DEF DisconnectFails
  <1>8. ASSUME NEW g \in Limiters, LimiterStopped(g) PROVE LifeType'
    <2>1. ASSUME NEW r \in CallType
          PROVE [r EXCEPT !.at = "disconnect"] \in CallType
      BY DEF CallType
    <2>2. call' \in [Callers -> CallType]
      BY <1>8, <2>1 DEF LimiterStopped, AllMove
    <2>3. QED
      BY <1>8, <2>2 DEF LimiterStopped
  <1>9. ASSUME NEW g \in Limiters, LimiterStopFails(g) PROVE LifeType'
    <2>1. call' \in [Callers -> CallType]
      BY <1>1, <1>9 DEF LimiterStopFails
    <2>2. QED
      BY <1>9, <2>1 DEF LimiterStopFails
  <1>10. ASSUME NEW b \in BOOLEAN, Crash(b) PROVE LifeType'
    <2>1. /\ running' = FALSE /\ limiter' = Null /\ stopPromise' = Null
          /\ listeners' = 0 /\ phase' = [g \in Limiters |-> "none"]
          /\ call' = [c \in Callers |-> IdleCall]
          /\ queued' = [g \in Limiters |-> 0]
      BY <1>10, Zenon DEF Crash
    <2>2. QED
      BY <1>1, <2>1
  <1>11. ASSUME UNCHANGED lifeVars, queued' \in [Limiters -> Nat] PROVE LifeType'
    BY <1>11
  <1>12. ASSUME Trigger PROVE queued' \in [Limiters -> Nat]
    BY <1>12 DEF Trigger, Accepting
  <1>13. ASSUME NEW j \in Slots, BeginSync(j) PROVE queued' \in [Limiters -> Nat]
    BY <1>13 DEF BeginSync, Slots
  <1> HIDE <1>0 DEF LifeType
  <1>14. QED
    <2>1. CASE CallStep
      BY <1>2, <1>3, <1>4, <1>5, <1>6, <1>7, <1>8, <1>9, <2>1 DEF CallStep, LifeStep
    <2>2. queued \in [Limiters -> Nat]
      BY <1>0 DEF LifeType
    <2>3. QED
      BY <1>10, <1>11, <1>12, <1>13, <2>1, <2>2, LifeFrame

(* The bound counters count.                                               *)
LEMMA BoundTypeStep == ASSUME BoundType, [Next]_vars PROVE BoundType'
  <1>1. CASE CallStep
    BY <1>1
       DEF BoundType, CallStep, LifeStep, Start, StopNothing, StopBegin, GoOn,
           LimiterStopped, LimiterStopFails, Disconnected, DisconnectFails,
           StartResumes
  <1>2. CASE UNCHANGED boundVars
    BY <1>2 DEF BoundType
  <1>3. ASSUME NEW e \in Events, LiveInsertFails(e) PROVE BoundType'
    BY <1>3 DEF BoundType, LiveInsertFails
  <1>4. ASSUME NEW j \in Slots, SyncFails(j) PROVE BoundType'
    BY <1>4 DEF BoundType, SyncFails
  <1>5. ASSUME NEW w \in Webhooks, PurgeWebhook(w) PROVE BoundType'
    BY <1>5 DEF BoundType, PurgeWebhook
  <1>6. ASSUME NEW b \in BOOLEAN, Crash(b) PROVE BoundType'
    BY <1>6 DEF BoundType, Crash
  <1>7. QED
    BY <1>1, <1>2, <1>3, <1>4, <1>5, <1>6
       DEF Next, vars, Emit, Push, LiveInsert, SyncStep, BeginSync, AnswerMax,
           CacheMax, ReadInfo, FetchData, InsertBatch, FinishSync

(* The types of the state, action by action.                               *)
LEMMA DataTypeStep == ASSUME IInv, [Next]_vars PROVE DataType'
  <1> USE ConstantsAssumption DEF TypeOK, DataType, IInv
  <1>1. ASSUME NEW e \in Events, Emit(e) PROVE DataType'
    BY <1>1 DEF Emit, LifeType
  <1>2. ASSUME NEW e \in Events, Push(e) PROVE DataType'
    BY <1>2, AppendProperties DEF Push
  <1>3. ASSUME NEW e \in Events, LiveInsert(e) PROVE DataType'
    BY <1>3 DEF LiveInsert
  <1>4. ASSUME NEW e \in Events, LiveInsertFails(e) PROVE DataType'
    BY <1>4 DEF LiveInsertFails
  <1>5. ASSUME NEW j \in Slots, BeginSync(j) PROVE DataType'
    <2>1. cached # Null => cached + 1 \in Nat
      OBVIOUS
    <2>2. job' \in [Slots -> JobType]
      BY <1>5, <2>1 DEF BeginSync, JobType
    <2>3. QED
      BY <1>5, <2>2 DEF BeginSync
  <1>6. ASSUME NEW j \in Slots, AnswerMax(j) PROVE DataType'
    <2>1. MaxOffset + 1 \in Nat
      BY MaxOffsetType
    <2>2. job' \in [Slots -> JobType]
      <3>1. job \in [Slots -> JobType] /\ job[j] \in JobType
        OBVIOUS
      <3>2. [job[j] EXCEPT !.at = "answered", !.next = MaxOffset + 1] \in JobType
        BY <2>1, <3>1 DEF JobType
      <3>3. job' = [job EXCEPT ![j] =
                      [job[j] EXCEPT !.at = "answered", !.next = MaxOffset + 1]]
        BY <1>6, <3>1 DEF AnswerMax
      <3>4. QED
        BY <3>1, <3>2, <3>3
    <2>3. QED
      BY <1>6, <2>2 DEF AnswerMax
  <1>7. ASSUME NEW j \in Slots, CacheMax(j) PROVE DataType'
    <2>1. job' \in [Slots -> JobType]
      BY <1>7, JobUpdate DEF CacheMax, ResumeIf
    <2>2. cached' \in Nat \cup {MissingOffset}
      BY <1>7 DEF CacheMax, JobType
    <2>3. QED
      BY <1>7, <2>1, <2>2 DEF CacheMax
  <1>8. ASSUME NEW j \in Slots, ReadInfo(j) PROVE DataType'
    <2>1. job' \in [Slots -> JobType]
      BY <1>8, JobUpdate DEF ReadInfo, ResumeIf
    <2>2. QED
      BY <1>8, <2>1 DEF ReadInfo
  <1>9. ASSUME NEW j \in Slots, FetchData(j) PROVE DataType'
    <2>1. Len(dataset) \in Nat /\ job[j].next \in Nat
          /\ job[j].next <= Len(dataset)
      BY <1>9, LenProperties DEF FetchData, JobsCovered, JobCovered, Reading, Covered, JobType
    <2>2. (IF Len(dataset) - job[j].next < BatchSize
             THEN Len(dataset) - job[j].next ELSE BatchSize) \in Nat
      BY <2>1
    <2>3. job' \in [Slots -> JobType]
      <3>1. job \in [Slots -> JobType] /\ job[j] \in JobType /\ IdleJob \in JobType
        BY DEF IdleJob, JobType
      <3>2. ASSUME NEW got \in Nat
            PROVE  [job[j] EXCEPT !.at = "insert", !.got = got] \in JobType
        BY <3>1 DEF JobType
      <3>3. PICK next \in JobType : job' = [job EXCEPT ![j] = next]
        BY <1>9, <2>2, <3>1, <3>2 DEF FetchData
      <3>4. QED
        BY <3>1, <3>3
    <2>4. QED
      BY <1>9, <2>3 DEF FetchData
  <1>10. ASSUME NEW j \in Slots, InsertBatch(j) PROVE DataType'
    <2>1. Len(dataset) \in Nat /\ dataset \in [1..Len(dataset) -> Events]
          /\ job[j].next \in Nat /\ job[j].got \in Nat
      BY LenProperties DEF JobType
    <2>2. job[j].next + job[j].got <= Len(dataset)
      BY <1>10 DEF InsertBatch, JobsCovered, JobCovered
    <2>3. ASSUME NEW e \in Batch(j)
          PROVE  e \in Events /\ Position(e) - 1 \in Nat
      <3>0. TypeOK /\ NoTwice
        OBVIOUS
      <3> HIDE DEF IInv, TypeOK, DataType
      <3>1. PICK k \in 1..Len(dataset) : e = dataset[k]
        BY <2>1, <2>2, <2>3 DEF Batch
      <3>2. Position(e) = k
        BY <3>0, <3>1, PositionOfItem
      <3>3. QED
        BY <2>1, <3>1, <3>2
    <2>4. job' \in [Slots -> JobType]
      BY <1>10, JobUpdate DEF InsertBatch
    <2>5. QED
      BY <1>10, <2>3, <2>4 DEF InsertBatch
  <1>11. ASSUME NEW j \in Slots, FinishSync(j) PROVE DataType'
    <2>1. job[j].next + job[j].got - 1 \in Nat \cup {MissingOffset}
      BY DEF JobType
    <2>2. job' \in [Slots -> JobType]
      BY <1>11, JobUpdate DEF FinishSync
    <2>3. QED
      BY <1>11, <2>1, <2>2 DEF FinishSync
  <1>12. ASSUME NEW j \in Slots, SyncFails(j) PROVE DataType'
    <2>1. job' \in [Slots -> JobType]
      BY <1>12, JobUpdate DEF SyncFails
    <2>2. QED
      BY <1>12, <2>1 DEF SyncFails
  <1>13. CASE CallStep
    BY <1>13, CallFrame
  <1>14. ASSUME NEW w \in Webhooks, PurgeWebhook(w) PROVE DataType'
    BY <1>14 DEF PurgeWebhook
  <1>15. ASSUME NEW keepDb \in BOOLEAN, Crash(keepDb) PROVE DataType'
    <2>1. job' \in [Slots -> JobType]
      BY <1>15 DEF Crash, JobType
    <2>2. rows' \subseteq Events /\ offset' \in [Events -> Nat \cup {Null}]
      BY <1>15 DEF Crash
    <2>3. /\ dataset' = dataset /\ emitted' = emitted /\ purged' = purged
          /\ live' = [e \in Events |-> 0] /\ cached' = Null
      BY <1>15, Zenon DEF Crash
    <2>4. QED
      BY <2>1, <2>2, <2>3
  <1>16. CASE UNCHANGED vars
    BY <1>16 DEF vars
  <1>17. QED
    BY <1>1, <1>2, <1>3, <1>4, <1>5, <1>6, <1>7, <1>8, <1>9, <1>10, <1>11,
       <1>12, <1>13, <1>14, <1>15, <1>16
       DEF Next, SyncStep

LEMMA TypeStep == IInv /\ [Next]_vars => TypeOK'
  BY DataTypeStep, LifeTypeStep, BoundTypeStep DEF IInv, TypeOK

-----------------------------------------------------------------------------
(* Every step keeps what was taken in, but a crash that loses the database.*)
LEMMA StepKeeps ==
  ASSUME IInv, TypeOK', [Next]_vars
  PROVE  Keeps \/ Crash(FALSE)
  <1> USE ConstantsAssumption DEF TypeOK, DataType, IInv, Keeps
  <1>0. Len(dataset) \in Nat
    BY LenProperties
  <1>1. ASSUME NEW e \in Events, Push(e) PROVE Keeps
    BY <1>0, <1>1, AppendProperties DEF Push
  <1>2. ASSUME NEW e \in Events, LiveInsert(e) PROVE Keeps
    BY <1>0, <1>2 DEF LiveInsert
  <1>3. ASSUME NEW j \in Slots, InsertBatch(j) PROVE Keeps
    <2>1. ASSUME NEW e \in rows, offset[e] # Null
          PROVE  e \in rows' /\ offset'[e] = offset[e]
      <3>1. e \in Events /\ offset[e] \in Nat /\ offset[e] + 1 \in 1..Len(dataset)
            /\ dataset[offset[e] + 1] = e
        BY <1>0, <2>1 DEF OffsetIsPosition
      <3>2. Position(e) = offset[e] + 1
        BY <3>1, PositionOfItem
      <3>3. rows' = rows \cup Batch(j)
            /\ offset' = [d \in Events |->
                            IF d \in Batch(j) THEN Position(d) - 1 ELSE offset[d]]
        BY <1>3, Zenon DEF InsertBatch
      <3>4. QED
        BY <2>1, <3>1, <3>2, <3>3
    <2>2. dataset' = dataset /\ purged' = purged
      BY <1>3 DEF InsertBatch
    <2>3. QED
      BY <1>0, <2>1, <2>2
  <1>4. ASSUME NEW w \in Webhooks, PurgeWebhook(w) PROVE Keeps
    BY <1>0, <1>4 DEF PurgeWebhook
  <1>5. ASSUME Crash(TRUE) PROVE Keeps
    BY <1>0, <1>5 DEF Crash
  <1>6. ASSUME UNCHANGED <<dataset, rows, offset, purged>> PROVE Keeps
    BY <1>0, <1>6
  <1> HIDE DEF TypeOK, DataType, IInv, Keeps
  <1>7. QED
    <2>1. ASSUME NEW e \in Events, Emit(e) \/ LiveInsertFails(e) PROVE Keeps
      BY <1>6, <2>1 DEF Emit, LiveInsertFails
    <2>2. ASSUME NEW j \in Slots, SyncStep(j) \/ SyncFails(j) PROVE Keeps
      BY <1>3, <1>6, <2>2
         DEF SyncStep, BeginSync, AnswerMax, CacheMax, ReadInfo, FetchData,
             FinishSync, SyncFails
    <2>3. CASE CallStep
      BY <1>6, <2>3, CallFrame
    <2>4. CASE UNCHANGED vars
      BY <1>6, <2>4 DEF vars
    <2>5. QED
      BY <1>1, <1>2, <1>4, <1>5, <2>1, <2>2, <2>3, <2>4 DEF Next

(* No event is in the dataset twice: only Push extends it.                 *)
LEMMA NoTwiceStep == ASSUME IInv, [Next]_vars PROVE NoTwice'
  <1>1. CASE \E e \in Events : Push(e)
    BY <1>1, AppendProperties, LenProperties
       DEF Push, Pushed, IInv, NoTwice, TypeOK, DataType
  <1>2. CASE UNCHANGED dataset
    BY <1>2 DEF IInv, NoTwice
  <1>3. QED
    BY <1>1, <1>2, CallFrame
         DEF Next, vars, Emit, LiveInsert, LiveInsertFails, SyncStep,
             BeginSync, AnswerMax, CacheMax, ReadInfo, FetchData, InsertBatch,
             FinishSync, SyncFails, PurgeWebhook, Crash

(* A row that has an offset after the step had it before, or was just      *)
(* inserted by a batch.                                                    *)
LEMMA PlacedStep ==
  ASSUME IInv, TypeOK', [Next]_vars, NEW e \in rows', offset'[e] # Null
  PROVE  \/ e \in rows /\ offset'[e] = offset[e]
         \/ \E j \in Slots : InsertBatch(j) /\ e \in Batch(j)
  <1> USE ConstantsAssumption DEF TypeOK, DataType, IInv
  <1>1. e \in Events
    OBVIOUS
  <1>2. ASSUME NEW f \in Events, LiveInsert(f) PROVE e \in rows /\ offset'[e] = offset[e]
    BY <1>1, <1>2 DEF LiveInsert
  <1>3. ASSUME NEW j \in Slots, InsertBatch(j), e \notin Batch(j)
        PROVE  e \in rows /\ offset'[e] = offset[e]
    BY <1>1, <1>3 DEF InsertBatch
  <1>4. ASSUME NEW w \in Webhooks, PurgeWebhook(w)
        PROVE  e \in rows /\ offset'[e] = offset[e]
    BY <1>1, <1>4 DEF PurgeWebhook
  <1>5. ASSUME NEW b \in BOOLEAN, Crash(b)
        PROVE  e \in rows /\ offset'[e] = offset[e]
    BY <1>1, <1>5 DEF Crash
  <1> HIDE DEF TypeOK, DataType, IInv
  <1>6. ASSUME UNCHANGED <<rows, offset>>
        PROVE  e \in rows /\ offset'[e] = offset[e]
    BY <1>6
  <1>7. QED
    BY <1>2, <1>3, <1>4, <1>5, <1>6, CallFrame
         DEF Next, vars, Emit, Push, LiveInsertFails, SyncStep, BeginSync,
             AnswerMax, CacheMax, ReadInfo, FetchData, FinishSync, SyncFails

(* The offsets that a batch writes are positions, and once it is inserted  *)
(* everything up to its end is covered.                                    *)
LEMMA BatchInserted ==
  ASSUME IInv, TypeOK', Keeps, NEW j \in Slots, InsertBatch(j),
         NEW next \in Nat, next = job[j].next,
         NEW end \in Nat, end = job[j].next + job[j].got
  PROVE  /\ Covered(end)'
         /\ \A e \in Batch(j) :
              /\ offset'[e] \in 0 .. end - 1
              /\ offset'[e] < Len(dataset')
              /\ dataset'[offset'[e] + 1] = e
  <1>1. /\ Len(dataset) \in Nat /\ dataset \in [1..Len(dataset) -> Events]
        /\ job[j].got \in Nat
    BY LenProperties DEF IInv, TypeOK, DataType, JobType
  <1>2. end <= Len(dataset) /\ Covered(next)
    BY <1>1 DEF InsertBatch, IInv, JobsCovered, JobCovered, Reading
  <1>3. ASSUME NEW k \in next + 1 .. end
        PROVE  /\ k \in 1..Len(dataset) /\ dataset[k] \in Events
               /\ dataset[k] \in rows' /\ offset'[dataset[k]] = k - 1
    <2>1. k \in 1..Len(dataset) /\ dataset[k] \in Events /\ dataset[k] \in Batch(j)
      BY <1>1, <1>2 DEF Batch
    <2>2. Position(dataset[k]) = k
      BY <2>1, PositionOfItem DEF IInv
    <2>3. QED
      BY <2>1, <2>2 DEF InsertBatch
  <1>4. dataset' = dataset
    BY DEF InsertBatch
  <1>5. Covered(next)'
    BY <1>2, CoveredStays DEF IInv
  <1>6. ASSUME NEW k \in 1..end PROVE Mirrored(k)'
    <2>1. CASE k <= next
      BY <1>5, <2>1 DEF Covered
    <2>2. CASE k > next
      <3>1. k \in next + 1 .. end
        BY <2>2
      <3>2. dataset[k] \in rows' /\ offset'[dataset[k]] = k - 1
        BY <3>1, <1>3
      <3>3. QED
        BY <3>2, <1>4 DEF Mirrored
    <2>3. QED
      BY <2>1, <2>2
  <1>7. Covered(end)'
    BY <1>2, <1>4, <1>6 DEF Covered
  <1>8. ASSUME NEW e \in Batch(j)
        PROVE  offset'[e] \in 0 .. end - 1 /\ offset'[e] < Len(dataset')
               /\ dataset'[offset'[e] + 1] = e
    <2>1. PICK k \in next + 1 .. end : e = dataset[k]
      BY <1>8 DEF Batch
    <2>2. offset'[e] = k - 1 /\ k \in 1..Len(dataset)
      BY <2>1, <1>3
    <2>3. QED
      BY <1>1, <1>4, <2>1, <2>2
  <1>9. QED
    BY <1>7, <1>8

(* The parts of the invariant about rows.                                  *)
LEMMA RowsStep ==
  ASSUME IInv, TypeOK', [Next]_vars
  PROVE  OffsetIsPosition' /\ RowsCovered'
  <1>1. ASSUME NEW e \in rows', offset'[e] # Null
        PROVE  /\ offset'[e] < Len(dataset') /\ dataset'[offset'[e] + 1] = e
               /\ Covered(offset[e] + 1)'
    <2>1. e \in Events /\ offset'[e] \in Nat
      BY <1>1 DEF TypeOK, DataType
    <2>2. rows' # {}
      BY <1>1
    <2>3. Keeps
      BY <2>2, StepKeeps DEF Crash
    <2>4. PICK n \in Nat : n = offset'[e]
      BY <2>1
    <2>5. CASE e \in rows /\ offset'[e] = offset[e]
      <3>1. n = offset[e] /\ n # Null /\ Covered(n + 1)
            /\ n < Len(dataset) /\ dataset[n + 1] = e
        BY <1>1, <2>4, <2>5 DEF IInv, RowsCovered, OffsetIsPosition
      <3>2. Covered(n + 1)'
        BY <2>3, <3>1, CoveredStays DEF IInv
      <3>3. n < Len(dataset') /\ dataset'[n + 1] = e
        <4>1. Len(dataset) \in Nat /\ Len(dataset') \in Nat
          BY LenProperties DEF IInv, TypeOK, DataType
        <4>2. QED
          BY <4>1, <3>1, <2>3 DEF Keeps
      <3>4. QED
        BY <2>4, <3>2, <3>3
    <2>6. ASSUME NEW j \in Slots, InsertBatch(j), e \in Batch(j)
          PROVE  /\ n < Len(dataset') /\ dataset'[n + 1] = e
                 /\ Covered(n + 1)'
      <3>1. PICK next \in Nat, end \in Nat :
              next = job[j].next /\ end = job[j].next + job[j].got
        <4>1. job[j] \in JobType
          BY DEF IInv, TypeOK, DataType
        <4>2. QED
          BY <4>1 DEF JobType
      <3>2. /\ Covered(end)' /\ n \in 0 .. end - 1
            /\ n < Len(dataset') /\ dataset'[n + 1] = e
        BY <2>3, <2>4, <2>6, <3>1, BatchInserted
      <3>3. \A k \in 1 .. n + 1 : k \in 1 .. end
        BY <3>2
      <3>4. Covered(n + 1)'
        BY <3>2, <3>3 DEF Covered
      <3>5. QED
        BY <3>2, <3>4
    <2>7. QED
      BY <1>1, <2>4, <2>5, <2>6, PlacedStep
  <1>2. QED
    BY <1>1 DEF OffsetIsPosition, RowsCovered

(* The cache moves to what a job has answered or inserted.                 *)
LEMMA CacheStep ==
  ASSUME IInv, TypeOK', [Next]_vars
  PROVE  CacheCovered'
  <1>1. ASSUME NEW n \in Nat, Covered(n), Keeps PROVE Covered(n)'
    BY <1>1, CoveredStays DEF IInv
  <1>2. CASE cached' = Null
    BY <1>2 DEF CacheCovered
  <1>3. CASE cached' # Null /\ cached' = cached /\ Keeps
    <2>1. PICK n \in Nat : n = cached + 1
      BY <1>3 DEF IInv, TypeOK, DataType
    <2>2. Covered(n)
      BY <2>1, <1>3 DEF IInv, CacheCovered
    <2>3. Covered(n)'
      BY <1>1, <1>3, <2>2
    <2>4. QED
      BY <2>1, <2>3, <1>3 DEF CacheCovered
  <1>4. ASSUME NEW j \in Slots, CacheMax(j), Keeps PROVE CacheCovered'
    <2>1. PICK n \in Nat : n = job[j].next
      BY DEF IInv, TypeOK, DataType, JobType
    <2>2. Covered(n) /\ cached' = n - 1
      BY <2>1, <1>4 DEF CacheMax, IInv, JobsCovered, JobCovered, Reading
    <2>3. Covered(n)' /\ cached' + 1 = n
      BY <1>1, <1>4, <2>2
    <2>4. QED
      BY <2>3 DEF CacheCovered
  <1>5. ASSUME NEW j \in Slots, FinishSync(j), Keeps, cached' # cached
        PROVE  CacheCovered'
    <2>0. job[j].next \in Nat /\ job[j].got \in Nat
      BY DEF IInv, TypeOK, DataType, JobType
    <2>1. PICK n \in Nat : n = job[j].next + job[j].got
      BY DEF IInv, TypeOK, DataType, JobType
    <2>2. Covered(n)
      BY <2>1, <1>5 DEF FinishSync, IInv, JobsCovered, JobCovered
    <2>3. cached' = job[j].next + job[j].got - 1
      BY <1>5, Zenon DEF FinishSync
    <2>4. Covered(n)'
      BY <1>1, <1>5, <2>2
    <2>5. cached' + 1 = n
      BY <2>0, <2>1, <2>3
    <2>6. QED
      BY <2>4, <2>5 DEF CacheCovered
  <1>6. CASE Crash(FALSE)
    BY <1>2, <1>6 DEF Crash
  <1>7. CASE ~Crash(FALSE)
    <2>1. Keeps
      BY <1>7, StepKeeps
    <2>2. \/ cached' = Null \/ cached' = cached
          \/ \E j \in Slots : CacheMax(j) \/ FinishSync(j)
      BY CallFrame
           DEF Next, vars, Emit, Push, LiveInsert, LiveInsertFails, SyncStep,
               BeginSync, AnswerMax, ReadInfo, FetchData, InsertBatch,
               SyncFails, PurgeWebhook, Crash
    <2>3. QED
      BY <1>2, <1>3, <1>4, <1>5, <2>1, <2>2
  <1>8. QED
    BY <1>6, <1>7

(* What a step does to one job, as far as what it has read is concerned.   *)
LEMMA JobMoves ==
  ASSUME IInv, [Next]_vars, NEW i \in Slots
  PROVE  \/ job'[i] = job[i]
         \/ job'[i].at \in {"idle", "query"}
         \/ cached # Null /\ job'[i].at = "info" /\ job'[i].next = cached + 1
         \/ job'[i].at = "answered" /\ job'[i].next = MaxOffset + 1
         \/ /\ job[i].at \in Reading /\ job'[i].at \in {"info", "data"}
            /\ job'[i].next = job[i].next
         \/ FetchData(i) /\ job'[i].at = "insert"
         \/ InsertBatch(i)
  <1> DEFINE Moved ==
         \/ job'[i] = job[i]
         \/ job'[i].at \in {"idle", "query"}
         \/ cached # Null /\ job'[i].at = "info" /\ job'[i].next = cached + 1
         \/ job'[i].at = "answered" /\ job'[i].next = MaxOffset + 1
         \/ /\ job[i].at \in Reading /\ job'[i].at \in {"info", "data"}
            /\ job'[i].next = job[i].next
         \/ FetchData(i) /\ job'[i].at = "insert"
         \/ InsertBatch(i)
  <1> USE DEF Resume, Return
  <1>1. job \in [Slots -> JobType]
    BY DEF IInv, TypeOK, DataType
  <1>2. ASSUME NEW j \in Slots, BeginSync(j) PROVE Moved
    BY <1>1, <1>2 DEF BeginSync, JobType
  <1>3. ASSUME NEW j \in Slots, AnswerMax(j) PROVE Moved
    BY <1>1, <1>3 DEF AnswerMax, JobType
  <1>4. ASSUME NEW j \in Slots, CacheMax(j) PROVE Moved
    BY <1>1, <1>4 DEF CacheMax, ResumeIf, JobType, Reading
  <1>5. ASSUME NEW j \in Slots, ReadInfo(j) PROVE Moved
    BY <1>1, <1>5 DEF ReadInfo, ResumeIf, JobType, Reading
  <1>6. ASSUME NEW j \in Slots, FetchData(j) PROVE Moved
    BY <1>1, <1>6 DEF FetchData, JobType
  <1>7. ASSUME NEW j \in Slots, InsertBatch(j) PROVE Moved
    BY <1>1, <1>7 DEF InsertBatch, JobType
  <1>8. ASSUME NEW j \in Slots, FinishSync(j) \/ SyncFails(j) PROVE Moved
    BY <1>1, <1>8 DEF FinishSync, SyncFails, JobType
  <1>9. ASSUME NEW b \in BOOLEAN, Crash(b) PROVE Moved
    <2>1. job' = [j \in Slots |-> IdleJob]
      BY <1>9, Zenon DEF Crash
    <2>2. QED
      BY <2>1
  <1>10. ASSUME UNCHANGED job PROVE Moved
    BY <1>10
  <1> HIDE DEF Moved
  <1>11. Moved
    <2>1. ASSUME NEW j \in Slots, SyncStep(j) \/ SyncFails(j) PROVE Moved
      BY <1>2, <1>3, <1>4, <1>5, <1>6, <1>7, <1>8, <2>1 DEF SyncStep
    <2>2. \/ \E j \in Slots : SyncStep(j) \/ SyncFails(j)
          \/ \E b \in BOOLEAN : Crash(b)
          \/ UNCHANGED job
      BY CallFrame
           DEF Next, vars, Emit, Push, LiveInsert, LiveInsertFails,
               PurgeWebhook
    <2>3. QED
      BY <1>9, <1>10, <2>1, <2>2
  <1>12. QED
    BY <1>11 DEF Moved

(* The offsets a job works from stay covered.                              *)
LEMMA JobsStep ==
  ASSUME IInv, TypeOK', [Next]_vars
  PROVE  JobsCovered'
  <1> SUFFICES ASSUME NEW i \in Slots PROVE JobCovered(i)'
    BY DEF JobsCovered
  <1>1. /\ Len(dataset) \in Nat /\ Len(dataset') \in Nat
        /\ job[i] \in JobType /\ job'[i] \in JobType
    BY LenProperties DEF IInv, TypeOK, DataType
  <1>2. ASSUME NEW n \in Nat, Covered(n), Keeps PROVE Covered(n)'
    BY <1>2, CoveredStays DEF IInv
  <1>3. ASSUME job'[i].at \in {"idle", "query"} PROVE JobCovered(i)'
    BY <1>3 DEF JobCovered, Reading
  <1>4. ASSUME Keeps, job'[i].at \in {"answered", "info", "data"},
               Covered(job'[i].next)
        PROVE  JobCovered(i)'
    <2>1. PICK n \in Nat : n = job'[i].next
      BY <1>1 DEF JobType
    <2>2. Covered(n)'
      BY <1>2, <1>4, <2>1
    <2>3. QED
      BY <1>4, <2>1, <2>2 DEF JobCovered
  <1>5. ASSUME Keeps, job'[i] = job[i] PROVE JobCovered(i)'
    <2>1. PICK n \in Nat, m \in Nat : n = job[i].next /\ m = job[i].next + job[i].got
      BY <1>1 DEF JobType
    <2>2. /\ job[i].at \in Reading => Covered(n)
          /\ job[i].at \in {"insert", "inserted"} => m <= Len(dataset)
          /\ job[i].at = "inserted" => Covered(m)
      BY <2>1 DEF IInv, JobsCovered, JobCovered
    <2>3. /\ job[i].at \in Reading => Covered(n)'
          /\ job[i].at = "inserted" => Covered(m)'
      BY <1>2, <1>5, <2>2
    <2>4. job[i].at \in {"insert", "inserted"} => m <= Len(dataset')
      BY <1>1, <1>5, <2>2 DEF Keeps
    <2>5. QED
      BY <1>5, <2>1, <2>3, <2>4 DEF JobCovered
  <1>6. Covered(MaxOffset + 1)
    <2>1. CASE MaxOffset = MissingOffset
      <3>1. MaxOffset + 1 = 0
        BY <2>1
      <3>2. Covered(0)
        BY <1>1 DEF Covered
      <3>3. QED
        BY <3>1, <3>2
    <2>2. CASE \E e \in rows : offset[e] # Null /\ MaxOffset = offset[e]
      BY <2>2 DEF IInv, RowsCovered
    <2>3. QED
      BY <2>1, <2>2, MaxOffsetCases DEF IInv
  <1>7. CASE Keeps
    <2>1. CASE job[i].at \in Reading /\ job'[i].at \in {"info", "data"}
               /\ job'[i].next = job[i].next
      BY <1>4, <1>7, <2>1 DEF IInv, JobsCovered, JobCovered
    <2>2. CASE cached # Null /\ job'[i].at = "info" /\ job'[i].next = cached + 1
      BY <1>4, <1>7, <2>2 DEF IInv, CacheCovered
    <2>3. CASE job'[i].at = "answered" /\ job'[i].next = MaxOffset + 1
      BY <1>4, <1>6, <1>7, <2>3
    <2>4. CASE FetchData(i) /\ job'[i].at = "insert"
      <3>1. PICK n \in Nat : n = job[i].next
        BY <1>1 DEF JobType
      <3>2. Covered(n)
        BY <2>4, <3>1 DEF FetchData, IInv, JobsCovered, JobCovered, Reading
      <3>3. job \in [Slots -> JobType]
        BY DEF IInv, TypeOK, DataType
      <3>4. /\ job'[i].next = n
            /\ job'[i].got = IF Len(dataset) - n < BatchSize
                             THEN Len(dataset) - n ELSE BatchSize
        BY <2>4, <3>1, <3>3 DEF FetchData, JobType
      <3>5. dataset' = dataset
        BY <2>4 DEF FetchData
      <3>6. n + job'[i].got <= Len(dataset')
        BY <1>1, <3>4, <3>5, ConstantsAssumption
      <3>7. Covered(n)'
        BY <1>2, <1>7, <3>2
      <3>8. QED
        BY <2>4, <3>4, <3>6, <3>7 DEF JobCovered
    <2>5. CASE InsertBatch(i)
      <3>1. PICK n \in Nat, m \in Nat : n = job[i].next /\ m = job[i].next + job[i].got
        BY <1>1 DEF JobType
      <3>2. /\ job'[i].at = "inserted" /\ job'[i].next = n
            /\ job'[i].next + job'[i].got = m
        BY <1>1, <2>5, <3>1 DEF InsertBatch, Resume, IInv, TypeOK, DataType, JobType
      <3>3. Covered(n)
        BY <2>5, <3>1 DEF InsertBatch, IInv, JobsCovered, JobCovered, Reading
      <3>4. Covered(n)' /\ Covered(m)'
        BY <1>2, <1>7, <2>5, <3>1, <3>3, BatchInserted
      <3>5. m <= Len(dataset')
        BY <3>4 DEF Covered
      <3>6. QED
        BY <3>2, <3>4, <3>5 DEF JobCovered
    <2>6. QED
      BY <1>3, <1>5, <1>7, <2>1, <2>2, <2>3, <2>4, <2>5, JobMoves
  <1>8. CASE Crash(FALSE)
    <2>1. job' = [j \in Slots |-> IdleJob]
      BY <1>8, Zenon DEF Crash
    <2>2. QED
      BY <1>3, <2>1
  <1>9. QED
    BY <1>7, <1>8, StepKeeps

LEMMA ListeningStep == ASSUME IInv, [Next]_vars PROVE Listening'
  <1>0. running \in BOOLEAN /\ listeners \in Nat /\ Listening
    BY DEF IInv, TypeOK, LifeType
  <1>1. CASE running' = FALSE
    BY <1>1 DEF Listening
  <1>2. CASE listeners' = listeners + 1
    BY <1>0, <1>2 DEF Listening
  <1>3. CASE UNCHANGED <<running, listeners>>
    BY <1>0, <1>3, Zenon DEF Listening
  <1>4. QED
    <2>1. CASE CallStep
      BY <1>1, <1>2, <1>3, <2>1
         DEF CallStep, LifeStep, Start, StopNothing, StopBegin, GoOn,
             LimiterStopped, LimiterStopFails, Disconnected, DisconnectFails,
             StartResumes
    <2>2. QED
      BY <1>1, <1>3, <2>1
         DEF Next, vars, Emit, Push, LiveInsert, LiveInsertFails, SyncStep,
             BeginSync, AnswerMax, CacheMax, ReadInfo, FetchData, InsertBatch,
             FinishSync, SyncFails, PurgeWebhook, Crash

(* The invariant is inductive, and holds in every reachable state.         *)
LEMMA NextIInv == IInv /\ [Next]_vars => IInv'
  BY TypeStep, NoTwiceStep, RowsStep, CacheStep, JobsStep, ListeningStep DEF IInv

LEMMA InvHolds == Spec => []IInv
  BY InitIInv, NextIInv, PTL DEF Spec

-----------------------------------------------------------------------------
(* Every variable keeps its type (the offsets a sync computes are never    *)
(* negative, a batch is never read beyond the end of the dataset).         *)
THEOREM TypeCorrect == Spec => []TypeOK
  <1>1. IInv => TypeOK
    BY DEF IInv
  <1>2. QED
    BY InvHolds, <1>1, PTL

(* No dataset item below the offset of the next sync is missing from the   *)
(* read model, whatever jobs overlap, fail, are stopped or crash.          *)
THEOREM NoGapHolds == Spec => []NoGap
  <1>1. IInv => NoGap
    <2> SUFFICES ASSUME IInv PROVE Covered(MaxOffset + 1)
      BY DEF IInv, CacheCovered, NoGap
    <2>1. CASE MaxOffset = MissingOffset
      <3>1. MaxOffset + 1 = 0 /\ Len(dataset) \in Nat
        BY <2>1, LenProperties DEF IInv, TypeOK, DataType
      <3>2. Covered(0)
        BY <3>1 DEF Covered
      <3>3. QED
        BY <3>1, <3>2
    <2>2. CASE \E e \in rows : offset[e] # Null /\ MaxOffset = offset[e]
      BY <2>2 DEF IInv, RowsCovered
    <2>3. QED
      BY <2>1, <2>2, MaxOffsetCases DEF IInv
  <1>2. QED
    BY InvHolds, <1>1, PTL

(* The source_offset of a row is the position of its event in the dataset. *)
THEOREM OffsetIsPositionHolds == Spec => []OffsetIsPosition
  <1>1. IInv => OffsetIsPosition
    BY DEF IInv
  <1>2. QED
    BY InvHolds, <1>1, PTL

(* A row that stays in the table keeps its source_offset.                  *)
THEOREM OffsetKeptHolds == Spec => OffsetKept
  <1> DEFINE Kept == \A e \in rows \cap rows' :
                       offset[e] # Null => offset'[e] = offset[e]
  <1>1. IInv /\ TypeOK' /\ [Next]_vars => [Kept]_vars
    <2> SUFFICES ASSUME IInv, TypeOK', [Next]_vars PROVE Kept
      OBVIOUS
    <2>1. CASE Keeps
      BY <2>1 DEF Keeps
    <2>2. CASE Crash(FALSE)
      BY <2>2 DEF Crash
    <2>3. QED
      BY <2>1, <2>2, StepKeeps
  <1>2. QED
    BY InvHolds, <1>1, TypeCorrect, PTL DEF OffsetKept, Spec

-----------------------------------------------------------------------------
(* start() and stop(), however they overlap.  A call goes on to disconnect *)
(* only after its limiter has closed; the limiter of a stop promise is not *)
(* open; start() numbers limiters upwards; a limiter that does not exist or*)
(* is closed holds no job, and one being stopped has dropped its queue.    *)
CallsFollow ==
  /\ \A c \in Callers :
       /\ call[c].at \in {"disconnect", "stopped"} => phase[call[c].of] = "closed"
       /\ call[c].at = "stop" => phase[call[c].of] \in {"draining", "closed"}
       /\ call[c].at # "idle" => call[c].of \in Limiters
  /\ stopPromise # Null => phase[stopPromise] \in {"draining", "closed"}
  /\ limiter # Null => phase[limiter] # "none"
  /\ \A g \in Limiters : g > starts => phase[g] = "none"
QuietLimiter(g) ==
  /\ phase[g] # "open" => queued[g] = 0
  /\ phase[g] \in {"none", "closed"} => \A i \in Jobs : job[<<g, i>>].at = "idle"
Quiet == \A g \in Limiters : QuietLimiter(g)
CanSync == running => Accepting \/ \E g \in Lost : phase[g] = "open"
LifeInv == CallsFollow /\ Quiet /\ CanSync

LEMMA CallsFollowStep ==
  ASSUME TypeOK, LifeInv, [Next]_vars
  PROVE  CallsFollow'
  <1> USE DEF LifeInv, CallsFollow, TypeOK, LifeType, CallType
  <1>0. Null \notin Limiters
    BY ConstantsAssumption DEF Limiters
  <1>00. starts \in Nat /\ \A g \in Limiters : g \in Nat
    BY DEF BoundType, Limiters
  <1>1. ASSUME GoOn,
               \A c \in Callers : call'[c] = call[c] \/ call'[c] = IdleCall
        PROVE  CallsFollow'
    <2>1. /\ starts + 1 \in Limiters /\ limiter' = starts + 1
          /\ stopPromise' = Null /\ phase'[starts + 1] = "open"
          /\ \A g \in Limiters : g # starts + 1 => phase'[g] = phase[g]
      BY <1>1, NewLimiter DEF GoOn
    <2>2. ASSUME NEW c \in Callers, call[c].at # "idle"
          PROVE  call[c].of # starts + 1
      <3>1. call[c].of \in Limiters /\ phase[call[c].of] # "none"
        BY <2>2
      <3>2. QED
        BY <1>00, <2>1, <3>1 DEF Limiters
    <2>3. ASSUME NEW c \in Callers, call'[c].at # "idle"
          PROVE  call'[c] = call[c] /\ call[c].of \in Limiters
                 /\ phase'[call[c].of] = phase[call[c].of]
      <3>1. call'[c] = call[c]
        BY <1>1, <2>3 DEF IdleCall
      <3>2. QED
        BY <3>1, <2>1, <2>2, <2>3
    <2>4. starts' = starts + 1
      BY <1>1 DEF GoOn
    <2>5. QED
      BY <1>00, <2>1, <2>3, <2>4 DEF Limiters
  <1>2. CASE Start
    BY <1>1, <1>2 DEF Start
  <1>3. CASE StopNothing
    BY <1>3 DEF StopNothing
  <1>4. ASSUME NEW c \in Callers, NEW b \in BOOLEAN, StopBegin(c, b)
        PROVE  CallsFollow'
    <2>1. limiter \in Limiters /\ limiter # Null /\ limiter' = limiter
      BY <1>4 DEF StopBegin
    <2>2. /\ phase'[limiter] \in {"draining", "closed"}
          /\ \A g \in Limiters : phase'[g] = phase[g] \/ g = limiter
          /\ stopPromise' = limiter
      BY <1>4, <2>1 DEF StopBegin
    <2>3. call'[c] = [at |-> "stop", of |-> limiter, byStart |-> b]
          /\ \A d \in Callers : d # c => call'[d] = call[d]
      BY <1>4 DEF StopBegin
    <2>4. phase[limiter] = "closed" => phase'[limiter] = "closed"
      BY <1>4, <2>1 DEF StopBegin
    <2>5. \A g \in Limiters : g > starts' => phase'[g] = "none"
      <3>1. starts' = starts /\ ~(limiter > starts)
        BY <1>4, <2>1 DEF StopBegin
      <3>2. QED
        BY <2>2, <3>1
    <2>6. QED
      BY <2>1, <2>2, <2>3, <2>4, <2>5
  <1>5. ASSUME NEW c \in Callers, Disconnected(c) PROVE CallsFollow'
    BY <1>5 DEF Disconnected, IdleCall
  <1>6. ASSUME NEW c \in Callers, StartResumes(c) PROVE CallsFollow'
    BY <1>1, <1>6 DEF StartResumes
  <1>7. ASSUME NEW c \in Callers, DisconnectFails(c) PROVE CallsFollow'
    BY <1>7 DEF DisconnectFails, IdleCall
  <1>8. ASSUME NEW g \in Limiters, LimiterStopped(g) PROVE CallsFollow'
    <2>1. phase[g] # "none"
      BY <1>8 DEF LimiterStopped, WaitingFor
    <2>2. /\ phase'[g] = "closed" /\ starts' = starts
          /\ \A h \in Limiters : h # g => phase'[h] = phase[h]
          /\ UNCHANGED <<limiter, stopPromise>>
      BY <1>8 DEF LimiterStopped
    <2>3. ASSUME NEW c \in Callers
          PROVE  \/ call'[c] = call[c] /\ (call[c].at = "stop" => call[c].of # g)
                 \/ /\ call[c].at = "stop" /\ call[c].of = g
                    /\ call'[c].at = "disconnect" /\ call'[c].of = g
      BY <1>8 DEF LimiterStopped, AllMove, WaitingFor
    <2>4. QED
      BY <2>1, <2>2, <2>3
  <1>9. ASSUME NEW g \in Limiters, LimiterStopFails(g) PROVE CallsFollow'
    BY <1>9 DEF LimiterStopFails, WaitingFor, IdleCall
  <1>10. ASSUME NEW b \in BOOLEAN, Crash(b) PROVE CallsFollow'
    BY <1>10 DEF Crash, IdleCall
  <1>11. CASE UNCHANGED <<lifeVars, starts>>
    BY <1>11
  <1>12. QED
    BY <1>2, <1>3, <1>4, <1>5, <1>6, <1>7, <1>8, <1>9, <1>10, <1>11, LifeFrame
       DEF CallStep, LifeStep

LEMMA QuietStep ==
  ASSUME TypeOK, TypeOK', LifeInv, [Next]_vars, NEW g \in Limiters
  PROVE  QuietLimiter(g)'
  <1> USE DEF LifeInv, Quiet, QuietLimiter, TypeOK, LifeType, DataType, Slots
  <1>0. Null \notin Limiters
    BY ConstantsAssumption DEF Limiters
  <1>1. ASSUME UNCHANGED <<phase, queued, job>> PROVE QuietLimiter(g)'
    <2>1. QuietLimiter(g)
      OBVIOUS
    <2>2. QED
      BY <1>1, <2>1, Zenon
  <1>2. ASSUME phase' = phase, Trigger, job' = job PROVE QuietLimiter(g)'
    <2>1. phase[g] # "open" => queued'[g] = queued[g]
      BY <1>2 DEF Trigger, Accepting
    <2>2. QED
      BY <1>2, <2>1
  <1>3. ASSUME NEW j \in Slots, phase' = phase,
               phase[j[1]] \notin {"none", "closed"},
               \A h \in Limiters : queued'[h] = queued[h] \/ phase[h] = "open",
               \A i \in Slots : i # j => job'[i] = job[i]
        PROVE  QuietLimiter(g)'
    <2>1. phase'[g] # "open" => queued'[g] = 0
      BY <1>3
    <2>2. ASSUME phase'[g] \in {"none", "closed"}, NEW i \in Jobs
          PROVE  job'[<<g, i>>].at = "idle"
      <3>1. <<g, i>> # j /\ <<g, i>> \in Slots
        <4>1. <<g, i>>[1] = g /\ g # j[1]
          BY <1>3, <2>2
        <4>2. <<g, i>> # j
          BY <4>1, Zenon
        <4>3. QED
          BY <4>2 DEF Slots
      <3>2. job'[<<g, i>>] = job[<<g, i>>]
        BY <1>3, <3>1
      <3>3. job[<<g, i>>].at = "idle"
        BY <1>3, <2>2
      <3>4. QED
        BY <3>2, <3>3, Zenon
    <2>3. QED
      BY <2>1, <2>2
  <1>4. ASSUME NEW e \in Events, LiveInsert(e) PROVE QuietLimiter(g)'
    BY <1>2, <1>4 DEF LiveInsert
  <1>5. ASSUME NEW j \in Slots, SyncStep(j) \/ SyncFails(j)
        PROVE  QuietLimiter(g)'
    <2>1. phase' = phase
      BY <1>5 DEF SyncStep, BeginSync, AnswerMax, CacheMax, ReadInfo, FetchData,
                  InsertBatch, FinishSync, SyncFails
    <2>2. phase[j[1]] \notin {"none", "closed"}
      <3>1. j[1] \in Limiters /\ j[2] \in Jobs /\ j = <<j[1], j[2]>>
        OBVIOUS
      <3>2. phase[j[1]] = "open" \/ job[j].at # "idle"
        BY <1>5 DEF SyncStep, BeginSync, AnswerMax, CacheMax, ReadInfo,
                    FetchData, InsertBatch, FinishSync, SyncFails
      <3>3. QED
        BY <3>1, <3>2
    <2>3. \A h \in Limiters : queued'[h] = queued[h] \/ phase[h] = "open"
      BY <1>5 DEF SyncStep, BeginSync, AnswerMax, CacheMax, ReadInfo, FetchData,
                  InsertBatch, FinishSync, SyncFails, Trigger, Accepting
    <2>4. \A i \in Slots : i # j => job'[i] = job[i]
      BY <1>5 DEF SyncStep, BeginSync, AnswerMax, CacheMax, ReadInfo, FetchData,
                  InsertBatch, FinishSync, SyncFails, Resume, ResumeIf, Return
    <2>5. QED
      BY <1>3, <2>1, <2>2, <2>3, <2>4
  <1>6. ASSUME GoOn, job' = job PROVE QuietLimiter(g)'
    BY <1>6, NewLimiter DEF GoOn
  <1>7. ASSUME NEW c \in Callers, NEW b \in BOOLEAN, StopBegin(c, b)
        PROVE  QuietLimiter(g)'
    <2>1. limiter \in Limiters /\ phase[limiter] # "none"
      BY <1>7 DEF StopBegin, CallsFollow
    <2>2. job' = job
      BY <1>7 DEF StopBegin
    <2>3. CASE stopPromise = Null
      <3>1. /\ \E p \in {"draining", phase[limiter]} : phase' = [phase EXCEPT ![limiter] = p]
            /\ queued' = [queued EXCEPT ![limiter] = 0]
        BY <1>7, <2>3 DEF StopBegin
      <3>2. /\ g = limiter => phase'[g] \in {"draining", phase[g]} /\ queued'[g] = 0
            /\ g # limiter => phase'[g] = phase[g] /\ queued'[g] = queued[g]
        BY <3>1
      <3>3. QED
        BY <2>1, <2>2, <3>2
    <2>4. CASE stopPromise # Null
      <3>1. UNCHANGED <<phase, queued>>
        BY <1>7, <2>4 DEF StopBegin
      <3>2. QED
        BY <2>2, <3>1
    <2>5. QED
      BY <2>3, <2>4
  <1>8. ASSUME NEW h \in Limiters, LimiterStopped(h) PROVE QuietLimiter(g)'
    <2>1. phase[h] # "open"
      <3>1. PICK c \in Callers : call[c].at = "stop" /\ call[c].of = h
        BY <1>8, Zenon DEF LimiterStopped, WaitingFor
      <3>2. CallsFollow
        BY DEF LifeInv
      <3>3. QED
        BY <3>1, <3>2 DEF CallsFollow
    <2>2. \A i \in Jobs : job[<<h, i>>].at = "idle"
      BY <1>8 DEF LimiterStopped, Executing
    <2>3. QED
      BY <1>8, <2>1, <2>2 DEF LimiterStopped
  <1>9. ASSUME NEW b \in BOOLEAN, Crash(b) PROVE QuietLimiter(g)'
    <2>1. queued' = [h \in Limiters |-> 0] /\ job' = [s \in Slots |-> IdleJob]
      BY <1>9, Zenon DEF Crash
    <2>2. QED
      BY <2>1
  <1> HIDE DEF LifeInv, Quiet, QuietLimiter, TypeOK, LifeType, DataType, Slots
  <1>10. QED
    <2>1. CASE CallStep
      BY <1>1, <1>6, <1>7, <1>8, <2>1, CallFrame
         DEF CallStep, LifeStep, Start, StopNothing, Disconnected, StartResumes,
             DisconnectFails, LimiterStopFails
    <2>2. QED
      BY <1>1, <1>4, <1>5, <1>9, <2>1
         DEF Next, vars, Emit, Push, LiveInsertFails, PurgeWebhook

(* A running service loses its limiter only while another one is open that *)
(* nothing names any more.                                                 *)
LEMMA CanSyncStep ==
  ASSUME TypeOK, TypeOK', LifeInv, [Next]_vars
  PROVE  CanSync'
  <1> USE DEF LifeInv, CanSync, TypeOK, LifeType, Lost, Accepting
  <1>0. Null \notin Limiters
    BY ConstantsAssumption DEF Limiters
  <1>1. CASE running' = FALSE
    BY <1>1
  <1>2. CASE GoOn
    BY <1>2, NewLimiter DEF GoOn
  <1>3. CASE UNCHANGED <<running, limiter, phase>>
    BY <1>3
  <1>4. ASSUME NEW c \in Callers, Disconnected(c) PROVE CanSync'
    BY <1>0, <1>4 DEF Disconnected
  <1>5. ASSUME NEW g \in Limiters, LimiterStopped(g) PROVE CanSync'
    <2>1. phase[g] # "open"
      BY <1>5 DEF LimiterStopped, WaitingFor, CallsFollow
    <2>2. \A h \in Limiters : phase[h] = "open" => phase'[h] = "open"
      BY <1>5, <2>1 DEF LimiterStopped
    <2>3. QED
      BY <1>0, <1>5, <2>2 DEF LimiterStopped
  <1> HIDE DEF LifeInv, CanSync, TypeOK, LifeType, Lost, Accepting
  <1>6. QED
    BY <1>1, <1>2, <1>3, <1>4, <1>5, LifeFrame
       DEF CallStep, LifeStep, Start, StopNothing, StopBegin, StartResumes,
           DisconnectFails, LimiterStopFails, Crash

LEMMA LifeInvHolds == Spec => []LifeInv
  <1>1. Init => LifeInv
    BY DEF Init, LifeInv, CallsFollow, Quiet, QuietLimiter, CanSync, IdleCall,
           Slots
  <1>2. TypeOK /\ TypeOK' /\ LifeInv /\ [Next]_vars => LifeInv'
    BY CallsFollowStep, QuietStep, CanSyncStep DEF LifeInv, Quiet
  <1>3. QED
    BY <1>1, <1>2, TypeCorrect, PTL DEF Spec

(* When limiter.stop() has resolved, no job of that limiter executes or    *)
(* waits, and a call goes on to disconnect and return only then.           *)
THEOREM QuietAfterStopHolds == Spec => []QuietAfterStop
  <1>1. LifeInv => QuietAfterStop
    BY DEF LifeInv, Quiet, QuietLimiter, CallsFollow, QuietAfterStop, Executing
  <1>2. QED
    BY LifeInvHolds, <1>1, PTL

(* A limiter that is not closed stops being #limiter only in a step of a   *)
(* call that was suspended in the stop of another, closed limiter.         *)
LEMMA LimiterKept ==
  ASSUME TypeOK, LifeInv, [Next]_vars, NEW g \in Lost' \ Lost
  PROVE  \E c \in Callers :
           call[c].at \in {"disconnect", "stopped"} /\ call[c].of # g
  <1> USE DEF LifeInv, CallsFollow, TypeOK, LifeType
  <1>0. g \in Limiters /\ phase'[g] \in {"open", "draining"} /\ g # limiter'
        /\ (phase[g] \in {"open", "draining"} => g = limiter)
    BY DEF Lost
  <1>1. ASSUME NEW c \in Callers, Disconnected(c)
        PROVE  call[c].at \in {"disconnect", "stopped"} /\ call[c].of # g
    BY <1>0, <1>1 DEF Disconnected
  <1>2. ASSUME NEW c \in Callers, StartResumes(c)
        PROVE  call[c].at \in {"disconnect", "stopped"} /\ call[c].of # g
    BY <1>0, <1>2 DEF StartResumes, GoOn
  <1>3. ~Start
    BY <1>0, NewLimiter, ConstantsAssumption DEF Start, GoOn, Limiters
  <1>4. ASSUME NEW c \in Callers, NEW b \in BOOLEAN, StopBegin(c, b) PROVE FALSE
    <2>1. limiter \in Limiters /\ phase[limiter] # "none" /\ limiter' = limiter
      BY <1>4 DEF StopBegin
    <2>2. \A h \in Limiters : h # limiter => phase'[h] = phase[h]
      BY <1>4 DEF StopBegin
    <2>3. QED
      BY <1>0, <2>1, <2>2
  <1>5. ASSUME NEW h \in Limiters, LimiterStopped(h) PROVE FALSE
    BY <1>0, <1>5 DEF LimiterStopped
  <1>6. ASSUME NEW b \in BOOLEAN, Crash(b) PROVE FALSE
    BY <1>0, <1>6 DEF Crash
  <1>7. CASE UNCHANGED <<limiter, phase>>
    BY <1>0, <1>7
  <1> HIDE DEF LifeInv, CallsFollow, TypeOK, LifeType
  <1>8. QED
    BY <1>1, <1>2, <1>3, <1>4, <1>5, <1>6, <1>7, LifeFrame
       DEF CallStep, LifeStep, StopNothing, DisconnectFails, LimiterStopFails

(* A running service has a limiter that accepts jobs, whatever starts,     *)
(* stops and failed stops came before, unless a limiter was lost; and only *)
(* a call suspended all along in the stop of another limiter loses one.    *)
THEOREM RunningCanSyncHolds == Spec => RunningCanSync
  <1> DEFINE Kept == \A g \in Lost' \ Lost : \E c \in Callers :
                       call[c].at \in {"disconnect", "stopped"} /\ call[c].of # g
  <1>1. LifeInv => (running => Accepting \/ \E g \in Lost : phase[g] = "open")
    BY DEF LifeInv, CanSync
  <1>2. TypeOK /\ LifeInv /\ [Next]_vars => [Kept]_vars
    BY LimiterKept
  <1>3. QED
    BY <1>1, <1>2, LifeInvHolds, TypeCorrect, PTL DEF Spec, RunningCanSync

-----------------------------------------------------------------------------
(* The refinement: every step of the service is a step of the abstract     *)
(* mirror, or leaves it alone.                                             *)
LEMMA MirrorStep ==
  ASSUME IInv, TypeOK', [Next]_vars
  PROVE  [Mirror!MirrorNext]_(Mirror!mirrorVars)
  <1> DEFINE Mapped == Mirror!MirrorNext \/ UNCHANGED Mirror!mirrorVars
  <1> USE DEF Mirror!mirrorVars
  <1>0. rows \subseteq Events /\ rows' \subseteq Events
        /\ offset \in [Events -> Nat \cup {Null}]
        /\ offset' \in [Events -> Nat \cup {Null}]
    BY DEF IInv, TypeOK, DataType
  <1>1. ASSUME UNCHANGED <<dataset, rows, offset, purged>> PROVE Mapped
    BY <1>1 DEF Placed
  <1>2. ASSUME NEW e \in Events, Push(e) PROVE Mapped
    <2>1. Mirror!LogAppend(e)
      BY <1>2 DEF Push, Placed, Mirror!LogAppend
    <2>2. QED
      BY <2>1 DEF Mirror!MirrorNext
  <1>3. ASSUME NEW e \in Events, LiveInsert(e) PROVE Mapped
    <2>1. Placed' = Placed
      BY <1>0, <1>3 DEF LiveInsert, Placed
    <2>2. Mirror!ShowEarly(e)
      BY <1>3, <2>1 DEF LiveInsert, Mirror!ShowEarly
    <2>3. QED
      BY <2>2 DEF Mirror!MirrorNext
  <1>4. ASSUME NEW j \in Slots, InsertBatch(j) PROVE Mapped
    <2>1. PICK n \in Nat, m \in Nat : n = job[j].next /\ m = job[j].next + job[j].got
      <3>1. job[j] \in JobType
        BY DEF IInv, TypeOK, DataType
      <3>2. QED
        BY <3>1 DEF JobType
    <2>2. Covered(n) /\ m <= Len(dataset) /\ Len(dataset) \in Nat
      <3>1. Len(dataset) \in Nat
        BY LenProperties DEF IInv, TypeOK, DataType
      <3>2. JobCovered(j) /\ job[j].at = "insert"
        BY <1>4 DEF InsertBatch, IInv, JobsCovered
      <3>3. QED
        BY <2>1, <3>1, <3>2 DEF JobCovered, Reading
    <2>3. Keeps
      <3>1. job'[j].at = "inserted"
        BY <1>4 DEF InsertBatch, Resume, IInv, TypeOK, DataType, JobType
      <3>2. Crash(FALSE) => job'[j].at = "idle"
        BY DEF Crash
      <3>3. QED
        BY <3>1, <3>2, StepKeeps
    <2>4. Batch(j) = {dataset[k] : k \in n + 1 .. m}
      BY <2>1 DEF Batch
    <2>5. \A e \in Batch(j) : e \in Events /\ offset'[e] # Null
      <3>1. \A e \in Batch(j) : offset'[e] \in Nat
        BY <1>4, <2>1, <2>3, BatchInserted
      <3>2. Batch(j) \subseteq rows'
        BY <1>4 DEF InsertBatch
      <3>3. QED
        BY <1>0, <3>1, <3>2, ConstantsAssumption
    <2>6. \A e \in Events \ Batch(j) : offset'[e] = offset[e]
      BY <1>4 DEF InsertBatch
    <2>7. rows' = rows \cup Batch(j) /\ dataset' = dataset /\ purged' = purged
      BY <1>4 DEF InsertBatch
    <2>8. \A e \in rows : offset[e] # Null => offset'[e] # Null
      BY <2>3, <2>7 DEF Keeps
    <2>9. Placed' = Placed \cup Batch(j)
      BY <1>0, <2>5, <2>6, <2>7, <2>8 DEF Placed
    <2>10. CASE n = m
      <3>1. Batch(j) = {}
        BY <2>4, <2>10
      <3>2. QED
        BY <3>1, <2>7, <2>9
    <2>11. CASE n < m
      <3>1. n + 1 \in 1..Len(dataset) /\ m \in 1..Len(dataset)
        BY <2>2, <2>11
      <3>2. \A k \in 1 .. (n + 1) - 1 : dataset[k] \in Placed \cup purged
        BY <2>2, ConstantsAssumption DEF Covered, Mirrored, Placed
      <3>3. Mirror!TakeIn(n + 1, m)
        BY <2>4, <2>7, <2>9, <3>2 DEF Mirror!TakeIn, Mirror!TakenUpTo
      <3>4. QED
        BY <3>1, <3>3 DEF Mirror!MirrorNext
    <2>12. n <= m
      BY <2>1 DEF IInv, TypeOK, DataType, JobType
    <2>13. QED
      BY <2>10, <2>11, <2>12
  <1>5. ASSUME NEW w \in Webhooks, PurgeWebhook(w) PROVE Mapped
    <2> DEFINE doomed == {e \in rows : WebhookOf[e] = w}
    <2>1. /\ rows' = rows \ doomed /\ purged' = purged \cup doomed
          /\ dataset' = dataset
          /\ \A e \in Events \ doomed : offset'[e] = offset[e]
      BY <1>5 DEF PurgeWebhook
    <2>2. Placed' = Placed \ doomed
      BY <1>0, <2>1 DEF Placed
    <2>3. Mirror!Forget(doomed)
      BY <2>1, <2>2 DEF Mirror!Forget
    <2>4. QED
      BY <2>3 DEF Mirror!MirrorNext
  <1>6. ASSUME NEW b \in BOOLEAN, Crash(b) PROVE Mapped
    <2>1. CASE b
      BY <1>1, <1>6, <2>1 DEF Crash
    <2>2. CASE ~b
      <3>1. rows' = {} /\ dataset' = dataset /\ purged' = purged
        BY <1>6, <2>2 DEF Crash
      <3>2. Mirror!Lose
        BY <3>1 DEF Mirror!Lose, Placed
      <3>3. QED
        BY <3>2 DEF Mirror!MirrorNext
    <2>3. QED
      BY <2>1, <2>2
  <1> HIDE DEF Mapped
  <1>7. Mapped
    <2>1. ASSUME NEW j \in Slots, SyncStep(j) \/ SyncFails(j) PROVE Mapped
      BY <1>1, <1>4, <2>1
         DEF SyncStep, BeginSync, AnswerMax, CacheMax, ReadInfo, FetchData,
             FinishSync, SyncFails
    <2>2. ASSUME \/ CallStep \/ UNCHANGED vars
                 \/ \E e \in Events : Emit(e) \/ LiveInsertFails(e)
          PROVE  Mapped
      BY <1>1, <2>2, CallFrame DEF vars, Emit, LiveInsertFails
    <2>3. QED
      BY <1>2, <1>3, <1>5, <1>6, <2>1, <2>2 DEF Next
  <1>8. QED
    BY <1>7 DEF Mapped

(* SyncService implements the disposable mirror of the dataset.            *)
THEOREM Refinement == Spec => ImplementsMirror
  <1>1. Init => Mirror!MirrorInit
    BY DEF Init, Mirror!MirrorInit, Placed
  <1>2. IInv /\ TypeOK' /\ [Next]_vars => [Mirror!MirrorNext]_(Mirror!mirrorVars)
    BY MirrorStep
  <1>3. QED
    BY <1>1, <1>2, InvHolds, TypeCorrect, PTL
       DEF Spec, ImplementsMirror, Mirror!MirrorSpec

-----------------------------------------------------------------------------
(* What remains of "purged logs stay away" (PurgedByCleanupStayPurged does *)
(* not hold): a purged item is passed over when no insert of it is in      *)
(* flight, some row of the table comes after it in the dataset, and every  *)
(* offset that a sync already works from is beyond it.                     *)
Followed(k) == \E r \in rows : offset[r] # Null /\ k <= offset[r]
PassedOver(k) ==
  /\ dataset[k] \in purged \ rows /\ live[dataset[k]] = 0
  /\ Followed(k)
  /\ cached # Null => k <= cached + 1
  /\ \A j \in Slots : job[j].at \in Reading => k <= job[j].next

(* It is not put back, and it stays passed over until the rows after it    *)
(* are gone too, by a cleanup or with the database: a sync resumes after   *)
(* MAX(source_offset), which no failure, restart or stop takes back.       *)
PassedOverStaysAway ==
  [][\A k \in 1..Len(dataset) : PassedOver(k) =>
       dataset[k] \notin rows' /\ (Followed(k)' => PassedOver(k)')]_vars

(* An event is pushed after it was emitted, and is never emitted again.    *)
PushedIsEmitted == \A k \in 1..Len(dataset) : dataset[k] \in emitted

LEMMA PushedIsEmittedAlways == Spec => []PushedIsEmitted
  <1>1. Init => PushedIsEmitted
    BY EmptySeq DEF Init, PushedIsEmitted
  <1>2. PushedIsEmitted /\ TypeOK /\ [Next]_vars => PushedIsEmitted'
    <2> SUFFICES ASSUME PushedIsEmitted, TypeOK, [Next]_vars PROVE PushedIsEmitted'
      OBVIOUS
    <2>1. CASE \E e \in Events : Push(e)
      BY <2>1, AppendProperties, LenProperties DEF Push, PushedIsEmitted, TypeOK, DataType
    <2>2. ASSUME dataset' = dataset, emitted \subseteq emitted'
          PROVE  PushedIsEmitted'
      BY <2>2 DEF PushedIsEmitted
    <2>3. QED
      BY <2>1, <2>2, CallFrame
           DEF Next, vars, Emit, LiveInsert, LiveInsertFails, SyncStep,
               BeginSync, AnswerMax, CacheMax, ReadInfo, FetchData,
               InsertBatch, FinishSync, SyncFails, PurgeWebhook, Crash
  <1>3. QED
    BY <1>1, <1>2, TypeCorrect, PTL DEF Spec

(* No row has an offset beyond the one that a sync resumes after.          *)
LEMMA MaxOffsetBounds ==
  ASSUME TypeOK, OffsetIsPosition, NEW e \in rows, offset[e] # Null
  PROVE  offset[e] <= MaxOffset
  <1> DEFINE offsets == {offset[r] : r \in {f \in rows : offset[f] # Null}}
  <1>1. Len(dataset) \in Nat /\ offsets \subseteq 0..Len(dataset)
    BY ConstantsAssumption, LenProperties DEF TypeOK, DataType, OffsetIsPosition
  <1>2. offset[e] \in offsets
    OBVIOUS
  <1>3. \E m \in offsets : \A o \in offsets : o <= m
    BY <1>1, <1>2, GreatestExists
  <1>4. \A o \in offsets : o <= MaxOffset
    BY <1>2, <1>3 DEF MaxOffset
  <1>5. QED
    BY <1>2, <1>4

(* The steps that bring rows in do not bring a passed-over item.           *)
LEMMA NotPutBack ==
  ASSUME IInv, [Next]_vars, NEW k \in 1..Len(dataset), PassedOver(k)
  PROVE  dataset[k] \notin rows'
  <1>1. dataset[k] \notin rows /\ live[dataset[k]] = 0
    BY DEF PassedOver
  <1>2. ASSUME NEW e \in Events, LiveInsert(e) PROVE dataset[k] \notin rows'
    BY <1>1, <1>2 DEF LiveInsert
  <1>3. ASSUME NEW j \in Slots, InsertBatch(j) PROVE dataset[k] \notin rows'
    <2>1. /\ job[j].next \in Nat /\ job[j].got \in Nat /\ Len(dataset) \in Nat
          /\ job[j].next + job[j].got <= Len(dataset) /\ k <= job[j].next
      BY <1>3, LenProperties
         DEF InsertBatch, IInv, TypeOK, DataType, JobType, JobsCovered, JobCovered,
             PassedOver, Reading
    <2>2. \A i \in job[j].next + 1 .. job[j].next + job[j].got :
            i \in 1..Len(dataset) /\ i # k
      BY <2>1
    <2>3. dataset[k] \notin Batch(j)
      BY <2>2 DEF Batch, IInv, NoTwice
    <2>4. QED
      BY <1>1, <1>3, <2>3 DEF InsertBatch
  <1>4. ASSUME rows' \subseteq rows PROVE dataset[k] \notin rows'
    BY <1>1, <1>4
  <1>5. QED
    <2>1. ASSUME NEW w \in Webhooks, PurgeWebhook(w) PROVE rows' \subseteq rows
      BY <2>1 DEF PurgeWebhook
    <2>2. ASSUME NEW b \in BOOLEAN, Crash(b) PROVE rows' \subseteq rows
      BY <2>2 DEF Crash
    <2>3. \/ \E e \in Events : LiveInsert(e)
          \/ \E j \in Slots : InsertBatch(j)
          \/ \E w \in Webhooks : PurgeWebhook(w)
          \/ \E b \in BOOLEAN : Crash(b)
          \/ UNCHANGED rows
      BY CallFrame
           DEF Next, vars, Emit, Push, LiveInsertFails, SyncStep, BeginSync,
               AnswerMax, CacheMax, ReadInfo, FetchData, FinishSync, SyncFails
    <2>4. QED
      BY <1>2, <1>3, <1>4, <2>1, <2>2, <2>3

(* The offset that the next sync would start from stays beyond it, whether *)
(* it is cached, or lost and read again.                                   *)
LEMMA CacheStaysBeyond ==
  ASSUME IInv, TypeOK', [Next]_vars, NEW k \in 1..Len(dataset), PassedOver(k),
         cached' # Null
  PROVE  k <= cached' + 1
  <1>1. k \in Nat /\ cached \in Nat \cup {MissingOffset, Null}
    BY DEF IInv, TypeOK, DataType
  <1>2. ASSUME NEW j \in Slots, CacheMax(j) PROVE k <= cached' + 1
    <2>1. job[j].next \in Nat /\ k <= job[j].next /\ cached' = job[j].next - 1
      BY <1>2 DEF CacheMax, PassedOver, Reading, IInv, TypeOK, DataType, JobType
    <2>2. QED
      BY <1>1, <2>1
  <1>3. ASSUME NEW j \in Slots, FinishSync(j), cached' # cached
        PROVE  k <= cached' + 1
    <2>1. job[j].next \in Nat /\ job[j].got \in Nat /\ k <= job[j].next
      BY <1>3 DEF FinishSync, PassedOver, Reading, IInv, TypeOK, DataType, JobType
    <2>2. cached' = job[j].next + job[j].got - 1
      BY <1>3, Zenon DEF FinishSync
    <2>3. QED
      BY <1>1, <2>1, <2>2
  <1>4. CASE cached' = cached
    BY <1>4 DEF PassedOver
  <1>5. QED
    <2>1. \/ cached' = Null \/ cached' = cached
          \/ \E j \in Slots : CacheMax(j) \/ FinishSync(j)
      BY CallFrame
           DEF Next, vars, Emit, Push, LiveInsert, LiveInsertFails, SyncStep,
               BeginSync, AnswerMax, ReadInfo, FetchData, InsertBatch,
               SyncFails, PurgeWebhook, Crash
    <2>2. QED
      BY <1>2, <1>3, <1>4, <2>1

LEMMA JobsStayBeyond ==
  ASSUME IInv, TypeOK', [Next]_vars, NEW k \in 1..Len(dataset), PassedOver(k),
         NEW i \in Slots, job'[i].at \in Reading
  PROVE  k <= job'[i].next
  <1>1. /\ k \in Nat /\ job \in [Slots -> JobType] /\ job[i] \in JobType
        /\ cached \in Nat \cup {MissingOffset, Null}
    BY DEF IInv, TypeOK, DataType
  <1>2. job[i].at \in Reading => k <= job[i].next
    BY DEF PassedOver
  <1>3. CASE job'[i].at = "answered" /\ job'[i].next = MaxOffset + 1
    <2>1. PICK r \in rows : offset[r] # Null /\ k <= offset[r]
      BY DEF PassedOver, Followed
    <2>2. offset[r] <= MaxOffset /\ MaxOffset \in Int /\ offset[r] \in Nat
      <3>1. TypeOK /\ OffsetIsPosition
        BY DEF IInv
      <3>2. MaxOffset \in Int /\ offset[r] <= MaxOffset
        BY <2>1, <3>1, MaxOffsetBounds, MaxOffsetType
      <3>3. offset[r] \in Nat
        BY <2>1, <3>1 DEF TypeOK, DataType
      <3>4. QED
        BY <3>2, <3>3
    <2>3. QED
      BY <1>1, <1>3, <2>1, <2>2
  <1>4. CASE FetchData(i) /\ job'[i].at = "insert"
    <2>1. job'[i].next = job[i].next
      BY <1>1, <1>4 DEF FetchData, JobType
    <2>2. job[i].at = "data"
      BY <1>4 DEF FetchData
    <2>3. QED
      BY <1>2, <2>1, <2>2 DEF Reading
  <1>5. CASE InsertBatch(i)
    <2>1. job'[i].next = job[i].next
      BY <1>1, <1>5 DEF InsertBatch, Resume, JobType
    <2>2. job[i].at = "insert"
      BY <1>5 DEF InsertBatch
    <2>3. QED
      BY <1>2, <2>1, <2>2 DEF Reading
  <1>6. CASE cached # Null /\ job'[i].at = "info" /\ job'[i].next = cached + 1
    BY <1>6 DEF PassedOver
  <1>7. CASE job'[i] = job[i]
    BY <1>2, <1>7
  <1>8. CASE job'[i].at \in {"idle", "query"}
    BY <1>8 DEF Reading
  <1>9. CASE /\ job[i].at \in Reading /\ job'[i].at \in {"info", "data"}
             /\ job'[i].next = job[i].next
    BY <1>2, <1>9
  <1>10. QED
    BY <1>3, <1>4, <1>5, <1>6, <1>7, <1>8, <1>9, JobMoves

(* A purged item that the syncs have passed over returns only after the    *)
(* rows that follow it in the dataset have gone as well.                   *)
THEOREM PassedOverStaysAwayHolds == Spec => PassedOverStaysAway
  <1> DEFINE Stays == \A k \in 1..Len(dataset) : PassedOver(k) =>
                        dataset[k] \notin rows' /\ (Followed(k)' => PassedOver(k)')
  <1>1. IInv /\ PushedIsEmitted /\ TypeOK' /\ [Next]_vars => [Stays]_vars
    <2> SUFFICES ASSUME IInv, PushedIsEmitted, TypeOK', [Next]_vars,
                        NEW k \in 1..Len(dataset), PassedOver(k)
                 PROVE  dataset[k] \notin rows' /\ (Followed(k)' => PassedOver(k)')
      OBVIOUS
    <2>1. dataset[k] \notin rows'
      BY NotPutBack
    <2>2. k \in 1..Len(dataset') /\ dataset'[k] = dataset[k] /\ purged \subseteq purged'
      <3>1. CASE Keeps
        <4>1. Len(dataset) \in Nat /\ Len(dataset') \in Nat
          BY LenProperties DEF IInv, TypeOK, DataType
        <4>2. QED
          BY <3>1, <4>1 DEF Keeps
      <3>2. CASE Crash(FALSE)
        BY <3>2 DEF Crash
      <3>3. QED
        BY <3>1, <3>2, StepKeeps
    <2>3. live'[dataset[k]] = 0
      <3>1. /\ live[dataset[k]] = 0 /\ dataset[k] \in emitted
            /\ dataset[k] \in Events /\ live \in [Events -> Nat]
        BY LenProperties DEF PassedOver, PushedIsEmitted, IInv, TypeOK, DataType
      <3>2. ASSUME NEW e \in Events, Emit(e) PROVE live'[dataset[k]] = 0
        BY <3>1, <3>2 DEF Emit
      <3>3. ASSUME NEW e \in Events, LiveInsert(e) \/ LiveInsertFails(e)
            PROVE  live'[dataset[k]] = 0
        BY <3>1, <3>3 DEF LiveInsert, LiveInsertFails
      <3>4. ASSUME NEW b \in BOOLEAN, Crash(b) PROVE live'[dataset[k]] = 0
        BY <3>1, <3>4 DEF Crash
      <3>5. CASE live' = live
        BY <3>1, <3>5
      <3>6. QED
        BY <3>2, <3>3, <3>4, <3>5, CallFrame
           DEF Next, vars, Push, SyncStep, BeginSync, AnswerMax, CacheMax,
               ReadInfo, FetchData, InsertBatch, FinishSync, SyncFails,
               PurgeWebhook
    <2>4. dataset'[k] \in purged' \ rows' /\ live'[dataset'[k]] = 0
      BY <2>1, <2>2, <2>3 DEF PassedOver
    <2>5. cached' # Null => k <= cached' + 1
      BY CacheStaysBeyond
    <2>6. \A j \in Slots : job'[j].at \in Reading => k <= job'[j].next
      BY JobsStayBeyond
    <2>7. QED
      BY <2>1, <2>4, <2>5, <2>6 DEF PassedOver
  <1>2. QED
    BY InvHolds, PushedIsEmittedAlways, TypeCorrect, <1>1, PTL
       DEF Spec, PassedOverStaysAway

-----------------------------------------------------------------------------
(* What the service assumes of the ingest path: events are announced and   *)
(* become items as in EventSource, which Ingest is proved to implement.    *)
Source == INSTANCE EventSource
            WITH announced <- emitted, kept <- {dataset[k] : k \in 1..Len(dataset)}

(* Whatever the service does, and whenever it dies, the events and the     *)
(* dataset move as EventSource lets them: it only ever reads them.         *)
(* (SyncService.#onLogReceived, #syncLogs.)                                *)
THEOREM ReadsItsSource == Spec => Source!SourceSpec
  <1> DEFINE items == {dataset[k] : k \in 1..Len(dataset)}
  <1>1. Init => Source!SourceInit
    BY EmptySeq DEF Init, Source!SourceInit
  <1>2. ASSUME TypeOK, [Next]_vars
        PROVE  Source!SourceNext \/ UNCHANGED <<emitted, dataset>>
    <2>1. ASSUME NEW e \in Events, Emit(e) PROVE Source!Announce(e)
      BY <2>1 DEF Emit, Source!Announce
    <2>2. ASSUME NEW e \in Events, Push(e) PROVE Source!Keep(e)
      <3>1. /\ Len(dataset) \in Nat /\ Len(dataset') = Len(dataset) + 1
            /\ \A k \in 1..Len(dataset) : dataset'[k] = dataset[k]
            /\ dataset'[Len(dataset) + 1] = e
        BY <2>2, AppendProperties, LenProperties DEF Push, TypeOK, DataType
      <3>2. \A k \in 1..Len(dataset') : k \in 1..Len(dataset) \/ k = Len(dataset) + 1
        BY <3>1
      <3>3. items' = items \cup {e}
        BY <3>1, <3>2
      <3>4. e \notin items
        BY <2>2 DEF Push, Pushed
      <3>5. QED
        BY <2>2, <3>3, <3>4 DEF Push, Source!Keep
    <2>3. \/ \E e \in Events : Emit(e) \/ Push(e)
          \/ UNCHANGED <<emitted, dataset>>
      BY <1>2, CallFrame
           DEF Next, vars, LiveInsert, LiveInsertFails, SyncStep, BeginSync,
               AnswerMax, CacheMax, ReadInfo, FetchData, InsertBatch,
               FinishSync, SyncFails, PurgeWebhook, Crash
    <2>4. QED
      BY <2>1, <2>2, <2>3 DEF Source!SourceNext
  <1>3. TypeOK /\ [Next]_vars => [Source!SourceNext]_(Source!sourceVars)
    BY <1>2 DEF Source!sourceVars
  <1>4. QED
    BY <1>1, <1>3, TypeCorrect, PTL DEF Spec, Source!SourceSpec
=============================================================================
