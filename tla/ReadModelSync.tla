--------------------------- MODULE ReadModelSync ---------------------------
(***************************************************************************)
(* The CQRS read model of the webhook debugger: SyncService copies the     *)
(* Apify Dataset (append only, the source of truth) into the DuckDB table  *)
(* `logs`.  Two writers race:                                              *)
(*                                                                         *)
(*  - the real-time path, #onLogReceived, inserts one event at once with   *)
(*    a null source_offset and then triggers a sync;                       *)
(*  - the catch-up path, #syncLogs, reads a batch of the dataset from the  *)
(*    next offset and upserts it with source_offset = dataset position.    *)
(*                                                                         *)
(* Every await of the two paths separates two actions here, so that jobs   *)
(* (SYNC_MAX_CONCURRENT of them, 5 outside the platform), inserts, calls   *)
(* of start() and stop() that overlap, the retention cleanup and a crash   *)
(* interleave as on the event loop.  Each start() makes a new limiter, and *)
(* an old one goes on with its jobs until it is stopped, so that limiters  *)
(* are numbered; #limiter names one of them or none.                       *)
(***************************************************************************)
EXTENDS Integers, Sequences, FiniteSets

CONSTANTS
  Events,       \* webhook events, by their unique id
  Webhooks,     \* webhook ids
  WebhookOf,    \* the webhook each event belongs to
  Jobs,         \* the slots of a limiter: SYNC_MAX_CONCURRENT = |Jobs|
  Callers,      \* who may call start() or stop() and be suspended in it
  BatchSize,    \* SYNC_BATCH_SIZE
  Null,         \* JavaScript null
  MaxStarts,    \* bound: limiters made by start()
  MaxPurges,    \* bound: cleanups of a webhook's rows
  MaxFaults     \* bound: rejected awaited calls, deaths of the process, and
                \* calls of start() or stop() made while another is suspended

\* Seeded fault: a marker one too low.
MissingOffset_TooLow == -2

MissingOffset == -1             \* DB_MISSING_OFFSET_MARKER

ASSUME ConstantsAssumption ==
  /\ WebhookOf \in [Events -> Webhooks]
  /\ BatchSize \in Nat \ {0}
  /\ Null \notin Int
  /\ MaxStarts \in Nat /\ MaxPurges \in Nat /\ MaxFaults \in Nat

Limiters == 1..MaxStarts
Slots == Limiters \X Jobs

VARIABLES
  dataset,      \* the Apify Dataset; item k has offset k - 1
  emitted,      \* events whose LOG_RECEIVED was emitted, or never will be
  live,         \* real-time insertLog calls in flight, for each event
  rows,         \* ids present in the table `logs`
  offset,       \* column source_offset of each row, or Null
  purged,       \* history: events whose row the cleanup deleted
  cached,       \* #cachedMaxOffset
  running,      \* #isRunning
  limiter,      \* #limiter: the current limiter, or Null
  stopPromise,  \* #limiterStopPromise: the limiter it stops, or Null
  phase,        \* each limiter: "none", "open", "draining" (stop called), "closed"
  call,         \* each caller: the await of stop() or start() it is suspended
                \* at, the limiter it captured, whether start() called stop()
  listeners,    \* listeners of LOG_RECEIVED: on() adds one, off() removes one
  queued,       \* syncLogs jobs scheduled and waiting in each limiter
  job,          \* each executing #syncLogs: the await it is suspended at,
                \* its nextOffset and its items.length
  starts, purges, errors, crashes, overlaps   \* bound counters

vars == <<dataset, emitted, live, rows, offset, purged, cached, running,
          limiter, stopPromise, phase, call, listeners, queued, job,
          starts, purges, errors, crashes, overlaps>>

externalVars == <<dataset, emitted>>
dbVars       == <<rows, offset, purged>>
lifeVars     == <<running, limiter, stopPromise, phase, call, listeners>>
boundVars    == <<starts, purges, errors, crashes, overlaps>>

FaultAllowed == errors + crashes + overlaps < MaxFaults

-----------------------------------------------------------------------------
Position(e) == CHOOSE k \in 1..Len(dataset) : dataset[k] = e

Pushed(e) == \E k \in 1..Len(dataset) : dataset[k] = e

(* rows[0]?.maxOffset of SELECT MAX(source_offset), the marker if none.    *)
MaxOffset ==
  LET offsets == {offset[e] : e \in {r \in rows : offset[r] # Null}}
  IN  IF offsets = {} THEN MissingOffset
      ELSE CHOOSE m \in offsets : \A o \in offsets : o <= m

(* #limiter accepts jobs.                                                  *)
Accepting == limiter # Null /\ phase[limiter] = "open"

(* #triggerSync: limiter?.schedule(...); a stopped limiter rejects it.     *)
Trigger ==
  queued' = IF Accepting THEN [queued EXCEPT ![limiter] = @ + 1] ELSE queued

(* The items at [nextOffset, nextOffset + items.length) of a fetched batch.*)
(* Every item this program pushes carries an id, unless a custom script    *)
(* takes it away; one without would be given another id by each sync that  *)
(* fetches it, a row of its own each time, and is not modelled.            *)
Batch(j) == {dataset[k] : k \in job[j].next + 1 .. job[j].next + job[j].got}

IdleJob == [at |-> "idle", next |-> 0, got |-> 0]
Executing(g) == {j \in Jobs : job[<<g, j>>].at # "idle"}

IdleCall == [at |-> "idle", of |-> Null, byStart |-> FALSE]

(* A call of start() or stop() takes a free place (they are all alike).    *)
FreeCaller == CHOOSE c \in Callers : call[c] = IdleCall

(* Some call of start() or stop() is suspended.                            *)
Overlapping == \E c \in Callers : call[c] # IdleCall

(* Limiters that #limiter names no more and that no stop() has closed.     *)
Lost == {g \in Limiters : phase[g] \in {"open", "draining"}} \ {limiter}

(* A job resumes and awaits again at `at`, or returns.                     *)
Resume(j, at)  == job' = [job EXCEPT ![j].at = at]
Return(j)      == job' = [job EXCEPT ![j] = IdleJob]
ResumeIf(go, j, at) == IF go THEN Resume(j, at) ELSE Return(j)

-----------------------------------------------------------------------------
Init ==
  /\ dataset = <<>> /\ emitted = {} /\ live = [e \in Events |-> 0]
  /\ rows = {} /\ offset = [e \in Events |-> Null] /\ purged = {}
  /\ cached = Null /\ running = FALSE /\ limiter = Null /\ stopPromise = Null
  /\ phase = [g \in Limiters |-> "none"]
  /\ call = [c \in Callers |-> IdleCall] /\ listeners = 0
  /\ queued = [g \in Limiters |-> 0]
  /\ job = [s \in Slots |-> IdleJob]
  /\ starts = 0 /\ purges = 0 /\ errors = 0 /\ crashes = 0 /\ overlaps = 0

-----------------------------------------------------------------------------
(* The ingest middleware: LOG_RECEIVED is emitted before Actor.pushData.   *)
(* Each listener inserts; one that finds the service stopped returns.      *)
Emit(e) ==
  /\ e \notin emitted
  /\ emitted' = emitted \cup {e}
  /\ live' = IF running THEN [live EXCEPT ![e] = listeners] ELSE live
  /\ UNCHANGED <<dataset, dbVars, cached, lifeVars, queued, job, boundVars>>

(* pushData is applied, once; it may also never be (it failed), and a call *)
(* sent before a crash may still arrive. The startup record of main.js and *)
(* the error items of ForwardingService are pushed without LOG_RECEIVED.   *)
Push(e) ==
  /\ ~Pushed(e)
  /\ dataset' = Append(dataset, e)
  /\ emitted' = emitted \cup {e}
  /\ UNCHANGED <<live, dbVars, cached, lifeVars, queued, job, boundVars>>

-----------------------------------------------------------------------------
\* Seeded fault: ON CONFLICT DO UPDATE SET source_offset = EXCLUDED.source_offset.
LiveInsert_NoCoalesce(e) ==
  /\ live[e] > 0
  /\ live' = [live EXCEPT ![e] = @ - 1]
  /\ rows' = rows \cup {e}
  /\ offset' = [offset EXCEPT ![e] = Null]
  /\ Trigger
  /\ UNCHANGED <<externalVars, purged, cached, lifeVars, job, boundVars>>

(* #onLogReceived.  The upsert leaves the source_offset of an existing row *)
(* alone: COALESCE(EXCLUDED.source_offset, logs.source_offset).            *)
LiveInsert(e) ==
  /\ live[e] > 0
  /\ live' = [live EXCEPT ![e] = @ - 1]
  /\ rows' = rows \cup {e}
  /\ offset' = [offset EXCEPT ![e] = IF e \in rows THEN @ ELSE Null]
  /\ Trigger
  /\ UNCHANGED <<externalVars, purged, cached, lifeVars, job, boundVars>>

(* A failed insert is logged; the sync is not triggered.                   *)
LiveInsertFails(e) ==
  /\ live[e] > 0 /\ FaultAllowed
  /\ live' = [live EXCEPT ![e] = @ - 1]
  /\ errors' = errors + 1
  /\ UNCHANGED <<externalVars, dbVars, cached, lifeVars, queued, job, starts,
                 purges, crashes, overlaps>>

-----------------------------------------------------------------------------
(* #syncLogs in a slot <<limiter, job>>, one action from each await to the *)
(* following one.  The slots of a limiter are alike: a free one is taken.  *)
BeginSync(j) ==
  /\ phase[j[1]] = "open" /\ queued[j[1]] > 0 /\ job[j] = IdleJob
  /\ j[2] = CHOOSE i \in Jobs : job[<<j[1], i>>] = IdleJob
  /\ queued' = [queued EXCEPT ![j[1]] = @ - 1]
  /\ job' = [job EXCEPT ![j] =
       IF ~running THEN IdleJob
       ELSE IF cached = Null THEN [@ EXCEPT !.at = "query"]
       ELSE [@ EXCEPT !.at = "info", !.next = cached + 1]]
  /\ UNCHANGED <<externalVars, live, dbVars, cached, lifeVars, boundVars>>

(* DuckDB answers SELECT MAX(source_offset)...                             *)
AnswerMax(j) ==
  /\ job[j].at = "query"
  /\ job' = [job EXCEPT ![j].at = "answered", ![j].next = MaxOffset + 1]
  /\ UNCHANGED <<externalVars, live, dbVars, cached, lifeVars, queued,
                 boundVars>>

(* ...and #getNextOffset caches the answer when its await resumes, which   *)
(* happens before #isRunning is looked at.                                 *)
CacheMax(j) ==
  /\ job[j].at = "answered"
  /\ cached' = job[j].next - 1
  /\ ResumeIf(running, j, "info")
  /\ UNCHANGED <<externalVars, live, dbVars, lifeVars, queued, boundVars>>

(* openDataset and getInfo: nothing new, stopped, or on to getData.        *)
ReadInfo(j) ==
  /\ job[j].at = "info"
  /\ ResumeIf(running /\ Len(dataset) > job[j].next, j, "data")
  /\ UNCHANGED <<externalVars, live, dbVars, cached, lifeVars, queued,
                 boundVars>>

FetchData(j) ==
  LET left == Len(dataset) - job[j].next
  IN  /\ job[j].at = "data"
      /\ job' = [job EXCEPT ![j] =
           IF running
           THEN [@ EXCEPT !.at = "insert",
                          !.got = IF left < BatchSize THEN left ELSE BatchSize]
           ELSE IdleJob]
      /\ UNCHANGED <<externalVars, live, dbVars, cached, lifeVars, queued,
                     boundVars>>

\* Seeded fault: offsets counted from one.
InsertBatch_FromOne(j) ==
  /\ job[j].at = "insert"
  /\ rows' = rows \cup Batch(j)
  /\ offset' = [e \in Events |-> IF e \in Batch(j) THEN Position(e) ELSE offset[e]]
  /\ Resume(j, "inserted")
  /\ UNCHANGED <<externalVars, live, purged, cached, lifeVars, queued,
                 boundVars>>

(* batchInsertLogs: one transaction, every row upserted with its offset.   *)
InsertBatch(j) ==
  /\ job[j].at = "insert"
  /\ rows' = rows \cup Batch(j)
  /\ offset' = [e \in Events |->
                  IF e \in Batch(j) THEN Position(e) - 1 ELSE offset[e]]
  /\ Resume(j, "inserted")
  /\ UNCHANGED <<externalVars, live, purged, cached, lifeVars, queued,
                 boundVars>>

\* Seeded fault: nextOffset + items.length without the - 1.
FinishSync_OffByOne(j) ==
  /\ job[j].at = "inserted"
  /\ Return(j)
  /\ cached' = IF running THEN job[j].next + job[j].got ELSE cached
  /\ IF running /\ job[j].got = BatchSize THEN Trigger ELSE UNCHANGED queued
  /\ UNCHANGED <<externalVars, live, dbVars, lifeVars, boundVars>>

\* Seeded fault: a full batch does not schedule the next run.
FinishSync_NoRetrigger(j) ==
  /\ job[j].at = "inserted"
  /\ Return(j)
  /\ cached' = IF running THEN job[j].next + job[j].got - 1 ELSE cached
  /\ UNCHANGED <<externalVars, live, dbVars, lifeVars, queued, boundVars>>

(* The cache moves to the end of this batch, wherever another job left it; *)
(* a full batch schedules the next run.                                    *)
FinishSync(j) ==
  /\ job[j].at = "inserted"
  /\ Return(j)
  /\ cached' = IF running THEN job[j].next + job[j].got - 1 ELSE cached
  /\ IF running /\ job[j].got = BatchSize THEN Trigger ELSE UNCHANGED queued
  /\ UNCHANGED <<externalVars, live, dbVars, lifeVars, boundVars>>

(* Any awaited call may reject; a rejected transaction is rolled back.     *)
(* While running the cache is invalidated; nothing schedules a retry.      *)
SyncFails(j) ==
  /\ job[j].at \in {"query", "info", "data", "insert"} /\ FaultAllowed
  /\ Return(j)
  /\ cached' = IF running THEN Null ELSE cached
  /\ errors' = errors + 1
  /\ UNCHANGED <<externalVars, live, dbVars, lifeVars, queued, starts, purges,
                 crashes, overlaps>>

-----------------------------------------------------------------------------
(* The part of start() after its awaits: #isRunning is not looked at again,*)
(* a new limiter replaces whatever #limiter names, and a sync is scheduled.*)
GoOn ==
  /\ starts < MaxStarts
  /\ running' = TRUE
  /\ limiter' = starts + 1 /\ stopPromise' = Null
  /\ phase' = [phase EXCEPT ![starts + 1] = "open"]
  /\ queued' = [queued EXCEPT ![starts + 1] = 1]
  /\ listeners' = listeners + 1
  /\ starts' = starts + 1

(* start() with no limiter left over.                                      *)
Start ==
  /\ ~running /\ limiter = Null
  /\ GoOn
  /\ UNCHANGED <<externalVars, live, dbVars, cached, call, job, purges,
                 errors, crashes, overlaps>>

(* stop() with no limiter: it was stopped, or an overlapping call took it. *)
StopNothing ==
  /\ running /\ limiter = Null
  /\ running' = FALSE /\ listeners' = listeners - 1
  /\ UNCHANGED <<externalVars, live, dbVars, cached, limiter, stopPromise,
                 phase, call, queued, job, boundVars>>

\* Seeded fault: stop() leaves #isRunning set.
StopBegin_StillRunning(c, byStart) ==
  /\ call[c] = IdleCall /\ c = FreeCaller /\ limiter # Null
  /\ byStart => ~running /\ starts < MaxStarts
  /\ Overlapping => FaultAllowed
  /\ overlaps' = IF Overlapping THEN overlaps + 1 ELSE overlaps
  /\ call' = [call EXCEPT ![c] =
                [at |-> "stop", of |-> limiter, byStart |-> byStart]]
  /\ IF stopPromise = Null
     THEN /\ stopPromise' = limiter
          /\ phase' = [phase EXCEPT ![limiter] = IF @ = "open" THEN "draining" ELSE @]
          /\ queued' = [queued EXCEPT ![limiter] = 0]
     ELSE UNCHANGED <<stopPromise, phase, queued>>
  /\ UNCHANGED <<externalVars, live, dbVars, cached, running, limiter,
                 listeners, job, starts, purges, errors, crashes>>

(* stop(), called by a shutdown or by a start() that finds a limiter left  *)
(* over.  The limiter is stopped, dropping its waiting jobs, unless a call *)
(* before this one did so: then its promise, settled or not, is shared.    *)
StopBegin(c, byStart) ==
  /\ call[c] = IdleCall /\ c = FreeCaller /\ limiter # Null
  /\ byStart => ~running /\ starts < MaxStarts
  /\ Overlapping => FaultAllowed
  /\ overlaps' = IF Overlapping THEN overlaps + 1 ELSE overlaps
  /\ running' = FALSE
  /\ listeners' = IF running THEN listeners - 1 ELSE listeners
  /\ call' = [call EXCEPT ![c] =
                [at |-> "stop", of |-> limiter, byStart |-> byStart]]
  /\ IF stopPromise = Null
     THEN /\ stopPromise' = limiter
          /\ phase' = [phase EXCEPT ![limiter] = IF @ = "open" THEN "draining" ELSE @]
          /\ queued' = [queued EXCEPT ![limiter] = 0]
     ELSE UNCHANGED <<stopPromise, phase, queued>>
  /\ UNCHANGED <<externalVars, live, dbVars, cached, limiter, job, starts,
                 purges, errors, crashes>>

(* Every call that waits for the stop of limiter g gets on, or fails.      *)
WaitingFor(g) == {c \in Callers : call[c].at = "stop" /\ call[c].of = g}
AllMove(g, at) ==
  call' = [c \in Callers |->
             IF c \in WaitingFor(g) THEN [call[c] EXCEPT !.at = at] ELSE call[c]]

\* Seeded fault: limiter.stop() is not awaited.
LimiterStopped_NotAwaited(g) ==
  /\ WaitingFor(g) # {}
  /\ phase' = [phase EXCEPT ![g] = "closed"]
  /\ AllMove(g, "disconnect")
  /\ UNCHANGED <<externalVars, live, dbVars, cached, running, limiter,
                 stopPromise, listeners, queued, job, boundVars>>

(* limiter.stop() resolves once the executing jobs have finished, for all  *)
(* the calls that share its promise.                                       *)
LimiterStopped(g) ==
  /\ WaitingFor(g) # {} /\ Executing(g) = {}
  /\ phase' = [phase EXCEPT ![g] = "closed"]
  /\ AllMove(g, "disconnect")
  /\ UNCHANGED <<externalVars, live, dbVars, cached, running, limiter,
                 stopPromise, listeners, queued, job, boundVars>>

(* limiter.stop() rejects: so do all the calls that share its promise, and *)
(* the start() calls among them; the promise is forgotten, for a retry.    *)
LimiterStopFails(g) ==
  /\ WaitingFor(g) # {} /\ phase[g] = "draining" /\ FaultAllowed
  /\ call' = [c \in Callers |-> IF c \in WaitingFor(g) THEN IdleCall ELSE call[c]]
  /\ stopPromise' = Null
  /\ errors' = errors + 1
  /\ UNCHANGED <<externalVars, live, dbVars, cached, running, limiter, phase,
                 listeners, queued, job, starts, purges, crashes, overlaps>>

(* limiter.disconnect() resolves: #limiter is cleared, whichever limiter   *)
(* it names by now, and a start() that waits is about to be resumed.       *)
Disconnected(c) ==
  /\ call[c].at = "disconnect"
  /\ limiter' = Null /\ stopPromise' = Null
  /\ call' = [call EXCEPT ![c] = IF @.byStart THEN [@ EXCEPT !.at = "stopped"]
                                 ELSE IdleCall]
  /\ UNCHANGED <<externalVars, live, dbVars, cached, running, phase, listeners,
                 queued, job, boundVars>>

(* disconnect() rejects: the limiter and the stop promise are kept for a   *)
(* later retry, and the start() that called stop(), if any, fails too.     *)
DisconnectFails(c) ==
  /\ call[c].at = "disconnect" /\ FaultAllowed
  /\ call' = [call EXCEPT ![c] = IdleCall]
  /\ errors' = errors + 1
  /\ UNCHANGED <<externalVars, live, dbVars, cached, running, limiter,
                 stopPromise, phase, listeners, queued, job, starts, purges,
                 crashes, overlaps>>

(* start() resumes after its stop().                                       *)
StartResumes(c) ==
  /\ call[c].at = "stopped"
  /\ GoOn
  /\ call' = [call EXCEPT ![c] = IdleCall]
  /\ UNCHANGED <<externalVars, live, dbVars, cached, job, purges, errors,
                 crashes, overlaps>>

-----------------------------------------------------------------------------
(* WebhookManager.cleanup of an expired webhook: one DELETE by webhookId.  *)
PurgeWebhook(w) ==
  LET doomed == {e \in rows : WebhookOf[e] = w}
  IN  /\ doomed # {} /\ purges < MaxPurges
      /\ purges' = purges + 1
      /\ rows' = rows \ doomed
      /\ offset' = [e \in Events |-> IF e \in doomed THEN Null ELSE offset[e]]
      /\ purged' = purged \cup doomed
      /\ UNCHANGED <<externalVars, live, cached, lifeVars, queued, job,
                     starts, errors, crashes, overlaps>>

(* The process dies.  The dataset survives; the DuckDB file survives on a  *)
(* kept disk and is lost with the container (or is in memory).             *)
Crash(keepDb) ==
  /\ FaultAllowed
  /\ crashes' = crashes + 1
  /\ rows' = IF keepDb THEN rows ELSE {}
  /\ offset' = IF keepDb THEN offset ELSE [e \in Events |-> Null]
  /\ live' = [e \in Events |-> 0] /\ cached' = Null
  /\ running' = FALSE /\ limiter' = Null /\ stopPromise' = Null
  /\ phase' = [g \in Limiters |-> "none"]
  /\ call' = [c \in Callers |-> IdleCall] /\ listeners' = 0
  /\ queued' = [g \in Limiters |-> 0]
  /\ job' = [s \in Slots |-> IdleJob]
  /\ UNCHANGED <<dataset, emitted, purged, starts, purges, errors, overlaps>>

-----------------------------------------------------------------------------
SyncStep(j) ==
  \/ BeginSync(j) \/ AnswerMax(j) \/ CacheMax(j) \/ ReadInfo(j)
  \/ FetchData(j) \/ InsertBatch(j) \/ FinishSync(j)

LifeStep(c) == Disconnected(c) \/ StartResumes(c)

CallStep ==
  \/ Start \/ StopNothing
  \/ \E c \in Callers : \/ \E byStart \in BOOLEAN : StopBegin(c, byStart)
                        \/ LifeStep(c) \/ DisconnectFails(c)
  \/ \E g \in Limiters : LimiterStopped(g) \/ LimiterStopFails(g)

Next ==
  \/ \E e \in Events : Emit(e) \/ Push(e)
                       \/ LiveInsert(e) \/ LiveInsertFails(e)
  \/ \E j \in Slots : SyncStep(j) \/ SyncFails(j)
  \/ CallStep
  \/ \E w \in Webhooks : PurgeWebhook(w)
  \/ \E keepDb \in BOOLEAN : Crash(keepDb)

Spec == Init /\ [][Next]_vars

(* Scheduled work is run by the event loop and awaited calls settle; that  *)
(* an event is emitted or reaches the dataset, or that anyone starts or    *)
(* stops, is not promised.  One condition for all of that work is weaker   *)
(* than fairness to each job and call, and is enough.                      *)
Fairness ==
  WF_vars(\/ \E j \in Slots : SyncStep(j)
          \/ \E e \in Events : LiveInsert(e)
          \/ \E c \in Callers : LifeStep(c)
          \/ \E g \in Limiters : LimiterStopped(g))

FairSpec == Spec /\ Fairness

-----------------------------------------------------------------------------
JobType ==
  [at : {"idle", "query", "answered", "info", "data", "insert", "inserted"},
   next : Nat, got : Nat]

CallType ==
  [at : {"idle", "stop", "disconnect", "stopped"},
   of : Limiters \cup {Null}, byStart : BOOLEAN]

DataType ==
  /\ dataset \in Seq(Events)
  /\ emitted \subseteq Events /\ live \in [Events -> Nat]
  /\ rows \subseteq Events /\ purged \subseteq Events
  /\ offset \in [Events -> Nat \cup {Null}]
  /\ cached \in Nat \cup {MissingOffset, Null}
  /\ job \in [Slots -> JobType]

LifeType ==
  /\ running \in BOOLEAN /\ listeners \in Nat
  /\ limiter \in Limiters \cup {Null} /\ stopPromise \in {limiter, Null}
  /\ phase \in [Limiters -> {"none", "open", "draining", "closed"}]
  /\ call \in [Callers -> CallType]
  /\ queued \in [Limiters -> Nat]

BoundType ==
  /\ starts \in Nat /\ purges \in Nat
  /\ errors \in Nat /\ crashes \in Nat /\ overlaps \in Nat

TypeOK == DataType /\ LifeType /\ BoundType

(* The dataset item k is in the read model at its own offset, or the       *)
(* cleanup has deleted it.                                                 *)
Mirrored(k) ==
  \/ dataset[k] \in purged
  \/ dataset[k] \in rows /\ offset[dataset[k]] = k - 1

Covered(n) == n <= Len(dataset) /\ \A k \in 1..n : Mirrored(k)

(* Nothing is skipped: everything below the offset that the next sync will *)
(* start from, be it cached or recomputed as MAX(source_offset), is in the *)
(* read model.  Whatever order the batches of concurrent jobs land in, a   *)
(* gap below that offset would never be fetched again.                     *)
NoGap ==
  /\ cached # Null => Covered(cached + 1)
  /\ Covered(MaxOffset + 1)

(* The source_offset of a row is the position of that very event in the    *)
(* dataset (nextOffset + i over the fetched items).                        *)
OffsetIsPosition ==
  \A e \in rows : offset[e] # Null =>
    offset[e] < Len(dataset) /\ dataset[offset[e] + 1] = e

(* Once limiter.stop() has resolved no job of that limiter is executing or *)
(* waiting; so a stop() that resolves with no limiter lost leaves nothing  *)
(* that could reopen the database after closeDb.                           *)
QuietAfterStop ==
  /\ \A g \in Limiters : phase[g] \in {"none", "closed"}
                           => Executing(g) = {} /\ queued[g] = 0
  /\ \A c \in Callers : call[c].at \in {"disconnect", "stopped"}
                          => phase[call[c].of] = "closed"

(* While the service runs its limiter accepts jobs, so that no trigger is  *)
(* lost, however stops, failed stops and starts follow each other.  There  *)
(* is one way to lose the limiter: a call that was suspended all along in  *)
(* the stop of an earlier limiter clears or replaces it (several calls     *)
(* share #limiterStopPromise, and each sets #limiter = null when it        *)
(* resumes, after another one's start() too).                              *)
RunningCanSync ==
  /\ [](running => Accepting \/ \E g \in Lost : phase[g] = "open")
  /\ [][\A g \in Lost' \ Lost : \E c \in Callers :
          call[c].at \in {"disconnect", "stopped"} /\ call[c].of # g]_vars

(* A row never loses its offset while it exists: a real-time insert that   *)
(* lands after the batch, or an overlapping batch, leaves it as it is.     *)
OffsetKept ==
  [][\A e \in rows \cap rows' : offset[e] # Null => offset'[e] = offset[e]]_vars

(* An event that the cleanup deleted is not put back by a sync (only by an *)
(* insert that was in flight): README, "logs are purged from the /logs     *)
(* query endpoint during the next cleanup cycle".                          *)
PurgedByCleanupStayPurged ==
  [][\A e \in purged \ rows : live[e] = 0 => e \notin rows']_vars

(* A triggered sync brings in every item already in the dataset, batch     *)
(* after batch and across crashes that lose the database, unless the       *)
(* service is stopped, a call it awaits has failed (no retry follows), or  *)
(* an overlapping stop() has taken its limiter away (nothing to trigger).  *)
TriggeredSyncCatchesUp ==
  \A e \in Events :
    ((\E g \in Limiters : queued[g] > 0) /\ Pushed(e))
      ~> (e \in rows \/ e \in purged \/ ~running \/ errors > 0 \/ Lost # {})

(* The rows that carry an offset are what the read model took from the log.*)
Placed == {e \in rows : offset[e] # Null}

Mirror == INSTANCE DatasetMirror
            WITH log <- dataset, view <- rows, placed <- Placed, forgotten <- purged

(* The service implements the abstract mirror: whatever jobs overlap, fail *)
(* or are cut short, each batch starts no further than what was taken in.  *)
ImplementsMirror == Mirror!MirrorSpec

(* docs/architecture.md, "uses batch catch-up for gap recovery": an item   *)
(* of the dataset ends in the read model of a service that keeps running.  *)
GapRecovery ==
  \A e \in Events :
    (Pushed(e) /\ running) ~> (e \in rows \cup purged \/ ~running)
=============================================================================
