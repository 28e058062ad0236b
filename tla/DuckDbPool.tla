----------------------------- MODULE DuckDbPool -----------------------------
(***************************************************************************)
(* src/db/duckdb.js: the singleton instance, its connection pool, the      *)
(* serialized write queue and resetDbInstance, which tears all three down  *)
(* while operations are under way.                                         *)
(*                                                                         *)
(* An operation first acquires a connection, over several awaits, and is   *)
(* counted in activeConnectionOperations only afterwards; resetDbInstance  *)
(* waits for the counted ones. Continuations that are due at once          *)
(* (microtasks) run before the answer of any driver call.                  *)
(***************************************************************************)
EXTENDS Integers, Sequences, FiniteSets, Functions

CONSTANTS
  Reads,      \* executeQuery calls that may be under way together
  Writes,     \* executeWrite and executeTransaction calls
  Vacuums,    \* vacuumDb calls
  Conns,      \* connection handles; one is reused when nothing refers to it
  Instances,  \* instance handles, likewise
  PoolSize,   \* DUCKDB_POOL_SIZE
  Null,
  MaxResets   \* bound: calls of resetDbInstance

Calls == Reads \cup Writes \cup Vacuums

ASSUME ConstantsAssumption ==
  /\ PoolSize \in Nat /\ MaxResets \in Nat
  /\ Reads \cap Writes = {} /\ Reads \cap Vacuums = {} /\ Writes \cap Vacuums = {}
  /\ Null \notin Conns \cup Instances
  /\ IsFiniteSet(Calls)

VARIABLES
  instance,  \* dbInstance
  init,      \* initPromise, by the instance it opens
  opening,   \* instances whose initialization is under way
  failed,    \* instances whose initialization was rejected
  open,      \* instances that were opened and not closed
  owner,     \* the instance of each connection, Null when closed
  pool,      \* connectionPool, a stack
  inUse,     \* inUseConnections
  active,    \* activeConnectionOperations
  queue,     \* writeQueue: stopped or not, and the write that it executes
  op,        \* each call: the await it is at, its connection, its instance
  reset,     \* resetDbInstance: the await it is at, and its two locals
  resets     \* bound counter

vars == <<instance, init, opening, failed, open, owner, pool, inUse, active,
          queue, op, reset, resets>>

instanceVars == <<instance, init, opening, failed, open>>
poolVars     == <<owner, pool, inUse, active>>

Idle    == [at |-> "idle", conn |-> Null, inst |-> Null]
NoReset == [at |-> "none", old |-> Null, pending |-> Null]
NewQueue == [at |-> "open", running |-> {}]

-----------------------------------------------------------------------------
Init ==
  /\ instance = Null /\ init = Null /\ opening = {} /\ failed = {} /\ open = {}
  /\ owner = [c \in Conns |-> Null] /\ pool = <<>> /\ inUse = {} /\ active = 0
  /\ queue = NewQueue /\ op = [o \in Calls |-> Idle] /\ reset = NoReset /\ resets = 0

At(o, at) == op' = [op EXCEPT ![o].at = at]

Held == {op[o].conn : o \in Calls} \ {Null}
FreshConns == Conns \ (Held \cup Range(pool) \cup inUse)
FreshInstances ==
  Instances \ ({instance, init, reset.old, reset.pending} \cup opening \cup open
               \cup {op[o].inst : o \in Calls} \cup {owner[c] : c \in Conns})

(* The call settles, with a result or an error.                            *)
End(o) ==
  /\ op' = [op EXCEPT ![o] = Idle]
  /\ queue' = [queue EXCEPT !.running = @ \ {o}]

-----------------------------------------------------------------------------
(* getDbInstanceInternal first waits for a reset in progress.              *)
Call(o) ==
  /\ o \notin Writes /\ op[o].at = "idle"
  /\ At(o, IF reset.at = "none" THEN "passed" ELSE "gate")
  /\ UNCHANGED <<instanceVars, poolVars, queue, reset, resets>>

(* writeQueue.schedule; a stopped queue rejects at once.                   *)
Schedule(o) ==
  /\ o \in Writes /\ op[o].at = "idle"
  /\ IF queue.at = "stopped" THEN UNCHANGED op ELSE At(o, "queued")
  /\ UNCHANGED <<instanceVars, poolVars, queue, reset, resets>>

\* Seeded fault: writes wait for the reset, too (no skipResetWait).
StartWrite_Gated(o) ==
  /\ o \in Writes /\ op[o].at = "queued"
  /\ queue.at = "open" /\ queue.running = {}
  /\ queue' = [queue EXCEPT !.running = {o}]
  /\ At(o, "gate")
  /\ UNCHANGED <<instanceVars, poolVars, reset, resets>>

(* maxConcurrent: 1. The job does not wait for the reset.                  *)
StartWrite(o) ==
  /\ o \in Writes /\ op[o].at = "queued"
  /\ queue.at = "open" /\ queue.running = {}
  /\ queue' = [queue EXCEPT !.running = {o}]
  /\ At(o, "passed")
  /\ UNCHANGED <<instanceVars, poolVars, reset, resets>>

GetInstance(o) ==
  /\ op[o].at = "passed"
  /\ \/ /\ instance # Null
        /\ op' = [op EXCEPT ![o].at = "pool", ![o].inst = instance]
        /\ UNCHANGED <<init, opening, failed>>
     \/ /\ instance = Null /\ init # Null
        /\ op' = [op EXCEPT ![o].at = "init", ![o].inst = init]
        /\ UNCHANGED <<init, opening, failed>>
     \/ /\ instance = Null /\ init = Null /\ FreshInstances # {}
        /\ init' = CHOOSE i \in FreshInstances : TRUE
        /\ opening' = opening \cup {init'} /\ failed' = failed \ {init'}
        /\ op' = [op EXCEPT ![o].at = "init", ![o].inst = init']
  /\ UNCHANGED <<instance, open, poolVars, queue, reset, resets>>

(* The body of initPromise: fromCache opens the instance; a connection of  *)
(* its own configures it and creates the schema; only then is it the       *)
(* current one. A rejected promise stays in place until the next reset.    *)
InstanceOpened(i) ==
  /\ i \in opening \ open
  /\ open' = open \cup {i}
  /\ UNCHANGED <<instance, init, opening, failed, poolVars, queue, op, reset,
                 resets>>

InitReady(i) ==
  /\ i \in opening \cap open
  /\ opening' = opening \ {i} /\ instance' = i
  /\ UNCHANGED <<init, failed, open, poolVars, queue, op, reset, resets>>

(* Before fromCache has opened the instance, or after it: then nobody has  *)
(* a reference to the open instance any more, and nobody closes it.        *)
InitFails(i) ==
  /\ i \in opening
  /\ opening' = opening \ {i} /\ failed' = failed \cup {i}
  /\ UNCHANGED <<instance, init, open, poolVars, queue, op, reset, resets>>

InitAwaited(o) ==
  /\ op[o].at = "init" /\ op[o].inst \notin opening
  /\ IF op[o].inst \in failed THEN End(o) ELSE At(o, "pool") /\ UNCHANGED queue
  /\ UNCHANGED <<instanceVars, poolVars, reset, resets>>

-----------------------------------------------------------------------------
\* Seeded fault: the connection is read from the pool, not popped.
TakePooled_Peek(o) ==
  /\ op[o].at = "pool" /\ o \notin Vacuums /\ pool # <<>>
  /\ op' = [op EXCEPT ![o].at = "check", ![o].conn = pool[Len(pool)]]
  /\ UNCHANGED <<instanceVars, poolVars, queue, reset, resets>>

(* acquireConnection: pop, then validate with a trivial query.             *)
TakePooled(o) ==
  /\ op[o].at = "pool" /\ o \notin Vacuums /\ pool # <<>>
  /\ op' = [op EXCEPT ![o].at = "check", ![o].conn = pool[Len(pool)]]
  /\ pool' = SubSeq(pool, 1, Len(pool) - 1)
  /\ UNCHANGED <<instanceVars, owner, inUse, active, queue, reset, resets>>

NonePooled(o) ==
  /\ op[o].at = "pool" /\ (o \in Vacuums \/ pool = <<>>)
  /\ At(o, "connect")
  /\ UNCHANGED <<instanceVars, poolVars, queue, reset, resets>>

(* When the reset is about to close, no answer of the driver is before it. *)
Answered == reset.at # "close"

(* The connection is in use and, a microtask later, counted.               *)
BeginOperation(o, c) ==
  /\ op' = [op EXCEPT ![o].at = "run", ![o].conn = c]
  /\ inUse' = inUse \cup {c} /\ active' = active + 1

Usable(o) ==
  /\ op[o].at = "check" /\ Answered /\ owner[op[o].conn] # Null
  /\ BeginOperation(o, op[o].conn)
  /\ UNCHANGED <<instanceVars, owner, pool, queue, reset, resets>>

(* The driver may report any handle as disconnected: next one.             *)
Unusable(o) ==
  /\ op[o].at = "check" /\ Answered
  /\ owner' = [owner EXCEPT ![op[o].conn] = Null]
  /\ op' = [op EXCEPT ![o].at = "pool", ![o].conn = Null]
  /\ UNCHANGED <<instanceVars, pool, inUse, active, queue, reset, resets>>

(* instance.connect(); vacuumDb neither lists nor counts its connection.   *)
Connect(o) ==
  LET c == CHOOSE d \in FreshConns : TRUE
  IN  /\ op[o].at = "connect" /\ Answered /\ FreshConns # {}
      /\ owner' = [owner EXCEPT ![c] = op[o].inst]
      /\ IF o \in Vacuums
         THEN /\ op' = [op EXCEPT ![o].at = "run", ![o].conn = c]
              /\ UNCHANGED <<inUse, active>>
         ELSE BeginOperation(o, c)
      /\ UNCHANGED <<instanceVars, pool, queue, reset, resets>>

ConnectFails(o) ==
  /\ op[o].at = "connect" /\ Answered
  /\ End(o)
  /\ UNCHANGED <<instanceVars, poolVars, reset, resets>>

-----------------------------------------------------------------------------
\* Seeded fault: the length of the pool is not checked.
Release_NoLimit(c) == pool' = Append(pool, c) /\ UNCHANGED owner

(* releaseConnection                                                       *)
Release(c) ==
  \/ Len(pool) < PoolSize /\ pool' = Append(pool, c) /\ UNCHANGED owner
  \/ Len(pool) >= PoolSize /\ owner' = [owner EXCEPT ![c] = Null] /\ UNCHANGED pool

(* The work is done or rejected (and rolled back): release the connection, *)
(* count down, and wake the reset that waits for the last operation.       *)
Finish(o) ==
  LET left == IF active > 0 THEN active - 1 ELSE 0
  IN  /\ op[o].at = "run" /\ o \notin Vacuums
      /\ End(o)
      /\ inUse' = inUse \ {op[o].conn} /\ Release(op[o].conn)
      /\ active' = left
      /\ reset' = IF reset.at = "wait" /\ left = 0
                  THEN [reset EXCEPT !.at = "close"] ELSE reset
      /\ UNCHANGED <<instanceVars, resets>>

FinishVacuum(o) ==
  /\ op[o].at = "run" /\ o \in Vacuums
  /\ End(o)
  /\ owner' = [owner EXCEPT ![op[o].conn] = Null]
  /\ UNCHANGED <<instanceVars, pool, inUse, active, reset, resets>>

-----------------------------------------------------------------------------
(* resetDbInstance; a second caller waits for the first one. The jobs that *)
(* wait in the queue are dropped.                                          *)
BeginReset ==
  /\ reset.at = "none" /\ resets < MaxResets
  /\ reset' = [reset EXCEPT !.at = "queue"] /\ resets' = resets + 1
  /\ queue' = [queue EXCEPT !.at = "stopped"]
  /\ op' = [o \in Calls |-> IF op[o].at = "queued" THEN Idle ELSE op[o]]
  /\ UNCHANGED <<instanceVars, poolVars>>

\* Seeded fault: the write that is executing is not awaited.
QueueStopped_NotAwaited ==
  /\ reset.at = "queue"
  /\ reset' = [reset EXCEPT !.at = IF active = 0 THEN "close" ELSE "wait"]
  /\ UNCHANGED <<instanceVars, poolVars, queue, op, resets>>

\* Seeded fault: the counted operations are not awaited.
QueueStopped_NoDrain ==
  /\ reset.at = "queue" /\ queue.running = {}
  /\ reset' = [reset EXCEPT !.at = "close"]
  /\ UNCHANGED <<instanceVars, poolVars, queue, op, resets>>

(* stop() waits for the executing job; then the counted operations.        *)
QueueStopped ==
  /\ reset.at = "queue" /\ queue.running = {}
  /\ reset' = [reset EXCEPT !.at = IF active = 0 THEN "close" ELSE "wait"]
  /\ UNCHANGED <<instanceVars, poolVars, queue, op, resets>>

\* Seeded fault: the promise of the reset is never resolved.
FinishReset_GateKept ==
  reset' = NoReset /\ queue' = NewQueue /\ UNCHANGED op

(* A new queue; those who wait for the reset go on.                        *)
FinishReset ==
  /\ reset' = NoReset /\ queue' = NewQueue
  /\ op' = [o \in Calls |->
              IF op[o].at = "gate" THEN [op[o] EXCEPT !.at = "passed"] ELSE op[o]]

\* Seeded fault: a pending initialization is not awaited.
AfterClose_NoLate == FinishReset

AfterClose ==
  IF init = Null THEN FinishReset
  ELSE /\ reset' = [at |-> "late", old |-> instance, pending |-> init]
       /\ UNCHANGED <<queue, op>>

(* drainConnections, then the instance is closed.                          *)
Close ==
  /\ reset.at = "close" /\ \A o \in Calls : op[o].at \notin {"passed", "pool"}
  /\ owner' = [c \in Conns |-> IF c \in Range(pool) \cup inUse THEN Null ELSE owner[c]]
  /\ pool' = <<>> /\ inUse' = {}
  /\ open' = open \ {instance} /\ instance' = Null /\ init' = Null
  /\ AfterClose
  /\ UNCHANGED <<opening, failed, active, resets>>

(* The initialization that was pending may have left its instance.         *)
LateInstance ==
  /\ reset.at = "late" /\ reset.pending \notin opening
  /\ IF instance \notin {Null, reset.old}
     THEN open' = open \ {instance} /\ instance' = Null
     ELSE UNCHANGED <<open, instance>>
  /\ FinishReset
  /\ UNCHANGED <<init, opening, failed, poolVars, resets>>

-----------------------------------------------------------------------------
CallStep(o) ==
  \/ GetInstance(o) \/ InitAwaited(o) \/ TakePooled(o) \/ NonePooled(o)
  \/ Usable(o) \/ Connect(o) \/ ConnectFails(o) \/ Finish(o) \/ FinishVacuum(o)

InitStep  == \E i \in opening : InstanceOpened(i) \/ InitReady(i) \/ InitFails(i)
ResetStep == QueueStopped \/ Close \/ LateInstance

Next ==
  \/ \E o \in Calls :
       Call(o) \/ Schedule(o) \/ StartWrite(o) \/ CallStep(o) \/ Unusable(o)
  \/ InitStep \/ BeginReset \/ ResetStep

Spec == Init /\ [][Next]_vars

(* Driver calls settle, and do not report good handles as disconnected for *)
(* ever; continuations run; the free queue does not forget a write.        *)
Fairness ==
  /\ \A o \in Calls : WF_vars(CallStep(o) \/ Unusable(o)) /\ SF_vars(Usable(o))
  /\ \A o \in Writes : SF_vars(StartWrite(o))
  /\ WF_vars(InitStep) /\ WF_vars(ResetStep)

FairSpec == Spec /\ Fairness

-----------------------------------------------------------------------------
Awaits == {"idle", "gate", "queued", "passed", "init", "pool", "check", "connect",
           "run"}

TypeOK ==
  /\ {instance, init} \subseteq Instances \cup {Null}
  /\ opening \subseteq Instances /\ failed \subseteq Instances
  /\ open \subseteq Instances
  /\ owner \in [Conns -> Instances \cup {Null}]
  /\ pool \in Seq(Conns) /\ Len(pool) <= PoolSize
  /\ inUse \subseteq Conns /\ active \in Nat /\ resets \in Nat
  /\ queue \in [at : {"open", "stopped"}, running : SUBSET Writes]
  /\ op \in [Calls ->
       [at : Awaits, conn : Conns \cup {Null}, inst : Instances \cup {Null}]]
  /\ reset \in [at : {"none", "queue", "wait", "close", "late"},
                old : Instances \cup {Null}, pending : Instances \cup {Null}]

(* A connection serves one call at a time, and none while it is pooled,    *)
(* also when a call that outlived a reset returns a handle to the new pool.*)
OneUser ==
  /\ \A o, p \in Calls :
       o # p /\ op[o].conn # Null => op[o].conn # op[p].conn
  /\ Held \cap Range(pool) = {}
  /\ \A j, k \in 1..Len(pool) : j # k => pool[j] # pool[k]

(* Writes never overlap, not even a write of the queue that is torn down   *)
(* and one of the queue that replaces it (docs/architecture.md, "Write     *)
(* Serialization").                                                        *)
Executing == {o \in Writes : op[o].at \notin {"idle", "queued"}}
SingleWriter == \A o, p \in Executing : o = p

(* A counted operation keeps its connection open until it ends: no reset   *)
(* closes it underneath.                                                   *)
CountedKeepsConnection ==
  \A o \in Calls \ Vacuums : op[o].at = "run" => owner[op[o].conn] # Null

(* When nothing is being opened or torn down, the one open instance is the *)
(* current one, but for those whose own initialization failed after it had *)
(* opened them: an initialization that a reset overtakes leaves no other.  *)
NoInstanceLost ==
  reset.at = "none" /\ opening = {} =>
    open \ failed = {instance} \ {Null} /\ (init = instance \/ init \in failed)

(* A reset ends, although it waits for writes and writes need the instance.*)
ResetCompletes == reset.at # "none" ~> reset.at = "none"

(* Every read settles, those that a reset overtakes included.              *)
ReadsSettle == \A o \in Reads : op[o].at # "idle" ~> op[o].at = "idle"

(* docs/architecture.md: "teardown closes pooled handles only after        *)
(* in-flight reads and currently executing DB work complete".              *)
TeardownAfterReads ==
  [][Close /\ Range(pool) \cup inUse # {} =>
       \A o \in Reads : op[o].at \notin {"check", "connect", "run"}]_vars
=============================================================================
