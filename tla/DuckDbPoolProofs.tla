-------------------------- MODULE DuckDbPoolProofs --------------------------
(***************************************************************************)
(* Proofs about DuckDbPool for any calls, handles and size of the pool.    *)
(***************************************************************************)
EXTENDS DuckDbPool, TLAPS, SequenceTheorems, FiniteSetTheorems

USE DEF instanceVars, poolVars, Idle, NoReset, NewQueue

OpType == [at : Awaits, conn : Conns \cup {Null}, inst : Instances \cup {Null}]
ResetType == [at : {"none", "queue", "wait", "close", "late"},
              old : Instances \cup {Null}, pending : Instances \cup {Null}]
QueueType == [at : {"open", "stopped"}, running : SUBSET Writes]

-----------------------------------------------------------------------------
(* The records of the calls, the queue and the reset, updated.             *)
LEMMA AtType ==
  ASSUME TypeOK, NEW o \in Calls, NEW at \in Awaits, At(o, at)
  PROVE  op' \in [Calls -> OpType]
  BY DEF TypeOK, At, OpType

LEMMA EndType ==
  ASSUME TypeOK, NEW o \in Calls, End(o)
  PROVE  op' \in [Calls -> OpType] /\ queue' \in QueueType
  <1>1. op' \in [Calls -> OpType]
    BY DEF TypeOK, End, OpType, Awaits
  <1>2. queue' \in QueueType
    BY DEF TypeOK, End, QueueType
  <1>3. QED
    BY <1>1, <1>2

LEMMA ConnType ==
  ASSUME TypeOK, NEW o \in Calls, NEW at \in Awaits, NEW c \in Conns \cup {Null},
         op' = [op EXCEPT ![o].at = at, ![o].conn = c]
  PROVE  op' \in [Calls -> OpType]
  <1>1. op \in [Calls -> OpType] /\ op[o] \in OpType
    BY DEF TypeOK, OpType
  <1>2. [op[o] EXCEPT !.at = at, !.conn = c] \in OpType
    BY <1>1 DEF OpType
  <1>3. op' = [op EXCEPT ![o] = [op[o] EXCEPT !.at = at, !.conn = c]]
    BY <1>1
  <1>4. QED
    BY <1>1, <1>2, <1>3

LEMMA InstType ==
  ASSUME TypeOK, NEW o \in Calls, NEW at \in Awaits, NEW i \in Instances \cup {Null},
         op' = [op EXCEPT ![o].at = at, ![o].inst = i]
  PROVE  op' \in [Calls -> OpType]
  <1>1. op \in [Calls -> OpType] /\ op[o] \in OpType
    BY DEF TypeOK, OpType
  <1>2. [op[o] EXCEPT !.at = at, !.inst = i] \in OpType
    BY <1>1 DEF OpType
  <1>3. op' = [op EXCEPT ![o] = [op[o] EXCEPT !.at = at, !.inst = i]]
    BY <1>1
  <1>4. QED
    BY <1>1, <1>2, <1>3

LEMMA BeginType ==
  ASSUME TypeOK, NEW o \in Calls, NEW c \in Conns, BeginOperation(o, c)
  PROVE  op' \in [Calls -> OpType] /\ inUse' \subseteq Conns /\ active' \in Nat
  <1>1. op' \in [Calls -> OpType]
    BY ConnType DEF BeginOperation, Awaits
  <1>2. QED
    BY <1>1 DEF TypeOK, BeginOperation

(* What the end of a reset leaves.                                         *)
LEMMA FinishResetType ==
  ASSUME TypeOK, FinishReset
  PROVE  op' \in [Calls -> OpType] /\ queue' \in QueueType /\ reset' \in ResetType
  <1>0. op \in [Calls -> OpType]
    BY DEF TypeOK, OpType
  <1>1. op' \in [Calls -> OpType]
    <2>1. ASSUME NEW o \in Calls PROVE [op[o] EXCEPT !.at = "passed"] \in OpType
      BY <1>0, <2>1 DEF OpType, Awaits
    <2>2. QED
      BY <1>0, <2>1 DEF FinishReset
  <1>2. queue' \in QueueType /\ reset' \in ResetType
    BY DEF FinishReset, QueueType, ResetType
  <1>3. QED
    BY <1>1, <1>2

LEMMA ReleaseType ==
  ASSUME TypeOK, NEW c \in Conns, Release(c)
  PROVE  /\ pool' \in Seq(Conns) /\ Len(pool') <= PoolSize
         /\ owner' \in [Conns -> Instances \cup {Null}]
  <1>1. CASE Len(pool) < PoolSize /\ pool' = Append(pool, c) /\ UNCHANGED owner
    BY <1>1, AppendProperties, LenProperties, ConstantsAssumption DEF TypeOK
  <1>2. CASE /\ Len(pool) >= PoolSize
             /\ owner' = [owner EXCEPT ![c] = Null] /\ UNCHANGED pool
    BY <1>2 DEF TypeOK
  <1>3. QED
    BY <1>1, <1>2 DEF Release

LEMMA InitType == Init => TypeOK
  BY EmptySeq, ConstantsAssumption
     DEF Init, TypeOK, Awaits, Idle, NoReset, NewQueue

(* What the steps below need of the types.                                 *)
LEMMA Shape ==
  ASSUME TypeOK
  PROVE  /\ op \in [Calls -> OpType] /\ queue \in QueueType /\ reset \in ResetType
         /\ \A o \in Calls : op[o] \in OpType
         /\ Len(pool) \in Nat /\ pool \in Seq(Conns) /\ Len(pool) <= PoolSize
         /\ \A k \in 1..Len(pool) : pool[k] \in Conns
         /\ Null \notin Conns
  BY LenProperties, ElementOfSeq, ConstantsAssumption
     DEF TypeOK, OpType, QueueType, ResetType

(* Only instanceVars, only poolVars, or neither is changed by most actions.*)
LEMMA TypeFrom ==
  ASSUME TypeOK,
         op' \in [Calls -> OpType], queue' \in QueueType, reset' \in ResetType,
         resets' \in Nat,
         \/ UNCHANGED instanceVars
         \/ /\ {instance', init'} \subseteq Instances \cup {Null}
            /\ opening' \subseteq Instances /\ failed' \subseteq Instances
            /\ open' \subseteq Instances,
         \/ UNCHANGED poolVars
         \/ /\ owner' \in [Conns -> Instances \cup {Null}]
            /\ pool' \in Seq(Conns) /\ Len(pool') <= PoolSize
            /\ inUse' \subseteq Conns /\ active' \in Nat
  PROVE  TypeOK'
  BY DEF TypeOK, OpType, QueueType, ResetType

(* A call that validates or uses a connection has one.                     *)
HasConn == \A o \in Calls : op[o].at \in {"check", "run"} => op[o].conn \in Conns

LEMMA CallTypes ==
  ASSUME TypeOK, HasConn, NEW o \in Calls,
         Call(o) \/ Schedule(o) \/ StartWrite(o) \/ CallStep(o) \/ Unusable(o)
  PROVE  TypeOK'
  <1> USE Shape
  <1> DEFINE Rest == UNCHANGED <<reset, resets>>
  <1>0. resets \in Nat /\ active \in Nat
    BY DEF TypeOK
  <1>1. ASSUME Call(o) \/ Schedule(o) \/ NonePooled(o) PROVE TypeOK'
    <2>1. op' \in [Calls -> OpType]
      <3>1. op' = op \/ \E at \in Awaits : At(o, at)
        BY <1>1 DEF Call, Schedule, NonePooled, Awaits
      <3>2. QED
        BY <3>1, AtType
    <2>2. QED
      BY <1>0, <1>1, <2>1, TypeFrom DEF Call, Schedule, NonePooled
  <1>2. ASSUME StartWrite(o) PROVE TypeOK'
    <2>1. op' \in [Calls -> OpType]
      BY <1>2, AtType DEF StartWrite, Awaits
    <2>2. queue' \in QueueType
      BY <1>2 DEF StartWrite, QueueType
    <2>3. QED
      BY <1>0, <1>2, <2>1, <2>2, TypeFrom DEF StartWrite
  <1>3. ASSUME GetInstance(o) PROVE TypeOK'
    <2>0. {"pool", "init"} \subseteq Awaits
      BY DEF Awaits
    <2>1. CASE instance # Null \/ init # Null
      <3>1. /\ {instance, init} \subseteq Instances \cup {Null}
            /\ UNCHANGED <<init, opening, failed>>
            /\ \/ op' = [op EXCEPT ![o].at = "pool", ![o].inst = instance]
               \/ op' = [op EXCEPT ![o].at = "init", ![o].inst = init]
        BY <1>3, <2>1 DEF GetInstance, TypeOK
      <3>2. op' \in [Calls -> OpType]
        BY <2>0, <3>1, InstType
      <3>3. QED
        BY <1>0, <1>3, <3>1, <3>2, TypeFrom DEF GetInstance
    <2>2. CASE instance = Null /\ init = Null
      <3>1. /\ FreshInstances # {} /\ init' = CHOOSE i \in FreshInstances : TRUE
            /\ opening' = opening \cup {init'} /\ failed' = failed \ {init'}
            /\ op' = [op EXCEPT ![o].at = "init", ![o].inst = init']
        BY <1>3, <2>2 DEF GetInstance
      <3>2. init' \in Instances
        BY <3>1 DEF FreshInstances
      <3>3. op' \in [Calls -> OpType]
        BY <2>0, <3>1, <3>2, InstType
      <3>4. /\ {instance', init'} \subseteq Instances \cup {Null}
            /\ opening' \subseteq Instances /\ failed' \subseteq Instances
            /\ open' \subseteq Instances
        BY <1>3, <3>1, <3>2 DEF GetInstance, TypeOK
      <3>5. QED
        BY <1>0, <1>3, <3>3, <3>4, TypeFrom DEF GetInstance
    <2>3. QED
      BY <2>1, <2>2
  <1>4. ASSUME InitAwaited(o) \/ ConnectFails(o) PROVE TypeOK'
    <2>1. op' \in [Calls -> OpType] /\ queue' \in QueueType
      <3>1. CASE End(o)
        BY <3>1, EndType
      <3>2. CASE At(o, "pool") /\ UNCHANGED queue
        BY <3>2, AtType DEF Awaits
      <3>3. QED
        BY <1>4, <3>1, <3>2 DEF InitAwaited, ConnectFails
    <2>2. QED
      BY <1>0, <1>4, <2>1, TypeFrom DEF InitAwaited, ConnectFails
  <1>5. ASSUME TakePooled(o) PROVE TypeOK'
    <2>1. Len(pool) \in 1..Len(pool)
      BY <1>5, EmptySeq DEF TakePooled
    <2>2. op' \in [Calls -> OpType]
      BY <1>5, <2>1, ConnType DEF TakePooled, Awaits
    <2>3. pool' \in Seq(Conns) /\ Len(pool') <= PoolSize
      BY <1>5, <2>1, SubSeqProperties, ConstantsAssumption DEF TakePooled
    <2>4. QED
      BY <1>0, <1>5, <2>2, <2>3, TypeFrom DEF TakePooled, TypeOK
  <1>6. ASSUME Usable(o) PROVE TypeOK'
    <2>1. op[o].conn \in Conns
      BY <1>6 DEF Usable, HasConn
    <2>2. QED
      BY <1>0, <1>6, <2>1, BeginType, TypeFrom DEF Usable, TypeOK
  <1>7. ASSUME Unusable(o) PROVE TypeOK'
    <2>1. op' \in [Calls -> OpType]
      BY <1>7, ConnType DEF Unusable, Awaits
    <2>2. owner' \in [Conns -> Instances \cup {Null}]
      BY <1>7 DEF Unusable, TypeOK
    <2>3. QED
      BY <1>0, <1>7, <2>1, <2>2, TypeFrom DEF Unusable, TypeOK
  <1>8. ASSUME Connect(o) PROVE TypeOK'
    <2>1. PICK c \in Conns :
            /\ owner' = [owner EXCEPT ![c] = op[o].inst]
            /\ \/ BeginOperation(o, c)
               \/ /\ op' = [op EXCEPT ![o].at = "run", ![o].conn = c]
                  /\ UNCHANGED <<inUse, active>>
      <3>1. (CHOOSE d \in FreshConns : TRUE) \in Conns
        BY <1>8 DEF Connect, FreshConns
      <3>2. QED
        BY <1>8, <3>1 DEF Connect
    <2>2. op' \in [Calls -> OpType] /\ inUse' \subseteq Conns /\ active' \in Nat
      <3>1. CASE BeginOperation(o, c)
        BY <3>1, BeginType
      <3>2. CASE /\ op' = [op EXCEPT ![o].at = "run", ![o].conn = c]
                 /\ UNCHANGED <<inUse, active>>
        <4>1. op' \in [Calls -> OpType]
          BY <3>2, ConnType DEF Awaits
        <4>2. QED
          BY <3>2, <4>1 DEF TypeOK
      <3>3. QED
        BY <2>1, <3>1, <3>2
    <2>3. owner' \in [Conns -> Instances \cup {Null}]
      BY <2>1 DEF TypeOK, OpType
    <2>4. QED
      BY <1>0, <1>8, <2>2, <2>3, TypeFrom DEF Connect, TypeOK
  <1>9. ASSUME Finish(o) PROVE TypeOK'
    <2>1. active' \in Nat /\ inUse' \subseteq Conns
      BY <1>0, <1>9 DEF Finish, TypeOK
    <2>2. reset' \in ResetType
      BY <1>9 DEF Finish, ResetType
    <2>3. op[o].conn \in Conns
      BY <1>9 DEF Finish, HasConn
    <2>4. QED
      BY <1>0, <1>9, <2>1, <2>2, <2>3, EndType, ReleaseType, TypeFrom DEF Finish
  <1>10. ASSUME FinishVacuum(o) PROVE TypeOK'
    <2>1. owner' \in [Conns -> Instances \cup {Null}]
      BY <1>10 DEF FinishVacuum, TypeOK
    <2>2. QED
      BY <1>0, <1>10, <2>1, EndType, TypeFrom DEF FinishVacuum, TypeOK
  <1>11. QED
    BY <1>1, <1>2, <1>3, <1>4, <1>5, <1>6, <1>7, <1>8, <1>9, <1>10 DEF CallStep

LEMMA OtherTypes ==
  ASSUME TypeOK, InitStep \/ BeginReset \/ ResetStep
  PROVE  TypeOK'
  <1> USE Shape
  <1>0. resets \in Nat /\ active \in Nat
    BY DEF TypeOK
  <1>1. ASSUME InitStep PROVE TypeOK'
    <2>1. PICK i \in Instances :
            i \in opening /\ (InstanceOpened(i) \/ InitReady(i) \/ InitFails(i))
      BY <1>1 DEF InitStep, TypeOK
    <2>2. /\ {instance', init'} \subseteq Instances \cup {Null}
          /\ opening' \subseteq Instances /\ failed' \subseteq Instances
          /\ open' \subseteq Instances
      BY <2>1 DEF InstanceOpened, InitReady, InitFails, TypeOK
    <2>3. UNCHANGED poolVars /\ UNCHANGED <<queue, op, reset, resets>>
      BY <2>1 DEF InstanceOpened, InitReady, InitFails
    <2>4. /\ op' \in [Calls -> OpType] /\ queue' \in QueueType
          /\ reset' \in ResetType /\ resets' \in Nat
      BY <1>0, <2>3
    <2>5. QED
      BY <2>2, <2>3, <2>4, TypeFrom
  <1>2. ASSUME BeginReset PROVE TypeOK'
    <2>1. op' \in [Calls -> OpType]
      BY <1>2 DEF BeginReset, OpType, Awaits
    <2>2. reset' \in ResetType /\ queue' \in QueueType /\ resets' \in Nat
      BY <1>0, <1>2 DEF BeginReset, ResetType, QueueType
    <2>3. QED
      BY <1>2, <2>1, <2>2, TypeFrom DEF BeginReset
  <1>3. ASSUME QueueStopped PROVE TypeOK'
    <2>1. reset' \in ResetType
      BY <1>3 DEF QueueStopped, ResetType
    <2>2. QED
      BY <1>0, <1>3, <2>1, TypeFrom DEF QueueStopped
  <1>4. ASSUME Close PROVE TypeOK'
    <2>1. op' \in [Calls -> OpType] /\ queue' \in QueueType /\ reset' \in ResetType
      <3>1. CASE FinishReset
        BY <3>1, FinishResetType
      <3>2. CASE /\ reset' = [at |-> "late", old |-> instance, pending |-> init]
                 /\ UNCHANGED <<queue, op>>
        BY <3>2 DEF TypeOK, ResetType
      <3>3. QED
        BY <1>4, <3>1, <3>2 DEF Close, AfterClose
    <2>2. /\ owner' \in [Conns -> Instances \cup {Null}]
          /\ pool' \in Seq(Conns) /\ Len(pool') <= PoolSize
          /\ inUse' \subseteq Conns /\ active' \in Nat
      <3>1. pool' \in Seq(Conns) /\ Len(pool') = 0
        BY <1>4, EmptySeq DEF Close
      <3>2. owner' \in [Conns -> Instances \cup {Null}]
        BY <1>4 DEF Close, TypeOK
      <3>3. QED
        BY <1>0, <1>4, <3>1, <3>2, ConstantsAssumption DEF Close
    <2>3. /\ {instance', init'} \subseteq Instances \cup {Null}
          /\ opening' \subseteq Instances /\ failed' \subseteq Instances
          /\ open' \subseteq Instances
      BY <1>4 DEF Close, TypeOK
    <2>4. QED
      BY <1>0, <1>4, <2>1, <2>2, <2>3, TypeFrom DEF Close
  <1>5. ASSUME LateInstance PROVE TypeOK'
    <2>1. op' \in [Calls -> OpType] /\ queue' \in QueueType /\ reset' \in ResetType
      BY <1>5, FinishResetType DEF LateInstance
    <2>2. /\ {instance', init'} \subseteq Instances \cup {Null}
          /\ opening' \subseteq Instances /\ failed' \subseteq Instances
          /\ open' \subseteq Instances
      BY <1>5 DEF LateInstance, TypeOK
    <2>3. QED
      BY <1>0, <1>5, <2>1, <2>2, TypeFrom DEF LateInstance
  <1>6. QED
    BY <1>1, <1>2, <1>3, <1>4, <1>5 DEF ResetStep

-----------------------------------------------------------------------------
(* The invariant behind SingleWriter: the writes that execute are those of *)
(* the present queue, at most one, and none once the reset is past stop(). *)
Out == {"idle", "queued"}
OneRunning ==
  /\ \A o \in Writes : op[o].at \notin Out <=> o \in queue.running
  /\ \A o, p \in queue.running : o = p
  /\ reset.at \in {"wait", "close", "late"} => queue.running = {}
  /\ reset.at # "none" => queue.at = "stopped"

IInv == TypeOK /\ HasConn /\ OneRunning

(* The step of a call: where it may go, and what the others keep.          *)
CallMoves(o) ==
  /\ \A p \in Calls \ {o} : op'[p] = op[p]
  /\ op'[o].at \in {"check", "run"} => op'[o].conn \in Conns
  /\ \/ op[o].at \in Out /\ op'[o].at \in Out /\ queue' = queue
     \/ o \notin Writes /\ queue' = queue
     \/ op[o].at \notin Out /\ op'[o].at \notin Out /\ queue' = queue
     \/ End(o)
     \/ StartWrite(o) /\ op'[o].at \notin Out
  /\ reset' = reset \/ (reset.at = "wait" /\ reset'.at = "close")

LEMMA CallStepMoves ==
  ASSUME TypeOK, HasConn, NEW o \in Calls,
         Call(o) \/ Schedule(o) \/ StartWrite(o) \/ CallStep(o) \/ Unusable(o)
  PROVE  CallMoves(o)
  <1> USE Shape DEF Out
  <1>0. op \in [Calls -> OpType] /\ op[o] \in OpType
    OBVIOUS
  <1>1. ASSUME Call(o) PROVE CallMoves(o)
    BY <1>0, <1>1 DEF Call, At, CallMoves, OpType
  <1>2. ASSUME Schedule(o) PROVE CallMoves(o)
    BY <1>0, <1>2 DEF Schedule, At, CallMoves, OpType
  <1>3. ASSUME StartWrite(o) PROVE CallMoves(o)
    <2>1. op' = [op EXCEPT ![o].at = "passed"] /\ reset' = reset
      BY <1>3 DEF StartWrite, At
    <2>2. op'[o].at = "passed" /\ \A p \in Calls \ {o} : op'[p] = op[p]
      BY <1>0, <2>1 DEF OpType
    <2>3. QED
      BY <1>3, <2>1, <2>2 DEF CallMoves
  <1>4. ASSUME GetInstance(o) PROVE CallMoves(o)
    <2>1. PICK i, at : at \in {"pool", "init"}
                       /\ op' = [op EXCEPT ![o].at = at, ![o].inst = i]
      BY <1>4 DEF GetInstance
    <2>2. op'[o].at = at /\ \A p \in Calls \ {o} : op'[p] = op[p]
      BY <1>0, <2>1 DEF OpType
    <2>3. op[o].at = "passed" /\ queue' = queue /\ reset' = reset
      BY <1>4 DEF GetInstance
    <2>4. QED
      BY <2>1, <2>2, <2>3 DEF CallMoves
  <1>5. ASSUME End(o), reset' = reset \/ (reset.at = "wait" /\ reset'.at = "close")
        PROVE  CallMoves(o)
    BY <1>0, <1>5 DEF End, CallMoves, OpType
  <1>6. ASSUME InitAwaited(o) \/ ConnectFails(o) PROVE CallMoves(o)
    <2>1. CASE End(o)
      BY <1>5, <1>6, <2>1 DEF InitAwaited, ConnectFails
    <2>2. CASE At(o, "pool") /\ op[o].at = "init" /\ UNCHANGED <<queue, reset>>
      BY <1>0, <2>2 DEF At, CallMoves, OpType
    <2>3. QED
      BY <1>6, <2>1, <2>2 DEF InitAwaited, ConnectFails
  <1>7. ASSUME NEW c, NEW at \in {"check", "run", "pool"},
               op' = [op EXCEPT ![o].at = at, ![o].conn = c],
               at # "pool" => c \in Conns,
               op[o].at \notin Out, UNCHANGED <<queue, reset>>
        PROVE  CallMoves(o)
    <2>1. op'[o].at = at /\ op'[o].conn = c /\ \A p \in Calls \ {o} : op'[p] = op[p]
      BY <1>0, <1>7 DEF OpType
    <2>2. QED
      BY <1>7, <2>1 DEF CallMoves
  <1>8. ASSUME TakePooled(o) PROVE CallMoves(o)
    <2>1. pool[Len(pool)] \in Conns
      BY <1>8, EmptySeq DEF TakePooled
    <2>2. QED
      BY <1>7, <1>8, <2>1 DEF TakePooled
  <1>9. ASSUME NonePooled(o) PROVE CallMoves(o)
    BY <1>0, <1>9 DEF NonePooled, At, CallMoves, OpType
  <1>10. ASSUME Usable(o) PROVE CallMoves(o)
    BY <1>7, <1>10 DEF Usable, BeginOperation, HasConn
  <1>11. ASSUME Unusable(o) PROVE CallMoves(o)
    BY <1>7, <1>11 DEF Unusable
  <1>12. ASSUME Connect(o) PROVE CallMoves(o)
    <2>1. PICK c \in Conns : op' = [op EXCEPT ![o].at = "run", ![o].conn = c]
      <3>1. (CHOOSE d \in FreshConns : TRUE) \in Conns
        BY <1>12 DEF Connect, FreshConns
      <3>2. QED
        BY <1>12, <3>1 DEF Connect, BeginOperation
    <2>2. QED
      BY <1>7, <1>12, <2>1 DEF Connect
  <1>13. ASSUME Finish(o) \/ FinishVacuum(o) PROVE CallMoves(o)
    <2>1. reset' = reset \/ (reset.at = "wait" /\ reset'.at = "close")
      BY <1>13 DEF Finish, FinishVacuum, ResetType
    <2>2. QED
      BY <1>5, <1>13, <2>1 DEF Finish, FinishVacuum
  <1>14. QED
    BY <1>1, <1>2, <1>3, <1>4, <1>6, <1>8, <1>9, <1>10, <1>11, <1>12, <1>13
       DEF CallStep

LEMMA InitIInv == Init => IInv
  <1>1. Init => TypeOK
    BY InitType
  <1>2. Init => HasConn /\ OneRunning
    BY DEF Init, HasConn, OneRunning, Out, Calls
  <1>3. QED
    BY <1>1, <1>2 DEF IInv

LEMMA CallKeeps ==
  ASSUME IInv, NEW o \in Calls,
         Call(o) \/ Schedule(o) \/ StartWrite(o) \/ CallStep(o) \/ Unusable(o)
  PROVE  IInv'
  <1> USE Shape
  <1>0. TypeOK /\ HasConn /\ OneRunning
    BY DEF IInv
  <1>1. TypeOK' /\ CallMoves(o)
    BY <1>0, CallTypes, CallStepMoves
  <1>2. HasConn'
    BY <1>0, <1>1 DEF CallMoves, HasConn
  <1>3. /\ reset'.at \in {"wait", "close", "late"} => reset.at \in {"wait", "close", "late"}
        /\ reset'.at # "none" => reset.at # "none"
    BY <1>1 DEF CallMoves
  <1>4. OneRunning'
    <2>0. \A p \in Writes \ {o} : p \in Calls /\ op'[p].at = op[p].at
      BY <1>1 DEF CallMoves, Calls
    <2>1. ASSUME queue' = queue,
                 o \in Writes => (op'[o].at \notin Out <=> op[o].at \notin Out)
          PROVE  OneRunning'
      <3>1. \A p \in Writes : op'[p].at \notin Out <=> op[p].at \notin Out
        BY <2>0, <2>1
      <3>2. QED
        BY <1>0, <1>3, <2>1, <3>1 DEF OneRunning
    <2>2. CASE End(o)
      <3>1. /\ queue'.running = queue.running \ {o} /\ queue'.at = queue.at
            /\ op'[o].at \in Out
        BY <1>0, <2>2 DEF End, QueueType, Out, OpType
      <3>2. \A p \in Writes : op'[p].at \notin Out <=> p \in queue'.running
        <4>1. SUFFICES ASSUME NEW p \in Writes
                       PROVE  op'[p].at \notin Out <=> p \in queue'.running
          OBVIOUS
        <4>2. CASE p = o
          BY <3>1, <4>2
        <4>3. CASE p # o
          BY <1>0, <2>0, <3>1, <4>3 DEF OneRunning
        <4>4. QED
          BY <4>2, <4>3
      <3>3. QED
        BY <1>0, <1>3, <3>1, <3>2 DEF OneRunning
    <2>3. CASE StartWrite(o) /\ op'[o].at \notin Out
      <3>1. /\ queue'.running = {o} /\ queue.running = {} /\ queue'.at = queue.at
            /\ queue.at = "open" /\ o \in Writes
        BY <1>0, <2>3 DEF StartWrite, QueueType
      <3>2. \A p \in Writes : op'[p].at \notin Out <=> p \in queue'.running
        <4>1. SUFFICES ASSUME NEW p \in Writes
                       PROVE  op'[p].at \notin Out <=> p \in queue'.running
          OBVIOUS
        <4>2. CASE p = o
          BY <2>3, <3>1, <4>2
        <4>3. CASE p # o
          BY <1>0, <2>0, <3>1, <4>3 DEF OneRunning
        <4>4. QED
          BY <4>2, <4>3
      <3>3. reset.at = "none"
        BY <1>0, <3>1 DEF OneRunning
      <3>4. QED
        BY <1>3, <3>1, <3>2, <3>3 DEF OneRunning
    <2>4. QED
      BY <1>1, <2>1, <2>2, <2>3 DEF CallMoves
  <1>5. QED
    BY <1>1, <1>2, <1>4 DEF IInv

LEMMA ResetKeeps ==
  ASSUME IInv, InitStep \/ BeginReset \/ ResetStep
  PROVE  IInv'
  <1> USE Shape
  <1>0. TypeOK /\ HasConn /\ OneRunning
    BY DEF IInv
  <1>1. TypeOK'
    BY <1>0, OtherTypes
  <1>2. ASSUME op' = op, queue' = queue,
               reset'.at = reset.at \/ queue.running = {},
               reset'.at # "none" => reset.at # "none"
        PROVE  HasConn' /\ OneRunning'
    BY <1>0, <1>2 DEF HasConn, OneRunning
  <1>3. ASSUME FinishReset, queue.running = {} PROVE HasConn' /\ OneRunning'
    <2>1. /\ queue'.running = {} /\ reset'.at = "none"
          /\ \A o \in Calls : op'[o] = op[o] \/ (op[o].at = "gate" /\ op'[o].at = "passed")
      BY <1>0, <1>3 DEF FinishReset, OpType
    <2>2. \A o \in Writes : op'[o].at \notin Out <=> op[o].at \notin Out
      BY <2>1 DEF Out, Calls
    <2>3. HasConn'
      BY <1>0, <2>1 DEF HasConn
    <2>4. QED
      BY <1>0, <1>3, <2>1, <2>2, <2>3 DEF OneRunning
  <1>4. CASE InitStep
    BY <1>1, <1>2, <1>4 DEF InitStep, InstanceOpened, InitReady, InitFails, IInv
  <1>5. CASE BeginReset
    <2>1. /\ queue'.running = queue.running /\ queue'.at = "stopped" /\ reset'.at = "queue"
          /\ \A o \in Calls : op'[o] = op[o] \/ (op[o].at = "queued" /\ op'[o].at = "idle")
      BY <1>0, <1>5 DEF BeginReset, QueueType, ResetType
    <2>2. \A o \in Writes : op'[o].at \notin Out <=> op[o].at \notin Out
      BY <2>1 DEF Out, Calls
    <2>3. HasConn'
      BY <1>0, <2>1 DEF HasConn
    <2>4. OneRunning'
      BY <1>0, <2>1, <2>2 DEF OneRunning
    <2>5. QED
      BY <1>1, <2>3, <2>4 DEF IInv
  <1>6. CASE QueueStopped
    BY <1>1, <1>2, <1>6 DEF QueueStopped, IInv
  <1>7. CASE Close \/ LateInstance
    <2>1. queue.running = {} /\ reset.at \in {"close", "late"}
      BY <1>0, <1>7 DEF Close, LateInstance, OneRunning
    <2>2. CASE FinishReset
      BY <1>1, <1>3, <2>1, <2>2 DEF IInv
    <2>3. CASE UNCHANGED <<queue, op>>
      BY <1>1, <1>2, <2>1, <2>3 DEF IInv
    <2>4. QED
      BY <1>7, <2>2, <2>3 DEF Close, AfterClose, LateInstance
  <1>8. QED
    BY <1>4, <1>5, <1>6, <1>7 DEF ResetStep

LEMMA NextIInv == IInv /\ [Next]_vars => IInv'
  <1>1. ASSUME IInv, UNCHANGED vars PROVE IInv'
    BY <1>1 DEF IInv, vars, TypeOK, HasConn, OneRunning
  <1>2. QED
    BY <1>1, CallKeeps, ResetKeeps DEF Next

LEMMA Invariant == Spec => []IInv
  BY InitIInv, NextIInv, PTL DEF Spec

-----------------------------------------------------------------------------
(* The variables keep their types, and the pool its size.                  *)
THEOREM TypeCorrect == Spec => []TypeOK
  <1>1. IInv => TypeOK
    BY DEF IInv
  <1>2. QED
    BY <1>1, Invariant, PTL

(* Writes never overlap, not even one of a queue that is torn down and one *)
(* of the queue that replaces it.                                          *)
THEOREM SingleWriterHolds == Spec => []SingleWriter
  <1>1. IInv => SingleWriter
    BY DEF IInv, OneRunning, SingleWriter, Executing, Out
  <1>2. QED
    BY <1>1, Invariant, PTL

-----------------------------------------------------------------------------
(* Who has which connection. A call has one while it validates or runs; it *)
(* knows its instance before that; a vacuum takes nothing from the pool.   *)
Staged == \A o \in Calls :
  /\ op[o].conn # Null <=> op[o].at \in {"check", "run"}
  /\ op[o].at \in {"init", "pool", "check", "connect"} => op[o].inst # Null
  /\ o \in Vacuums => op[o].at # "check"

(* OneUser, element by element.                                            *)
Exclusive ==
  /\ \A o, p \in Calls : o # p /\ op[o].conn # Null => op[o].conn # op[p].conn
  /\ \A o \in Calls, k \in 1..Len(pool) : op[o].conn # pool[k]
  /\ \A j, k \in 1..Len(pool) : j # k => pool[j] # pool[k]

(* The operations that resetDbInstance waits for are those that run, and   *)
(* their connections are open.                                             *)
Counted == {o \in Calls \ Vacuums : op[o].at = "run"}

CountIsRight ==
  /\ active = Cardinality(Counted)
  /\ reset.at = "close" => Counted = {}
  /\ \A o \in Counted : owner[op[o].conn] # Null

Handles == Staged /\ Exclusive /\ CountIsRight

Others(o) == \A p \in Calls \ {o} : op'[p] = op[p]

LEMMA CountedFinite == IsFiniteSet(Counted) /\ Cardinality(Counted) \in Nat
  <1>1. IsFiniteSet(Counted)
    BY ConstantsAssumption, FS_Subset DEF Counted
  <1> QED
    BY <1>1, FS_CardinalityType

(* A call takes a step without a connection.                               *)
Bare(o) ==
  /\ op[o].at \notin {"check", "run"} /\ op'[o].at \notin {"check", "run"}
  /\ op[o].conn = Null /\ op'[o].conn = Null
  /\ op'[o].at \in {"init", "pool", "connect"} => op'[o].inst # Null
  /\ UNCHANGED <<owner, pool, active, reset>>

LEMMA BareMoves ==
  ASSUME TypeOK, HasConn, Staged, NEW o \in Calls,
         \/ Call(o) \/ Schedule(o) \/ StartWrite(o) \/ GetInstance(o)
         \/ InitAwaited(o) \/ NonePooled(o) \/ ConnectFails(o)
  PROVE  Bare(o)
  <1> USE Shape
  <1>0. /\ op \in [Calls -> OpType] /\ op[o] \in OpType
        /\ op[o].conn # Null <=> op[o].at \in {"check", "run"}
        /\ op[o].at \in {"init", "pool", "check", "connect"} => op[o].inst # Null
    BY DEF Staged
  <1>1. ASSUME NEW at, At(o, at), at \notin {"check", "run", "init"},
               op[o].at \notin {"check", "run"}, UNCHANGED <<owner, pool, active, reset>>,
               at \in {"pool", "connect"} => op[o].at \in {"init", "pool"}
        PROVE  Bare(o)
    BY <1>0, <1>1 DEF At, Bare, OpType
  <1>2. ASSUME op' = op, op[o].at \notin {"check", "run"},
               UNCHANGED <<owner, pool, active, reset>>
        PROVE  Bare(o)
    BY <1>0, <1>2 DEF Bare
  <1>3. ASSUME End(o), op[o].at \notin {"check", "run"},
               UNCHANGED <<owner, pool, active, reset>>
        PROVE  Bare(o)
    BY <1>0, <1>3 DEF End, Bare, OpType
  <1>4. CASE Call(o)
    BY <1>1, <1>4 DEF Call
  <1>5. CASE Schedule(o)
    BY <1>1, <1>2, <1>5 DEF Schedule
  <1>6. CASE StartWrite(o)
    BY <1>1, <1>6 DEF StartWrite
  <1>7. CASE GetInstance(o)
    <2>1. PICK i, at : /\ at \in {"pool", "init"} /\ i # Null
                       /\ op' = [op EXCEPT ![o].at = at, ![o].inst = i]
      <3>1. CASE instance = Null /\ init = Null
        <4>1. init' \in FreshInstances /\ op' = [op EXCEPT ![o].at = "init", ![o].inst = init']
          BY <1>7, <3>1 DEF GetInstance
        <4>2. init' # Null
          BY <4>1, ConstantsAssumption DEF FreshInstances
        <4> QED
          BY <4>1, <4>2
      <3>2. CASE instance # Null \/ init # Null
        BY <1>7, <3>2 DEF GetInstance
      <3> QED
        BY <3>1, <3>2
    <2>2. op'[o].at = at /\ op'[o].inst = i /\ op'[o].conn = op[o].conn
      BY <1>0, <2>1 DEF OpType
    <2> QED
      BY <1>0, <1>7, <2>1, <2>2 DEF GetInstance, Bare
  <1>8. CASE InitAwaited(o)
    BY <1>1, <1>3, <1>8 DEF InitAwaited
  <1>9. CASE NonePooled(o)
    BY <1>1, <1>9 DEF NonePooled
  <1>10. CASE ConnectFails(o)
    BY <1>3, <1>10 DEF ConnectFails
  <1> QED
    BY <1>4, <1>5, <1>6, <1>7, <1>8, <1>9, <1>10

LEMMA BareKeeps ==
  ASSUME TypeOK, Handles, NEW o \in Calls, Bare(o), Others(o)
  PROVE  Handles'
  <1>1. Staged'
    BY DEF Handles, Staged, Bare, Others
  <1>2. Exclusive'
    BY DEF Handles, Exclusive, Bare, Others
  <1>3. Counted' = Counted
    BY DEF Bare, Others, Counted
  <1>4. CountIsRight'
    <2>1. \A p \in Counted : p # o /\ op'[p] = op[p]
      BY DEF Counted, Bare, Others
    <2> QED
      BY <1>3, <2>1 DEF Handles, CountIsRight, Bare
  <1> QED
    BY <1>1, <1>2, <1>4 DEF Handles

(* pop() leaves all but the last element.                                  *)
LEMMA AllButLast ==
  ASSUME NEW S, NEW s \in Seq(S), Len(s) \in Nat \ {0}
  PROVE  LET t == SubSeq(s, 1, Len(s) - 1)
         IN  /\ Len(t) = Len(s) - 1
             /\ \A k \in 1..Len(t) : k \in 1..Len(s) /\ k # Len(s) /\ t[k] = s[k]
  <1> DEFINE n == Len(s) - 1
             t == SubSeq(s, 1, n)
  <1>1. n \in Nat /\ 1 \in Int /\ n \in Int /\ \A k \in 1..n : s[k] \in S /\ k \in 1..Len(s) /\ k # Len(s)
    OBVIOUS
  <1> HIDE DEF n
  <1>2. /\ Len(t) = IF 1 <= n THEN n - 1 + 1 ELSE 0
        /\ \A k \in 1..(n - 1 + 1) : t[k] = s[1 + k - 1]
    BY <1>1, SubSeqProperties
  <1>3. Len(t) = n
    BY <1>1, <1>2
  <1>4. ASSUME NEW k \in 1..n PROVE t[k] = s[k]
    BY <1>1, <1>2
  <1> QED
    BY <1>1, <1>3, <1>4 DEF n

LEMMA TakeKeeps ==
  ASSUME TypeOK, Handles, NEW o \in Calls, TakePooled(o), Others(o)
  PROVE  Handles'
  <1> USE Shape
  <1>0. Len(pool) \in 1..Len(pool) /\ pool[Len(pool)] \in Conns /\ op[o] \in OpType
    BY EmptySeq DEF TakePooled
  <1>1. /\ op[o].at = "pool" /\ o \notin Vacuums
        /\ op'[o].at = "check" /\ op'[o].conn = pool[Len(pool)] /\ op'[o].inst = op[o].inst
        /\ UNCHANGED <<owner, active, reset>>
    BY <1>0 DEF TakePooled, OpType
  <1>2. /\ Len(pool') = Len(pool) - 1
        /\ \A k \in 1..Len(pool') : k \in 1..Len(pool) /\ k # Len(pool) /\ pool'[k] = pool[k]
    <2>1. pool \in Seq(Conns) /\ Len(pool) \in Nat \ {0} /\ pool' = SubSeq(pool, 1, Len(pool) - 1)
      BY <1>0 DEF TypeOK, TakePooled
    <2> QED
      BY <2>1, AllButLast
  <1>3. Staged'
    BY <1>0, <1>1 DEF Handles, Staged, Others
  <1>4. Exclusive'
    <2>1. \A p \in Calls \ {o} : op'[p].conn = op[p].conn /\ op[p].conn # pool[Len(pool)]
      BY <1>0 DEF Handles, Exclusive, Others
    <2>2. \A p, q \in Calls : p # q /\ op'[p].conn # Null => op'[p].conn # op'[q].conn
      BY <1>1, <2>1 DEF Handles, Exclusive
    <2>3. \A p \in Calls, k \in 1..Len(pool') : op'[p].conn # pool'[k]
      BY <1>0, <1>1, <1>2, <2>1 DEF Handles, Exclusive
    <2> QED
      BY <1>2, <2>2, <2>3 DEF Handles, Exclusive
  <1>5. CountIsRight'
    <2>1. Counted' = Counted
      BY <1>1 DEF Others, Counted
    <2>2. \A p \in Counted : op'[p] = op[p]
      BY <1>1 DEF Counted, Others
    <2> QED
      BY <1>1, <2>1, <2>2 DEF Handles, CountIsRight
  <1> QED
    BY <1>3, <1>4, <1>5 DEF Handles

(* A call that gets a connection that no other call and not the pool has.  *)
LEMMA RunKeeps ==
  ASSUME TypeOK, Handles, NEW o \in Calls, Others(o), NEW c \in Conns,
         op[o].at # "run", op'[o].at = "run", op'[o].conn = c,
         \A p \in Calls \ {o} : op[p].conn # c,
         \A k \in 1..Len(pool) : pool[k] # c,
         UNCHANGED <<pool, reset>>, reset.at # "close",
         owner'[c] # Null, \A d \in Conns \ {c} : owner'[d] = owner[d],
         active' = IF o \in Vacuums THEN active ELSE active + 1
  PROVE  Handles'
  <1> USE Shape
  <1>1. Staged'
    BY DEF Handles, Staged, Others
  <1>2. Exclusive'
    BY DEF Handles, Exclusive, Others
  <1>3. active' = Cardinality(Counted')
    <2>1. CASE o \in Vacuums
      <3>1. Counted' = Counted
        BY <2>1 DEF Others, Counted
      <3> QED
        BY <2>1, <3>1 DEF Handles, CountIsRight
    <2>2. CASE o \notin Vacuums
      <3>1. Counted' = Counted \cup {o} /\ o \notin Counted
        BY <2>2 DEF Others, Counted
      <3>2. Cardinality(Counted \cup {o}) = Cardinality(Counted) + 1
        BY <3>1, CountedFinite, FS_AddElement
      <3> QED
        BY <2>2, <3>1, <3>2 DEF Handles, CountIsRight
    <2> QED
      BY <2>1, <2>2
  <1>4. ASSUME NEW p \in Counted' PROVE owner'[op'[p].conn] # Null
    <2>1. CASE p = o
      BY <2>1
    <2>2. CASE p # o
      <3>1. p \in Counted /\ p \in Calls \ {o} /\ op'[p] = op[p]
        BY <1>4, <2>2 DEF Counted, Others
      <3>2. op[p].conn \in Conns \ {c} /\ owner[op[p].conn] # Null
        BY <3>1 DEF Handles, CountIsRight, Staged, OpType, Counted
      <3> QED
        BY <3>1, <3>2
    <2> QED
      BY <2>1, <2>2
  <1> QED
    BY <1>1, <1>2, <1>3, <1>4 DEF Handles, CountIsRight

LEMMA BeginKeeps ==
  ASSUME TypeOK, Handles, NEW o \in Calls, Usable(o) \/ Connect(o), Others(o)
  PROVE  Handles'
  <1> USE Shape
  <1>0. op[o] \in OpType /\ op \in [Calls -> OpType] /\ owner \in [Conns -> Instances \cup {Null}]
    BY DEF TypeOK
  <1>1. CASE Usable(o)
    <2> DEFINE c == op[o].conn
    <2>1. /\ op[o].at = "check" /\ o \notin Vacuums /\ c \in Conns /\ c # Null
      BY <1>0, <1>1 DEF Usable, Handles, Staged, OpType
    <2>2. /\ op'[o].at = "run" /\ op'[o].conn = c /\ active' = active + 1
          /\ UNCHANGED <<owner, pool, reset>> /\ reset.at # "close" /\ owner[c] # Null
      BY <1>0, <1>1 DEF Usable, BeginOperation, Answered, OpType
    <2>3. /\ \A p \in Calls \ {o} : op[p].conn # c
          /\ \A k \in 1..Len(pool) : pool[k] # c
      BY <2>1 DEF Handles, Exclusive
    <2> HIDE DEF c
    <2> QED
      BY <2>1, <2>2, <2>3, RunKeeps
  <1>2. CASE Connect(o)
    <2> DEFINE c == CHOOSE d \in FreshConns : TRUE
    <2>1. c \in FreshConns
      BY <1>2 DEF Connect
    <2>2. /\ op'[o].at = "run" /\ op'[o].conn = c
          /\ active' = (IF o \in Vacuums THEN active ELSE active + 1)
          /\ owner' = [owner EXCEPT ![c] = op[o].inst]
          /\ op[o].at = "connect" /\ UNCHANGED <<pool, reset>> /\ reset.at # "close"
      BY <1>0, <1>2 DEF Connect, BeginOperation, Answered, OpType
    <2> HIDE DEF c
    <2>3. c \in Conns /\ c \notin Held /\ c \notin Range(pool)
      BY <2>1 DEF FreshConns
    <2>4. c # Null /\ op[o].inst # Null
      BY <2>2, <2>3 DEF Handles, Staged
    <2>5. \A p \in Calls \ {o} : op[p].conn # c
      BY <2>3, <2>4 DEF Held
    <2>6. \A k \in 1..Len(pool) : pool[k] # c
      BY <2>3 DEF Range
    <2>7. owner'[c] # Null /\ \A d \in Conns \ {c} : owner'[d] = owner[d]
      BY <1>0, <2>2, <2>3, <2>4
    <2> QED
      BY <2>2, <2>3, <2>5, <2>6, <2>7, RunKeeps
  <1> QED
    BY <1>1, <1>2

(* A call that gives its connection away, to the pool or to be closed.     *)
LEMMA DropKeeps ==
  ASSUME TypeOK, Handles, NEW o \in Calls, Others(o),
         op[o].at \in {"check", "run"}, op'[o].conn = Null,
         op'[o].at \in {"idle", "pool"}, op'[o].at = "pool" => op'[o].inst # Null,
         pool' = pool \/ pool' = Append(pool, op[o].conn),
         \A d \in Conns : d # op[o].conn => owner'[d] = owner[d],
         active' = IF o \in Counted THEN active - 1 ELSE active,
         reset'.at = "close" => reset.at = "close" \/ active' = 0
  PROVE  Handles'
  <1> USE Shape
  <1>0. op[o].conn \in Conns /\ op[o].conn # Null
    BY DEF Handles, Staged, OpType
  <1>1. Staged'
    BY DEF Handles, Staged, Others
  <1>2. Exclusive'
    <2>1. CASE pool' = pool
      BY <2>1 DEF Handles, Exclusive, Others
    <2>2. CASE pool' = Append(pool, op[o].conn)
      <3>1. /\ Len(pool') = Len(pool) + 1
            /\ \A k \in 1..Len(pool') :
                 \/ k \in 1..Len(pool) /\ pool'[k] = pool[k]
                 \/ k = Len(pool) + 1 /\ pool'[k] = op[o].conn
        BY <1>0, <2>2, AppendProperties
      <3>2. \A p \in Calls \ {o} : op'[p].conn = op[p].conn /\ op[p].conn # op[o].conn
        BY <1>0 DEF Handles, Exclusive, Others
      <3>3. \A p, q \in Calls : p # q /\ op'[p].conn # Null => op'[p].conn # op'[q].conn
        BY <3>2 DEF Handles, Exclusive
      <3>4. \A p \in Calls, k \in 1..Len(pool') : op'[p].conn # pool'[k]
        BY <1>0, <3>1, <3>2 DEF Handles, Exclusive
      <3>5. \A j, k \in 1..Len(pool') : j # k => pool'[j] # pool'[k]
        BY <1>0, <3>1 DEF Handles, Exclusive
      <3> QED
        BY <3>3, <3>4, <3>5 DEF Exclusive
    <2> QED
      BY <2>1, <2>2
  <1>3. active' = Cardinality(Counted') /\ (active' = 0 => Counted' = {})
        /\ Counted' \subseteq Counted \ {o}
    <2>1. Counted' = Counted \ {o}
      BY DEF Counted, Others
    <2>2. active' = Cardinality(Counted \ {o})
      <3>1. CASE o \in Counted
        <4>1. Cardinality(Counted \ {o}) = Cardinality(Counted) - 1
          BY <3>1, CountedFinite, FS_RemoveElement
        <4> QED
          BY <3>1, <4>1 DEF Handles, CountIsRight
      <3>2. CASE o \notin Counted
        <4>1. Counted \ {o} = Counted
          BY <3>2
        <4> QED
          BY <3>2, <4>1 DEF Handles, CountIsRight
      <3> QED
        BY <3>1, <3>2
    <2>3. IsFiniteSet(Counted \ {o})
      BY CountedFinite, FS_Subset
    <2>4. active' = 0 => Counted \ {o} = {}
      BY <2>2, <2>3, FS_EmptySet
    <2> QED
      BY <2>1, <2>2, <2>4
  <1>4. ASSUME NEW p \in Counted' PROVE owner'[op'[p].conn] # Null
    <2>1. p \in Counted /\ p \in Calls \ {o} /\ op'[p] = op[p]
      BY <1>3, <1>4 DEF Counted, Others
    <2>2. op[p].conn \in Conns /\ op[p].conn # op[o].conn /\ owner[op[p].conn] # Null
      BY <1>0, <2>1 DEF Handles, CountIsRight, Staged, Exclusive, OpType, Counted
    <2> QED
      BY <2>1, <2>2
  <1>5. reset'.at = "close" => Counted' = {}
    BY <1>3 DEF Handles, CountIsRight
  <1> QED
    BY <1>1, <1>2, <1>3, <1>4, <1>5 DEF Handles, CountIsRight

LEMMA GiveUpKeeps ==
  ASSUME TypeOK, Handles, NEW o \in Calls, Others(o),
         Unusable(o) \/ Finish(o) \/ FinishVacuum(o)
  PROVE  Handles'
  <1> USE Shape
  <1>0. /\ op[o] \in OpType /\ op \in [Calls -> OpType]
        /\ owner \in [Conns -> Instances \cup {Null}] /\ active \in Nat
    BY DEF TypeOK
  <1>1. CASE Unusable(o)
    <2>1. /\ op[o].at = "check" /\ op'[o].at = "pool" /\ op'[o].conn = Null
          /\ op'[o].inst = op[o].inst /\ o \notin Counted
          /\ owner' = [owner EXCEPT ![op[o].conn] = Null]
          /\ UNCHANGED <<pool, active, reset>>
      BY <1>0, <1>1 DEF Unusable, OpType, Counted
    <2>2. op'[o].inst # Null
      BY <2>1 DEF Handles, Staged
    <2> QED
      BY <1>0, <2>1, <2>2, DropKeeps
  <1>2. CASE FinishVacuum(o)
    <2>1. /\ op[o].at = "run" /\ op'[o].at = "idle" /\ op'[o].conn = Null
          /\ o \notin Counted
          /\ owner' = [owner EXCEPT ![op[o].conn] = Null]
          /\ UNCHANGED <<pool, active, reset>>
      BY <1>0, <1>2 DEF FinishVacuum, End, OpType, Counted
    <2> QED
      BY <1>0, <2>1, DropKeeps
  <1>3. CASE Finish(o)
    <2>1. /\ op[o].at = "run" /\ op'[o].at = "idle" /\ op'[o].conn = Null
          /\ o \in Counted /\ Release(op[o].conn)
      BY <1>0, <1>3 DEF Finish, End, OpType, Counted
    <2>2. active # 0
      <3>1. Counted # {}
        BY <2>1
      <3> QED
        BY <3>1, CountedFinite, FS_EmptySet DEF Handles, CountIsRight
    <2>3. active' = active - 1
      BY <1>0, <1>3, <2>2 DEF Finish
    <2>4. /\ pool' = pool \/ pool' = Append(pool, op[o].conn)
          /\ \A d \in Conns : d # op[o].conn => owner'[d] = owner[d]
      BY <1>0, <2>1 DEF Release
    <2>5. reset'.at = "close" => reset.at = "close" \/ active' = 0
      BY <1>3 DEF Finish
    <2> QED
      BY <2>1, <2>3, <2>4, <2>5, DropKeeps
  <1> QED
    BY <1>1, <1>2, <1>3

LEMMA ResetHandles ==
  ASSUME TypeOK, Handles, InitStep \/ BeginReset \/ ResetStep \/ UNCHANGED vars
  PROVE  Handles'
  <1> USE Shape
  <1>0. op \in [Calls -> OpType] /\ active \in Nat
    BY DEF TypeOK
  <1>1. ASSUME \A o \in Calls :
                 \/ op'[o] = op[o]
                 \/ /\ op'[o].conn = op[o].conn /\ op'[o].inst = op[o].inst
                    /\ op[o].at \in {"queued", "gate"} /\ op'[o].at \in {"idle", "passed"}
                 \/ op[o].at = "queued" /\ op'[o] = Idle,
               pool' = pool \/ pool' = <<>>,
               UNCHANGED active,
               reset'.at = "close" => reset.at = "close" \/ active = 0,
               UNCHANGED owner \/ Counted = {}
        PROVE  Handles'
    <2>1. Staged'
      BY <1>1 DEF Handles, Staged
    <2>2. \A o \in Calls : op'[o].conn = op[o].conn
      BY <1>1 DEF Handles, Staged
    <2>3. Len(pool') = 0 \/ pool' = pool
      BY <1>1, EmptySeq
    <2>4. Exclusive'
      BY <2>2, <2>3 DEF Handles, Exclusive
    <2>5. Counted' = Counted
      BY <1>1 DEF Counted
    <2>6. active = 0 => Counted = {}
      BY CountedFinite, FS_EmptySet DEF Handles, CountIsRight
    <2>7. CountIsRight'
      BY <1>1, <2>2, <2>5, <2>6 DEF Handles, CountIsRight, Counted
    <2> QED
      BY <2>1, <2>4, <2>7 DEF Handles
  <1>2. CASE InitStep \/ UNCHANGED vars
    BY <1>1, <1>2 DEF InitStep, InstanceOpened, InitReady, InitFails, vars
  <1>3. CASE BeginReset
    BY <1>0, <1>1, <1>3 DEF BeginReset, ResetType
  <1>4. CASE QueueStopped
    BY <1>1, <1>4 DEF QueueStopped, ResetType
  <1>5. CASE Close \/ LateInstance
    <2>1. \A o \in Calls :
            \/ op'[o] = op[o]
            \/ /\ op'[o].conn = op[o].conn /\ op'[o].inst = op[o].inst
               /\ op[o].at = "gate" /\ op'[o].at = "passed"
      BY <1>0, <1>5 DEF Close, AfterClose, LateInstance, FinishReset, OpType
    <2>2. reset'.at # "close"
      BY <1>5 DEF Close, AfterClose, LateInstance, FinishReset
    <2>3. UNCHANGED owner \/ Counted = {}
      BY <1>5 DEF Close, LateInstance, Handles, CountIsRight
    <2>4. (pool' = pool \/ pool' = <<>>) /\ UNCHANGED active
      BY <1>5 DEF Close, LateInstance
    <2> QED
      BY <1>1, <2>1, <2>2, <2>3, <2>4
  <1> QED
    BY <1>2, <1>3, <1>4, <1>5 DEF ResetStep

LEMMA HandlesStep ==
  ASSUME IInv, Handles, [Next]_vars
  PROVE  Handles'
  <1>0. TypeOK /\ HasConn /\ Staged
    BY DEF IInv, Handles
  <1>1. ASSUME NEW o \in Calls,
               Call(o) \/ Schedule(o) \/ StartWrite(o) \/ CallStep(o) \/ Unusable(o)
        PROVE  Handles'
    <2>1. Others(o)
      BY <1>0, <1>1, CallStepMoves DEF CallMoves, Others
    <2> QED
      BY <1>0, <1>1, <2>1, BareMoves, BareKeeps, TakeKeeps, BeginKeeps, GiveUpKeeps
         DEF CallStep
  <1> QED
    BY <1>0, <1>1, ResetHandles DEF Next

LEMMA HandlesAlways == Spec => []Handles
  <1>1. Init => Handles
    <2> SUFFICES ASSUME Init PROVE Handles
      OBVIOUS
    <2>1. Counted = {} /\ Cardinality(Counted) = 0
      BY FS_EmptySet DEF Init, Counted
    <2>2. Len(pool) = 0
      BY EmptySeq DEF Init
    <2> QED
      BY <2>1, <2>2 DEF Init, Handles, Staged, Exclusive, CountIsRight
  <1>2. IInv /\ Handles /\ [Next]_vars => Handles'
    BY HandlesStep
  <1> QED
    BY <1>1, <1>2, Invariant, PTL DEF Spec

(* A connection serves one call at a time, and none while it is pooled.    *)
(* (acquireConnection, releaseConnection.)                                 *)
THEOREM OneUserHolds == Spec => []OneUser
  <1>1. ASSUME TypeOK, Exclusive PROVE OneUser
    <2>1. ASSUME NEW c \in Held \cap Range(pool) PROVE FALSE
      <3>1. PICK o \in Calls : c = op[o].conn
        BY <2>1 DEF Held
      <3>2. PICK k \in DOMAIN pool : c = pool[k]
        BY <2>1 DEF Range
      <3>3. k \in 1..Len(pool)
        BY <1>1, <3>2, Shape, LenProperties
      <3> QED
        BY <1>1, <3>1, <3>2, <3>3 DEF Exclusive
    <2> QED
      BY <1>1, <2>1 DEF Exclusive, OneUser
  <1> QED
    BY <1>1, HandlesAlways, Invariant, PTL DEF Handles, IInv

(* No reset closes a connection under a counted operation: it waits until  *)
(* none is left. (executeQuery, resetDbInstance.)                          *)
THEOREM CountedKeepsConnectionHolds == Spec => []CountedKeepsConnection
  <1>1. Handles => CountedKeepsConnection
    BY DEF Handles, CountIsRight, Counted, CountedKeepsConnection
  <1> QED
    BY <1>1, HandlesAlways, PTL

-----------------------------------------------------------------------------
(* The instances. One is opened at a time; what a reset leaves behind is   *)
(* the initialization that was pending, and nobody begins another before   *)
(* the reset has looked at its end. An open instance is the current one,   *)
(* one that is still being set up, or one whose set-up failed.             *)
Current ==
  /\ opening \subseteq {init}
  /\ instance # Null => instance = init /\ init \notin opening
  /\ init # Null => init \in opening \cup failed \cup {instance}

Overtaken ==
  /\ init = Null /\ opening \subseteq {reset.pending}
  /\ opening # {} \/ instance # Null => reset.old = Null
  /\ instance # Null => opening = {}
  /\ \A o \in Calls : op[o].at # "passed"

OneInstance ==
  /\ open \ (opening \cup failed) = {instance} \ {Null}
  /\ opening \cap failed = {}
  /\ IF reset.at = "late" THEN Overtaken ELSE Current

LEMMA OneInstanceStep ==
  ASSUME IInv, OneInstance, [Next]_vars
  PROVE  OneInstance'
  <1> USE Shape
  <1>0. /\ TypeOK /\ OneRunning /\ op \in [Calls -> OpType] /\ Null \notin Instances
        /\ opening \subseteq Instances /\ open \subseteq Instances
        /\ {instance, init} \subseteq Instances \cup {Null}
    BY ConstantsAssumption DEF IInv, TypeOK
  <1>1. ASSUME UNCHANGED instanceVars,
               reset' = reset \/ (reset.at # "late" /\ reset'.at # "late"),
               reset.at = "late" => \A o \in Calls : op'[o].at # "passed"
        PROVE  OneInstance'
    BY <1>1 DEF OneInstance, Current, Overtaken
  <1>2. ASSUME NEW o \in Calls,
               Call(o) \/ Schedule(o) \/ StartWrite(o) \/ CallStep(o) \/ Unusable(o),
               ~GetInstance(o)
        PROVE  OneInstance'
    <2>1. UNCHANGED instanceVars
      BY <1>2 DEF Call, Schedule, StartWrite, CallStep, InitAwaited, TakePooled, NonePooled,
                  Usable, Connect, ConnectFails, Finish, FinishVacuum, Unusable
    <2>2. CallMoves(o)
      BY <1>0, <1>2, CallStepMoves DEF IInv
    <2>3. reset' = reset \/ (reset.at # "late" /\ reset'.at # "late")
      BY <2>2 DEF CallMoves
    <2>4. ASSUME reset.at = "late" PROVE op'[o].at # "passed"
      <3>1. ~StartWrite(o) /\ op[o].at # "passed"
        BY <1>0, <2>4 DEF StartWrite, OneRunning, OneInstance, Overtaken
      <3>2. ASSUME NEW at \in {"gate", "queued", "pool", "connect"}, At(o, at)
            PROVE  op'[o].at # "passed"
        BY <1>0, <3>2 DEF At, OpType
      <3>3. ASSUME End(o) PROVE op'[o].at # "passed"
        BY <1>0, <3>3 DEF End, OpType
      <3>4. ASSUME NEW at \in {"check", "run", "pool"}, NEW c,
                   op' = [op EXCEPT ![o].at = at, ![o].conn = c]
            PROVE  op'[o].at # "passed"
        BY <1>0, <3>4 DEF OpType
      <3>5. CASE Call(o) \/ Schedule(o)
        BY <2>4, <3>1, <3>2, <3>5 DEF Call, Schedule
      <3>6. CASE InitAwaited(o) \/ NonePooled(o) \/ ConnectFails(o) \/ Finish(o)
                 \/ FinishVacuum(o)
        BY <3>2, <3>3, <3>6 DEF InitAwaited, NonePooled, ConnectFails, Finish, FinishVacuum
      <3>7. CASE TakePooled(o) \/ Usable(o) \/ Unusable(o)
        BY <3>4, <3>7 DEF TakePooled, Usable, Unusable, BeginOperation
      <3>8. CASE Connect(o)
        BY <3>4, <3>8 DEF Connect, BeginOperation
      <3> QED
        BY <1>2, <3>1, <3>5, <3>6, <3>7, <3>8 DEF CallStep
    <2>5. ASSUME reset.at = "late" PROVE \A p \in Calls : op'[p].at # "passed"
      BY <2>2, <2>4, <2>5 DEF CallMoves, OneInstance, Overtaken
    <2> QED
      BY <1>1, <2>1, <2>3, <2>5
  <1>3. ASSUME NEW o \in Calls, GetInstance(o) PROVE OneInstance'
    <2>1. reset.at # "late" /\ reset' = reset /\ UNCHANGED <<instance, open>>
      BY <1>3 DEF GetInstance, OneInstance, Overtaken
    <2>2. CASE UNCHANGED <<init, opening, failed>>
      BY <2>1, <2>2 DEF OneInstance, Current
    <2>3. CASE ~UNCHANGED <<init, opening, failed>>
      <3>1. /\ instance = Null /\ init = Null
            /\ opening' = opening \cup {init'}
        BY <1>3, <2>3 DEF GetInstance
      <3>2. opening = {}
        BY <1>0, <2>1, <3>1 DEF OneInstance, Current
      <3>3. init' \notin open /\ failed' = failed \ {init'}
        BY <1>3, <2>3, <3>1 DEF GetInstance, FreshInstances
      <3>4. open' \ (opening' \cup failed') = open \ (opening \cup failed)
            /\ opening' \cap failed' = {}
        BY <2>1, <3>1, <3>2, <3>3
      <3> QED
        BY <2>1, <3>1, <3>2, <3>4 DEF OneInstance, Current
    <2> QED
      BY <2>2, <2>3
  <1>4. CASE InitStep
    <2>1. PICK i \in opening : InstanceOpened(i) \/ InitReady(i) \/ InitFails(i)
      BY <1>4 DEF InitStep
    <2>2. UNCHANGED <<reset, op, init>> /\ i \in Instances /\ i \notin failed
      BY <1>0, <2>1 DEF InstanceOpened, InitReady, InitFails, OneInstance
    <2>3. CASE InstanceOpened(i)
      <3>1. UNCHANGED <<instance, opening, failed>> /\ open' = open \cup {i}
        BY <2>3 DEF InstanceOpened
      <3>2. open' \ (opening' \cup failed') = open \ (opening \cup failed)
        BY <2>1, <3>1
      <3> QED
        BY <2>2, <3>1, <3>2 DEF OneInstance, Current, Overtaken
    <2>4. CASE InitReady(i)
      <3>1. /\ instance' = i /\ i \in open /\ opening' = opening \ {i}
            /\ UNCHANGED <<open, failed>>
        BY <2>4 DEF InitReady
      <3>2. instance = Null /\ opening = {i}
        BY <1>0, <2>1, <2>2 DEF OneInstance, Current, Overtaken
      <3>3. open' \ (opening' \cup failed') = {instance'} \ {Null}
        BY <1>0, <2>2, <3>1, <3>2 DEF OneInstance
      <3> QED
        BY <1>0, <2>1, <2>2, <3>1, <3>2, <3>3 DEF OneInstance, Current, Overtaken
    <2>5. CASE InitFails(i)
      <3>1. /\ UNCHANGED <<instance, open>> /\ opening' = opening \ {i}
            /\ failed' = failed \cup {i}
        BY <2>5 DEF InitFails
      <3>2. opening' \cup failed' = opening \cup failed
        BY <2>1, <3>1
      <3>3. opening' \cap failed' = {}
        BY <2>1, <3>1 DEF OneInstance
      <3> QED
        BY <1>0, <2>1, <2>2, <3>1, <3>2, <3>3 DEF OneInstance, Current, Overtaken
    <2> QED
      BY <2>1, <2>3, <2>4, <2>5
  <1>5. CASE BeginReset \/ QueueStopped
    <2>0. reset \in ResetType
      BY <1>0 DEF TypeOK
    <2>1. CASE BeginReset
      BY <1>1, <2>0, <2>1 DEF BeginReset, ResetType, OneInstance
    <2>2. CASE QueueStopped
      <3>1. reset'.at \in {"close", "wait"} /\ reset.at = "queue"
        BY <2>0, <2>2 DEF QueueStopped, ResetType
      <3> QED
        BY <1>1, <2>2, <3>1 DEF QueueStopped
    <2> QED
      BY <1>5, <2>1, <2>2
  <1>6. CASE Close
    <2>1. /\ reset.at = "close" /\ \A o \in Calls : op[o].at # "passed"
          /\ open' = open \ {instance} /\ instance' = Null /\ init' = Null
          /\ UNCHANGED <<opening, failed>>
          /\ AfterClose
      BY <1>6 DEF Close
    <2>2. open' \ (opening' \cup failed') = {} /\ Current
      BY <2>1 DEF OneInstance
    <2>3. CASE init = Null
      <3>1. reset'.at = "none"
        BY <2>1, <2>3 DEF AfterClose, FinishReset
      <3>2. opening = {}
        BY <1>0, <2>2, <2>3 DEF Current
      <3> QED
        BY <2>1, <2>2, <3>1, <3>2 DEF OneInstance, Current
    <2>4. CASE init # Null
      <3>1. /\ reset'.at = "late" /\ reset'.old = instance /\ reset'.pending = init
            /\ UNCHANGED op
        BY <2>1, <2>4 DEF AfterClose
      <3>2. opening \subseteq {init} /\ (opening # {} => instance = Null)
        BY <2>2 DEF Current
      <3> QED
        BY <2>1, <2>2, <3>1, <3>2 DEF OneInstance, Overtaken
    <2> QED
      BY <2>3, <2>4
  <1>7. CASE LateInstance
    <2>1. /\ Overtaken /\ reset.pending \notin opening /\ reset'.at = "none"
          /\ UNCHANGED <<init, opening, failed>>
          /\ open \ (opening \cup failed) = {instance} \ {Null}
      BY <1>7 DEF LateInstance, FinishReset, OneInstance
    <2>2. opening = {} /\ init = Null
      BY <2>1 DEF Overtaken
    <2>3. instance' = Null /\ open' \ (opening' \cup failed') = {}
      BY <1>7, <2>1 DEF LateInstance, Overtaken
    <2> QED
      BY <2>1, <2>2, <2>3 DEF OneInstance, Current
  <1>8. CASE UNCHANGED vars
    BY <1>8 DEF vars, OneInstance, Current, Overtaken
  <1> QED
    BY <1>2, <1>3, <1>4, <1>5, <1>6, <1>7, <1>8 DEF Next, ResetStep

(* When nothing is being opened or torn down, the open instance is the     *)
(* current one and no other, but for those whose initialization failed     *)
(* after it had opened them: an initialization that a reset overtakes is   *)
(* closed with it. (getDbInstance, resetDbInstance.)                       *)
THEOREM NoInstanceLostHolds == Spec => []NoInstanceLost
  <1>1. Init => OneInstance
    BY DEF Init, OneInstance, Current
  <1>2. IInv /\ OneInstance /\ [Next]_vars => OneInstance'
    BY OneInstanceStep
  <1>3. IInv /\ OneInstance => NoInstanceLost
    BY DEF OneInstance, Current, NoInstanceLost
  <1> QED
    BY <1>1, <1>2, <1>3, Invariant, PTL DEF Spec

-----------------------------------------------------------------------------
(* Who waits for whom. A call waits for a reset that is under way, a write *)
(* for a write that executes, the reset for a write or a counted operation *)
(* that is under way, and no write waits for the reset.                    *)
WaitsForSomebody ==
  /\ \A o \in Calls : op[o].at = "gate" => reset.at # "none" /\ o \notin Writes
  /\ \A o \in Calls : op[o].at = "queued" => queue.at = "open" /\ o \in Writes
  /\ \A o \in queue.running : op[o].at \notin {"idle", "queued", "gate"}
  /\ reset.at = "wait" => \E o \in Calls \ Vacuums : op[o].at = "run"

(* The guards of a call's next step, of the reset's and of an              *)
(* initialization's, handles being available.                              *)
CallReady(o) ==
  \/ op[o].at = "queued" /\ queue.at = "open" /\ queue.running = {}
  \/ op[o].at \in {"passed", "pool", "run"}
  \/ op[o].at = "init" /\ op[o].inst \notin opening
  \/ op[o].at \in {"check", "connect"} /\ Answered

ResetReady ==
  \/ reset.at = "queue" /\ queue.running = {}
  \/ reset.at = "close" /\ \A o \in Calls : op[o].at \notin {"passed", "pool"}
  \/ reset.at = "late" /\ reset.pending \notin opening

Busy == reset.at # "none" \/ \E o \in Calls : op[o].at # "idle"
SomebodyReady == ResetReady \/ opening # {} \/ \E o \in Calls : CallReady(o)

Waits ==
  /\ \A o \in Calls : op[o].at = "gate" => reset.at # "none" /\ o \notin Writes
  /\ \A o \in Calls : op[o].at = "queued" => queue.at = "open" /\ o \in Writes
  /\ reset.at = "wait" => active # 0

(* Only Call and Schedule make a call wait outside its connection.         *)
LEMMA CallWaits ==
  ASSUME IInv, NEW o \in Calls,
         Call(o) \/ Schedule(o) \/ StartWrite(o) \/ CallStep(o) \/ Unusable(o)
  PROVE  /\ op'[o].at = "gate" => Call(o) /\ reset.at # "none"
         /\ op'[o].at = "queued" => Schedule(o) \/ op[o].at = "queued"
         /\ queue'.at = queue.at
         /\ UNCHANGED active \/ active' = active + 1 \/ (reset'.at = "wait" => active' # 0)
  <1> USE Shape
  <1>0. TypeOK /\ op \in [Calls -> OpType] /\ op[o] \in OpType /\ queue \in QueueType
    BY DEF IInv
  <1>1. ASSUME NEW at, op' = [op EXCEPT ![o].at = at] PROVE op'[o].at = at
    BY <1>0, <1>1 DEF OpType
  <1>2. ASSUME NEW at, NEW c, op' = [op EXCEPT ![o].at = at, ![o].conn = c]
        PROVE  op'[o].at = at
    BY <1>0, <1>2 DEF OpType
  <1>3. ASSUME End(o) PROVE op'[o].at = "idle" /\ queue'.at = queue.at
    BY <1>0, <1>3 DEF End, QueueType
  <1>4. CASE Call(o)
    BY <1>0, <1>1, <1>4 DEF Call, At
  <1>5. CASE Schedule(o)
    BY <1>0, <1>1, <1>5 DEF Schedule, At
  <1>6. CASE StartWrite(o)
    <2>1. queue'.at = queue.at
      BY <1>0, <1>6 DEF StartWrite, QueueType
    <2> QED
      BY <1>1, <1>6, <2>1 DEF StartWrite, At
  <1>7. CASE GetInstance(o)
    <2>1. PICK i, at : at \in {"pool", "init"} /\ op' = [op EXCEPT ![o].at = at, ![o].inst = i]
      BY <1>7 DEF GetInstance
    <2>2. op'[o].at = at
      BY <1>0, <2>1 DEF OpType
    <2> QED
      BY <1>7, <2>1, <2>2 DEF GetInstance
  <1>8. CASE InitAwaited(o) \/ ConnectFails(o) \/ NonePooled(o)
    BY <1>1, <1>3, <1>8 DEF InitAwaited, ConnectFails, NonePooled, At
  <1>9. CASE TakePooled(o) \/ Usable(o) \/ Unusable(o) \/ Connect(o)
    <2>1. CASE TakePooled(o)
      <3>1. op'[o].at = "check" /\ UNCHANGED <<queue, active>>
        BY <1>2, <2>1 DEF TakePooled
      <3> QED
        BY <3>1
    <2>0. CASE Unusable(o)
      <3>1. op'[o].at = "pool" /\ UNCHANGED <<queue, active>>
        BY <1>2, <2>0 DEF Unusable
      <3> QED
        BY <3>1
    <2>2. ASSUME NEW c, BeginOperation(o, c)
          PROVE  op'[o].at = "run" /\ active' = active + 1
      BY <1>2, <2>2 DEF BeginOperation
    <2>3. CASE Usable(o)
      BY <2>2, <2>3 DEF Usable
    <2>4. CASE Connect(o)
      <3>1. op'[o].at = "run" /\ queue' = queue /\ (active' = active \/ active' = active + 1)
        BY <1>2, <2>2, <2>4 DEF Connect
      <3> QED
        BY <3>1
    <2> QED
      BY <1>9, <2>0, <2>1, <2>3, <2>4
  <1>10. CASE Finish(o) \/ FinishVacuum(o)
    <2>1. CASE FinishVacuum(o)
      BY <1>3, <2>1 DEF FinishVacuum
    <2>2. CASE Finish(o)
      <3>1. reset'.at = "wait" => active' # 0
        BY <1>0, <2>2 DEF Finish, ResetType
      <3> QED
        BY <1>3, <2>2, <3>1 DEF Finish
    <2> QED
      BY <1>10, <2>1, <2>2
  <1> QED
    BY <1>4, <1>5, <1>6, <1>7, <1>8, <1>9, <1>10 DEF CallStep

LEMMA WaitsStep == ASSUME IInv, Waits, [Next]_vars PROVE Waits'
  <1> USE Shape
  <1>0. /\ TypeOK /\ HasConn /\ op \in [Calls -> OpType] /\ active \in Nat
        /\ queue \in QueueType /\ reset \in ResetType
    BY DEF IInv, TypeOK
  <1>1. ASSUME NEW o \in Calls,
               Call(o) \/ Schedule(o) \/ StartWrite(o) \/ CallStep(o) \/ Unusable(o)
        PROVE  Waits'
    <2>1. CallMoves(o)
      BY <1>0, <1>1, CallStepMoves
    <2>2. /\ op'[o].at = "gate" => Call(o) /\ reset.at # "none"
          /\ op'[o].at = "queued" => Schedule(o) \/ op[o].at = "queued"
          /\ queue'.at = queue.at
          /\ UNCHANGED active \/ active' = active + 1 \/ (reset'.at = "wait" => active' # 0)
      BY <1>1, CallWaits
    <2>3. /\ reset.at # "none" => reset'.at # "none"
          /\ reset'.at = "wait" => reset.at = "wait"
      BY <2>1 DEF CallMoves
    <2>4. op'[o].at = "gate" => reset'.at # "none" /\ o \notin Writes
      BY <2>2, <2>3 DEF Call
    <2>5. op'[o].at = "queued" => queue'.at = "open" /\ o \in Writes
      <3>1. ASSUME Schedule(o), op'[o].at = "queued" PROVE queue.at = "open" /\ o \in Writes
        BY <1>0, <3>1 DEF Schedule, QueueType
      <3> QED
        BY <2>2, <3>1 DEF Waits
    <2>6. reset'.at = "wait" => active' # 0
      BY <1>0, <2>2, <2>3 DEF Waits
    <2>7. \A p \in Calls \ {o} : op'[p] = op[p]
      BY <2>1 DEF CallMoves
    <2> QED
      BY <2>2, <2>3, <2>4, <2>5, <2>6, <2>7 DEF Waits
  <1>2. ASSUME UNCHANGED op, UNCHANGED <<queue, active>>,
               reset'.at = "none" => reset.at = "none",
               reset'.at = "wait" => reset.at = "wait" \/ active # 0
        PROVE  Waits'
    BY <1>2 DEF Waits
  <1>3. CASE InitStep \/ QueueStopped
    BY <1>0, <1>2, <1>3 DEF InitStep, InstanceOpened, InitReady, InitFails, QueueStopped, ResetType
  <1>4. CASE BeginReset
    <2>1. reset'.at = "queue"
      BY <1>0, <1>4 DEF BeginReset, ResetType
    <2>2. \A o \in Calls : op'[o] = IF op[o].at = "queued" THEN Idle ELSE op[o]
      BY <1>4 DEF BeginReset
    <2> QED
      BY <2>1, <2>2 DEF Waits
  <1>5. ASSUME FinishReset PROVE Waits'
    <2>1. reset'.at = "none" /\ queue'.at = "open"
      BY <1>5 DEF FinishReset
    <2>2. \A o \in Calls : op'[o] = op[o] \/ op'[o].at = "passed"
      BY <1>0, <1>5 DEF FinishReset, OpType
    <2>3. \A o \in Calls : op'[o].at # "gate"
      BY <1>0, <1>5 DEF FinishReset, OpType
    <2> QED
      BY <2>1, <2>2, <2>3 DEF Waits
  <1>6. CASE Close \/ LateInstance
    <2>1. CASE FinishReset
      BY <1>5, <2>1
    <2>2. CASE ~FinishReset
      <3>1. UNCHANGED <<op, queue, active>> /\ reset'.at = "late"
        BY <1>6, <2>2 DEF Close, LateInstance, AfterClose
      <3> QED
        BY <1>2, <3>1
    <2> QED
      BY <2>1, <2>2
  <1>7. CASE UNCHANGED vars
    BY <1>2, <1>7 DEF vars
  <1> QED
    BY <1>1, <1>3, <1>4, <1>6, <1>7 DEF Next, ResetStep

LEMMA WaitsAlways == Spec => []Waits
  <1>1. Init => Waits
    BY DEF Init, Waits
  <1>2. IInv /\ Waits /\ [Next]_vars => Waits'
    BY WaitsStep
  <1> QED
    BY <1>1, <1>2, Invariant, PTL DEF Spec

(* Nobody waits for somebody who is not there or who waits back: the gate  *)
(* of a reset opens with its end, dropped writes do not linger, and the    *)
(* reset waits for calls that hold their connection. (resetDbInstance,     *)
(* getDbInstanceInternal with skipResetWait.)                              *)
THEOREM WaitsForSomebodyHolds == Spec => []WaitsForSomebody
  <1>1. IInv /\ Handles /\ Waits => WaitsForSomebody
    <2> SUFFICES ASSUME IInv, Handles, Waits PROVE WaitsForSomebody
      OBVIOUS
    <2>1. ASSUME NEW o \in queue.running PROVE op[o].at \notin {"idle", "queued", "gate"}
      <3>1. o \in Writes /\ o \in Calls
        BY Shape DEF IInv, QueueType, Calls
      <3>2. op[o].at \notin Out
        BY <2>1, <3>1 DEF IInv, OneRunning
      <3> QED
        BY <3>1, <3>2 DEF Waits, Out
    <2>2. ASSUME reset.at = "wait" PROVE \E o \in Calls \ Vacuums : op[o].at = "run"
      <3>1. Counted # {}
        BY <2>2, FS_EmptySet DEF Waits, Handles, CountIsRight
      <3> QED
        BY <3>1 DEF Counted
    <2> QED
      BY <2>1, <2>2 DEF Waits, WaitsForSomebody
  <1> QED
    BY <1>1, Invariant, HandlesAlways, WaitsAlways, PTL

(* There is no deadlock, for any number of calls: whenever a call or a     *)
(* reset is not over, somebody has a step to take, although the reset      *)
(* waits for writes, and everything else waits for the reset.              *)
(* (resetDbInstance, executeQuery, executeWrite.)                          *)
THEOREM SomebodyReadyHolds == Spec => [](Busy => SomebodyReady)
  <1>1. IInv /\ WaitsForSomebody => (Busy => SomebodyReady)
    <2> SUFFICES ASSUME IInv, WaitsForSomebody, Busy, ~SomebodyReady PROVE FALSE
      OBVIOUS
    <2> USE Shape
    <2>0. TypeOK /\ op \in [Calls -> OpType] /\ reset \in ResetType
      BY DEF IInv
    <2>1. opening = {} /\ ~ResetReady /\ \A o \in Calls : ~CallReady(o)
      BY DEF SomebodyReady
    <2>2. \A o \in Calls :
            /\ op[o].at \in {"idle", "gate", "queued", "check", "connect"}
            /\ op[o].at \in {"check", "connect"} => reset.at = "close"
      BY <2>0, <2>1 DEF CallReady, OpType, Awaits, Answered
    <2>3. reset.at = "none"
      <3>1. reset.at # "late" /\ reset.at # "close"
        BY <2>1, <2>2 DEF ResetReady
      <3>2. reset.at # "wait"
        BY <2>2 DEF WaitsForSomebody
      <3>3. reset.at # "queue"
        <4>1. SUFFICES ASSUME reset.at = "queue" PROVE queue.running = {}
          BY <2>1 DEF ResetReady
        <4>2. ASSUME NEW o \in queue.running PROVE FALSE
          <5>1. o \in Calls
            BY <2>0, <4>2 DEF QueueType, Calls
          <5> QED
            BY <2>2, <3>1, <4>2, <5>1 DEF WaitsForSomebody
        <4> QED
          BY <4>2
      <3> QED
        BY <2>0, <3>1, <3>2, <3>3 DEF ResetType
    <2>4. PICK o \in Calls : op[o].at = "queued"
      BY <2>2, <2>3 DEF Busy, WaitsForSomebody
    <2>5. queue.at = "open" /\ queue.running # {}
      BY <2>1, <2>4 DEF CallReady, WaitsForSomebody
    <2>6. PICK w \in queue.running : TRUE
      BY <2>5
    <2>7. w \in Calls /\ op[w].at \notin {"idle", "queued", "gate"}
      BY <2>0, <2>6 DEF QueueType, Calls, WaitsForSomebody
    <2> QED
      BY <2>2, <2>3, <2>7
  <1> QED
    BY <1>1, Invariant, WaitsForSomebodyHolds, PTL

(* What the teardown does wait for: the connections are closed under no    *)
(* call that was counted, reads included. (resetDbInstance; a read that is *)
(* still opening its connection is not counted.)                           *)
TeardownAfterCounted ==
  [][Close => \A o \in Calls \ Vacuums : op[o].at # "run"]_vars

THEOREM TeardownAfterCountedHolds == Spec => TeardownAfterCounted
  <1>1. Handles => [Close => \A o \in Calls \ Vacuums : op[o].at # "run"]_vars
    BY DEF Handles, CountIsRight, Counted, Close
  <1> QED
    BY <1>1, HandlesAlways, PTL DEF TeardownAfterCounted
=============================================================================
