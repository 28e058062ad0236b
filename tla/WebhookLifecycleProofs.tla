----------------------- MODULE WebhookLifecycleProofs -----------------------
(***************************************************************************)
(* Proofs about WebhookLifecycle for every set of ids, retention values    *)
(* and any number of overlapping cleanups, without a bound on the clock or *)
(* on failures other than the constants MaxTime and MaxFaults, which may   *)
(* be any naturals.                                                        *)
(***************************************************************************)
EXTENDS WebhookLifecycle, TLAPS, SequenceTheorems

(* At or past its expiry; and no later than.                               *)
Over(x)  == x = Null \/ x <= clock
Le(x, y) == x = Null \/ x <= y

-----------------------------------------------------------------------------
(* The invariant: an id that was never issued is nowhere; what lapsed is   *)
(* over in memory and in every snapshot; a snapshot never has a later      *)
(* expiry than memory; a cleanup only holds a webhook that has expired; an *)
(* answer that init() is still to restore is the record or is newer.       *)
FreshNowhere ==
  /\ lapsed \subseteq issued
  /\ \A w \in Webhooks \ issued :
       /\ webhooks[w] = Null /\ saved[w] = Null
       /\ \A k \in 1..Len(chain) : chain[k].map[w] = Null

LapsedOver ==
  \A w \in lapsed :
    /\ Over(webhooks[w]) /\ Over(saved[w])
    /\ \A k \in 1..Len(chain) : Over(chain[k].map[w])

NeverAhead ==
  \A w \in Webhooks : webhooks[w] # Null =>
    /\ Le(saved[w], webhooks[w])
    /\ \A k \in 1..Len(chain) : Le(chain[k].map[w], webhooks[w])

Holding == {"find", "erase", "delete", "remove"}
HoldsExpired ==
  \A c \in Cleaners :
    /\ cleaner[c].now <= clock
    /\ cleaner[c].at \in Holding =>
         /\ cleaner[c].id \in issued
         /\ webhooks[cleaner[c].id] = Null \/ webhooks[cleaner[c].id] < clock

(* Until init() ends nothing is in the map and nobody but a signal has     *)
(* persisted it.                                                           *)
EmptyUntilUp ==
  phase # "up" =>
    /\ \A w \in Webhooks : webhooks[w] = Null
    /\ \A k \in 1..Len(chain) :
         /\ chain[k].caller = "signal"
         /\ \A w \in Webhooks : chain[k].map[w] = Null
    /\ config = NoConfig
    /\ cleaner = [c \in Cleaners |-> NoCleaner]

(* The record is what init() has been answered, or a signal emptied it.    *)
Answered ==
  phase = "init" =>
    /\ \A w \in Webhooks :
         /\ w \notin issued => answer[w] = Null
         /\ w \in lapsed => Over(answer[w])
         /\ saved[w] = answer[w] \/ saved[w] = Null
    /\ chain = <<>> /\ ~behind => \A w \in Webhooks : saved[w] = answer[w]

IInv == TypeOK /\ FreshNowhere /\ LapsedOver /\ NeverAhead /\ HoldsExpired
               /\ EmptyUntilUp /\ Answered

USE DEF processVars, cleanupVars, dataVars, storeVars, historyVars, NoConfig,
        NoCleaner, Empty

Link == [map : Map, caller : Callers]
CleanerType ==
  [at : {"idle", "scan", "find", "erase", "delete", "remove", "persist"},
   now : Nat, id : Webhooks \cup {Null}]

LEMMA InitIInv == Init => IInv
  <1> SUFFICES ASSUME Init PROVE IInv
    OBVIOUS
  <1>1. chain \in Seq([map : Map, caller : Callers]) /\ Len(chain) = 0
    BY EmptySeq DEF Init
  <1>2. TypeOK
    BY <1>1 DEF Init, TypeOK, Map, Expiry
  <1>3. QED
    BY <1>1, <1>2
       DEF Init, IInv, FreshNowhere, LapsedOver, NeverAhead, HoldsExpired,
           EmptyUntilUp, Answered, Holding

(* What persist() and the end of a write do to the chain.                  *)
LEMMA ChainGrows ==
  ASSUME chain \in Seq(Link), NEW map \in Map, NEW c \in Callers, Persist(map, c)
  PROVE  /\ chain' \in Seq(Link) /\ Len(chain) \in Nat
         /\ Len(chain') = Len(chain) + 1
         /\ \A k \in 1..Len(chain) : chain'[k] = chain[k]
         /\ chain'[Len(chain')].map = map /\ chain'[Len(chain')].caller = c
  <1>1. [map |-> map, caller |-> c] \in Link
    BY DEF Link
  <1>2. QED
    BY <1>1, AppendProperties, LenProperties DEF Persist

LEMMA ChainShrinks ==
  ASSUME chain \in Seq(Link), chain # <<>>, chain' = Tail(chain)
  PROVE  /\ chain' \in Seq(Link) /\ Len(chain) \in Nat \ {0}
         /\ Len(chain') = Len(chain) - 1
         /\ \A k \in 1..Len(chain') : chain'[k] = chain[k + 1]
         /\ Head(chain) = chain[1] /\ Head(chain) \in Link
  <1>1. Len(chain) \in Nat
    BY LenProperties
  <1>2. /\ Head(chain) \in Link /\ chain' \in Seq(Link)
        /\ Len(chain') = Len(chain) - 1
        /\ \A k \in 1..Len(chain') : chain'[k] = chain[k + 1]
    BY HeadTailProperties
  <1>3. Len(chain) # 0
    BY EmptySeq
  <1>4. Head(chain) = chain[1]
    BY <1>1, <1>3
  <1>5. QED
    BY <1>1, <1>2, <1>3, <1>4

LEMMA ExtendedType ==
  ASSUME TypeOK, NEW r \in Nat
  PROVE  /\ Extended(r) \in Map
         /\ \A w \in Webhooks :
              /\ webhooks[w] = Null => Extended(r)[w] = Null
              /\ webhooks[w] # Null =>
                   /\ Extended(r)[w] \in Nat /\ webhooks[w] <= Extended(r)[w]
                   /\ webhooks[w] <= clock => Extended(r)[w] = webhooks[w]
  BY ConstantsAssumption DEF TypeOK, Extended, Map, Expiry, IsValid, ValidAt

(* Types, action by action.                                                *)
LEMMA TypeStep ==
  ASSUME IInv, [Next]_vars
  PROVE  TypeOK'
  <1> USE ConstantsAssumption DEF TypeOK
  <1>0. TypeOK /\ chain \in Seq(Link)
    BY DEF IInv, Link
  <1>1. ASSUME Tick PROVE TypeOK'
    BY <1>0, <1>1 DEF Tick
  <1>18. ASSUME GetState PROVE TypeOK'
    BY <1>0, <1>18 DEF GetState
  <1>2. ASSUME NEW r \in Retentions, InitManager(r) \/ InitFails(r) \/ HotReload(r)
        PROVE  TypeOK'
    <2>1. restored' \in BOOLEAN /\ behind' \in BOOLEAN
      BY <1>0, <1>2, Zenon DEF InitManager, InitFails, HotReload
    <2>2. retention' \in Nat /\ r \in Nat
      BY <1>0, <1>2 DEF InitManager, InitFails, HotReload
    <2>3. config' \in [at : {"idle", "startup", "reload", "generating", "extend",
                             "extending"}, next : Nat \cup {Null}]
      BY <1>0, <1>2, <2>2 DEF InitManager, InitFails, HotReload
    <2>4. answer' \in Map /\ webhooks' \in Map
      BY <1>0, <1>2 DEF InitManager, InitFails, HotReload, Map, Expiry
    <2>5. QED
      BY <1>0, <1>2, <2>1, <2>2, <2>3, <2>4
         DEF InitManager, InitFails, HotReload, Fault
  <1>3. ASSUME NEW new \in SUBSET (Webhooks \ issued), Generate(new) PROVE TypeOK'
    <2>1. webhooks' \in Map
      BY <1>0, <1>3 DEF Generate, Map, Expiry
    <2>2. chain' \in Seq(Link)
      BY <1>0, <1>3, <2>1, ChainGrows DEF Generate, Callers
    <2>3. config' \in [at : {"idle", "startup", "reload", "generating", "extend",
                             "extending"}, next : Nat \cup {Null}]
      BY <1>0, <1>3 DEF Generate
    <2>4. QED
      BY <1>0, <1>3, <2>1, <2>2, <2>3 DEF Generate, Link
  <1>4. ASSUME Generated \/ ExtendDone PROVE TypeOK'
    BY <1>0, <1>4 DEF Generated, ExtendDone
  <1>5. ASSUME Extend PROVE TypeOK'
    <2>1. webhooks' \in Map
      BY <1>0, <1>5, ExtendedType DEF Extend
    <2>2. chain' \in Seq(Link)
      BY <1>0, <1>5, <2>1, ChainGrows DEF Extend, Callers
    <2>3. QED
      BY <1>0, <1>5, <2>1, <2>2 DEF Extend, Link
  <1>6. ASSUME WriteState PROVE TypeOK'
    <2>1. Head(chain).map \in Map /\ chain' \in Seq(Link)
      BY <1>0, <1>6, ChainShrinks DEF WriteState, Link
    <2>2. behind' \in BOOLEAN
      BY <1>6, Zenon DEF WriteState
    <2>3. QED
      BY <1>0, <1>6, <2>1, <2>2 DEF WriteState, Link
  <1>7. ASSUME WriteFails PROVE TypeOK'
    <2>1. chain' \in Seq(Link)
      BY <1>0, <1>7, ChainShrinks DEF WriteFails
    <2>2. QED
      BY <1>0, <1>7, <2>1 DEF WriteFails, Link, Fault
  <1>8. ASSUME NEW w \in Webhooks, LogRequest(w) PROVE TypeOK'
    BY <1>0, <1>8 DEF LogRequest
  <1>9. ASSUME NEW c \in Cleaners, StartCleanup(c) PROVE TypeOK'
    BY <1>0, <1>9 DEF StartCleanup
  <1>10. ASSUME NEW c \in Cleaners, NEW w \in Webhooks, FindExpired(c, w)
         PROVE  TypeOK'
    <2>1. cleaner[c] \in CleanerType
      BY <1>0 DEF CleanerType
    <2>2. [cleaner[c] EXCEPT !.at = "find", !.id = w] \in CleanerType
      BY <2>1 DEF CleanerType
    <2>3. cleaner' = [cleaner EXCEPT ![c] = [cleaner[c] EXCEPT !.at = "find", !.id = w]]
      BY <1>0, <1>10 DEF FindExpired
    <2>4. cleaner' \in [Cleaners -> CleanerType]
      BY <1>0, <2>2, <2>3 DEF CleanerType
    <2>5. QED
      BY <1>0, <1>10, <2>4 DEF FindExpired, CleanerType
  <1>11. ASSUME NEW c \in Cleaners,
                PayloadsFound(c) \/ ErasePayload(c) \/ EraseFails(c)
                \/ DeleteRows(c) \/ CleanupFails(c)
         PROVE  TypeOK'
    <2>1. ASSUME NEW at \in {"erase", "delete", "remove"},
                 cleaner' = [cleaner EXCEPT ![c].at = at]
          PROVE  cleaner' \in [Cleaners -> CleanerType]
      <3>1. cleaner \in [Cleaners -> CleanerType] /\ cleaner[c] \in CleanerType
        BY <1>0 DEF CleanerType
      <3>2. [cleaner[c] EXCEPT !.at = at] \in CleanerType
        BY <3>1 DEF CleanerType
      <3>3. cleaner' = [cleaner EXCEPT ![c] = [cleaner[c] EXCEPT !.at = at]]
        BY <2>1, <3>1
      <3>4. QED
        BY <3>1, <3>2, <3>3
    <2>2. cleaner' \in [Cleaners -> CleanerType]
      BY <2>1, <1>11 DEF PayloadsFound, ErasePayload, EraseFails, DeleteRows,
                         CleanupFails
    <2>3. faults' \in Nat
      BY <1>0, <1>11 DEF PayloadsFound, ErasePayload, EraseFails, DeleteRows,
                         CleanupFails, Fault
    <2>4. UNCHANGED <<clock, processVars, webhooks, saved, chain, retention, config,
                      changed, issued, lapsed, restored, behind>>
      BY <1>11 DEF PayloadsFound, ErasePayload, EraseFails, DeleteRows, CleanupFails
    <2>5. rows' \subseteq Webhooks /\ payloads' \subseteq Webhooks
      BY <1>0, <1>11 DEF PayloadsFound, ErasePayload, EraseFails, DeleteRows,
                         CleanupFails
    <2>6. QED
      BY <1>0, <2>2, <2>3, <2>4, <2>5 DEF CleanerType
  <1>12. ASSUME NEW c \in Cleaners, RemoveWebhook(c) PROVE TypeOK'
    <2>1. cleaner' \in [Cleaners -> CleanerType]
      <3>0. cleaner \in [Cleaners -> CleanerType] /\ cleaner[c] \in CleanerType
        BY <1>0 DEF CleanerType
      <3>1. [cleaner[c] EXCEPT !.at = "scan", !.id = Null] \in CleanerType
        BY <3>0 DEF CleanerType
      <3>2. cleaner' = [cleaner EXCEPT ![c] =
                          [cleaner[c] EXCEPT !.at = "scan", !.id = Null]]
        BY <3>0, <1>12 DEF RemoveWebhook
      <3>3. QED
        BY <3>0, <3>1, <3>2
    <2>2. webhooks' \in Map /\ changed' \subseteq Cleaners
      BY <1>0, <1>12 DEF RemoveWebhook, Map, Expiry
    <2>3. QED
      BY <1>0, <1>12, <2>1, <2>2 DEF RemoveWebhook, CleanerType
  <1>13. ASSUME NEW c \in Cleaners, EndCleanup(c) PROVE TypeOK'
    <2>1. chain' \in Seq(Link)
      <3>1. CASE c \in changed
        <4>1. Persist(webhooks, c) /\ webhooks \in Map /\ c \in Callers
          BY <1>0, <1>13, <3>1 DEF EndCleanup, Callers
        <4>2. QED
          BY <1>0, <4>1, ChainGrows
      <3>2. CASE c \notin changed
        BY <1>0, <1>13, <3>2 DEF EndCleanup
      <3>3. QED
        BY <3>1, <3>2
    <2>2. cleaner' \in [Cleaners -> CleanerType]
      <3>1. [at |-> "idle", now |-> 0, id |-> Null] \in CleanerType
        BY DEF CleanerType
      <3>2. [at |-> "persist", now |-> 0, id |-> Null] \in CleanerType
        BY DEF CleanerType
      <3>3. \/ cleaner' = [cleaner EXCEPT ![c] =
                              [at |-> "persist", now |-> 0, id |-> Null]]
            \/ cleaner' = [cleaner EXCEPT ![c] = [at |-> "idle", now |-> 0, id |-> Null]]
        BY <1>0, <1>13 DEF EndCleanup
      <3>4. cleaner \in [Cleaners -> CleanerType]
        BY <1>0 DEF CleanerType
      <3> HIDE DEF TypeOK
      <3>5. QED
        BY <3>1, <3>2, <3>3, <3>4
    <2>3. QED
      BY <1>0, <1>13, <2>1, <2>2 DEF EndCleanup, Link, CleanerType
  <1>14. ASSUME NEW c \in Cleaners, CleanupDone(c) PROVE TypeOK'
    BY <1>0, <1>14 DEF CleanupDone
  <1>15. ASSUME FinalPersist PROVE TypeOK'
    <2>1. ending' \in {"shutdown", "signal"} /\ faults' \in Nat
      BY <1>0, <1>15 DEF FinalPersist, Fault
    <2>2. chain' \in Seq(Link)
      BY <1>0, <1>15, <2>1, ChainGrows DEF FinalPersist, Callers
    <2>3. QED
      BY <1>0, <1>15, <2>1, <2>2 DEF FinalPersist, Link
  <1>16. ASSUME Exit \/ Crash PROVE TypeOK'
    <2>1. restored' \in BOOLEAN /\ behind' \in BOOLEAN
      BY <1>0, <1>16, Zenon DEF Exit, Crash, Ended
    <2>2. Ended /\ faults' \in Nat
      BY <1>0, <1>16 DEF Exit, Crash, Fault
    <2>3. webhooks' \in Map /\ answer' \in Map /\ chain' \in Seq(Link)
      BY <2>2, EmptySeq DEF Ended, Map, Expiry
    <2>4. QED
      BY <1>0, <2>1, <2>2, <2>3 DEF Ended, Link
  <1>17. CASE UNCHANGED vars
    BY <1>0, <1>17 DEF vars
  <1> HIDE DEF TypeOK
  <1>19. QED
    BY <1>1, <1>2, <1>3, <1>4, <1>5, <1>6, <1>7, <1>8, <1>9, <1>10, <1>11,
       <1>12, <1>13, <1>14, <1>15, <1>16, <1>17, <1>18
       DEF Next, ConfigStep, CleanerStep

-----------------------------------------------------------------------------
(* The kinds of steps, by what they do to the map, the record and the      *)
(* chain.                                                                  *)
Core == <<clock, webhooks, saved, chain, issued, lapsed>>

(* Ids are issued or extended, or nothing changes, and the map is persisted*)
Pushes ==
  /\ UNCHANGED <<clock, saved, lapsed>>
  /\ chain' \in Seq(Link) /\ Len(chain') = Len(chain) + 1
  /\ \A k \in 1..Len(chain) : chain'[k] = chain[k]
  /\ chain'[Len(chain')].map = webhooks'
  /\ issued \subseteq issued'
  /\ \A w \in Webhooks :
       \/ webhooks'[w] = webhooks[w]
       \/ w \notin issued /\ w \in issued' /\ webhooks'[w] \in Nat
       \/ /\ webhooks[w] # Null /\ webhooks[w] > clock
          /\ webhooks'[w] \in Nat /\ webhooks[w] <= webhooks'[w]

(* The first link is written, or its write fails.                          *)
Pops ==
  /\ UNCHANGED <<clock, webhooks, issued, lapsed>>
  /\ chain # <<>> /\ chain' = Tail(chain)
  /\ \/ saved' = Head(chain).map /\ (~behind' => Head(chain).caller # "signal")
     \/ saved' = saved /\ behind'

Removes ==
  /\ UNCHANGED <<clock, saved, chain, issued, lapsed>>
  /\ \A w \in Webhooks :
       \/ webhooks'[w] = webhooks[w]
       \/ /\ webhooks'[w] = Null
          /\ webhooks[w] = Null \/ webhooks[w] < clock

LEMMA StepKinds ==
  ASSUME IInv, TypeOK', [Next]_vars
  PROVE  \/ UNCHANGED Core \/ Tick \/ Pushes \/ Pops \/ Removes
         \/ \E r \in Retentions : InitManager(r)
         \/ Exit \/ Crash
  <1> DEFINE Kind ==
         \/ UNCHANGED Core \/ Tick \/ Pushes \/ Pops \/ Removes
         \/ \E r \in Retentions : InitManager(r)
         \/ Exit \/ Crash
  <1>0. TypeOK /\ chain \in Seq(Link)
    BY DEF IInv, TypeOK, Link
  <1>1. ASSUME NEW new \in SUBSET (Webhooks \ issued), Generate(new) PROVE Kind
    <2>1. CASE new = {}
      <3>1. webhooks' = webhooks
        BY <1>0, <1>1, <2>1 DEF Generate, TypeOK, Map
      <3>2. QED
        BY <1>1, <2>1, <3>1 DEF Generate, Core
    <2>2. CASE new # {}
      <3>1. Persist(webhooks', "config") /\ webhooks' \in Map
        BY <1>1, <2>2 DEF Generate, TypeOK
      <3>2. /\ chain' \in Seq(Link) /\ Len(chain') = Len(chain) + 1
            /\ \A k \in 1..Len(chain) : chain'[k] = chain[k]
            /\ chain'[Len(chain')].map = webhooks'
        BY <1>0, <3>1, ChainGrows DEF Callers
      <3>3. \A w \in Webhooks :
              \/ webhooks'[w] = webhooks[w]
              \/ w \notin issued /\ w \in issued' /\ webhooks'[w] \in Nat
        BY <1>0, <1>1 DEF Generate, TypeOK
      <3>4. UNCHANGED <<clock, saved, lapsed>> /\ issued \subseteq issued'
        BY <1>1 DEF Generate
      <3>5. QED
        BY <3>2, <3>3, <3>4 DEF Pushes
    <2>3. QED
      BY <2>1, <2>2
  <1>2. ASSUME Extend PROVE Kind
    <2>1. CASE webhooks' = webhooks
      BY <1>2, <2>1 DEF Extend, Core
    <2>2. CASE webhooks' # webhooks
      <3>1. PICK r \in Nat : webhooks' = Extended(r)
        BY <1>0, <1>2, <2>2 DEF Extend, TypeOK
      <3>2. Persist(webhooks', "config") /\ webhooks' \in Map
        BY <1>2, <2>2 DEF Extend, TypeOK
      <3>3. /\ chain' \in Seq(Link) /\ Len(chain') = Len(chain) + 1
            /\ \A k \in 1..Len(chain) : chain'[k] = chain[k]
            /\ chain'[Len(chain')].map = webhooks'
        BY <1>0, <3>2, ChainGrows DEF Callers
      <3>4. \A w \in Webhooks :
              \/ webhooks'[w] = webhooks[w]
              \/ /\ webhooks[w] # Null /\ webhooks[w] > clock
                 /\ webhooks'[w] \in Nat /\ webhooks[w] <= webhooks'[w]
        BY <1>0, <3>1 DEF Extended, IsValid, ValidAt, TypeOK, Map, Expiry
      <3>5. UNCHANGED <<clock, saved, lapsed, issued>>
        BY <1>2 DEF Extend
      <3>6. QED
        BY <3>3, <3>4, <3>5 DEF Pushes
    <2>3. QED
      BY <2>1, <2>2
  <1>3. ASSUME WriteState \/ WriteFails PROVE Kind
    <2>1. Pops
      BY <1>3, Zenon DEF WriteState, WriteFails, Pops
    <2>2. QED
      BY <2>1
  <1>4. ASSUME NEW c \in Cleaners, RemoveWebhook(c) PROVE Kind
    <2>1. cleaner[c].id \in issued
          /\ (webhooks[cleaner[c].id] = Null \/ webhooks[cleaner[c].id] < clock)
      BY <1>4 DEF RemoveWebhook, IInv, HoldsExpired, Holding
    <2>2. webhooks' = [webhooks EXCEPT ![cleaner[c].id] = Null]
          /\ webhooks \in Map
      BY <1>0, <1>4 DEF RemoveWebhook, TypeOK
    <2>4. ASSUME NEW w \in Webhooks
          PROVE  \/ webhooks'[w] = webhooks[w]
                 \/ /\ webhooks'[w] = Null
                    /\ webhooks[w] = Null \/ webhooks[w] < clock
      <3>1. CASE w = cleaner[c].id
        BY <2>1, <2>2, <3>1 DEF Map
      <3>2. CASE w # cleaner[c].id
        BY <2>2, <3>2 DEF Map
      <3>3. QED
        BY <3>1, <3>2
    <2>5. Removes
      BY <1>4, <2>4 DEF RemoveWebhook, Removes
    <2>6. QED
      BY <2>5
  <1>5. ASSUME NEW c \in Callers, Persist(webhooks, c),
               UNCHANGED <<clock, webhooks, saved, issued, lapsed>>
        PROVE  Kind
    <2>1. /\ chain' \in Seq(Link) /\ Len(chain') = Len(chain) + 1
          /\ \A k \in 1..Len(chain) : chain'[k] = chain[k]
          /\ chain'[Len(chain')].map = webhooks
      BY <1>0, <1>5, ChainGrows DEF TypeOK
    <2>2. QED
      BY <1>5, <2>1 DEF Pushes
  <1>6. ASSUME NEW c \in Cleaners, EndCleanup(c) PROVE Kind
    BY <1>5, <1>6 DEF EndCleanup, Core, Callers
  <1>7. ASSUME FinalPersist PROVE Kind
    BY <1>5, <1>7 DEF FinalPersist, Callers
  <1>8. ASSUME UNCHANGED Core PROVE Kind
    BY <1>8
  <1>9. ASSUME NEW c \in Cleaners, CleanerStep(c) \/ StartCleanup(c)
                 \/ EraseFails(c) \/ CleanupFails(c)
        PROVE  Kind
    BY <1>4, <1>6, <1>8, <1>9
       DEF CleanerStep, StartCleanup, FindExpired, PayloadsFound, ErasePayload,
           EraseFails, DeleteRows, CleanupFails, CleanupDone, Core
  <1>10. ASSUME Tick \/ Exit \/ Crash \/ \E r \in Retentions : InitManager(r)
         PROVE  Kind
    BY <1>10
  <1>11. ASSUME \/ \E r \in Retentions : InitFails(r) \/ HotReload(r)
                \/ GetState \/ Generated \/ ExtendDone
                \/ \E w \in Webhooks : LogRequest(w)
                \/ UNCHANGED vars
         PROVE  Kind
    BY <1>8, <1>11 DEF GetState, InitFails, HotReload, Generated, ExtendDone, LogRequest,
                       vars, Core
  <1> HIDE DEF Kind
  <1>12. Kind
    BY <1>1, <1>2, <1>3, <1>7, <1>9, <1>10, <1>11 DEF Next, ConfigStep
  <1>13. QED
    BY <1>12 DEF Kind

-----------------------------------------------------------------------------
(* Each kind of step keeps what the invariant says of the expiries.        *)
Expiries == FreshNowhere /\ LapsedOver /\ NeverAhead

(* The types that the steps below need, with arithmetic on expiries.       *)
LEMMA ExpiryTypes ==
  ASSUME TypeOK
  PROVE  /\ clock \in Nat /\ Null \notin Int
         /\ lapsed \subseteq Webhooks /\ issued \subseteq Webhooks
         /\ chain \in Seq(Link) /\ Len(chain) \in Nat
         /\ \A w \in Webhooks :
              /\ webhooks[w] \in Nat \cup {Null} /\ saved[w] \in Nat \cup {Null}
              /\ \A k \in 1..Len(chain) : chain[k].map[w] \in Nat \cup {Null}
  <1>1. chain \in Seq(Link)
    BY DEF TypeOK, Link
  <1>2. Len(chain) \in Nat /\ \A k \in 1..Len(chain) : chain[k] \in Link
    BY <1>1, LenProperties, ElementOfSeq
  <1>3. \A w \in Webhooks, k \in 1..Len(chain) : chain[k].map[w] \in Nat \cup {Null}
    BY <1>2 DEF Link, Map, Expiry
  <1>4. QED
    BY <1>1, <1>2, <1>3, ConstantsAssumption DEF TypeOK, Map, Expiry

LEMMA TickKeeps ==
  ASSUME IInv, Tick
  PROVE  Expiries'
  <1>0. TypeOK /\ Expiries
    BY DEF IInv, Expiries
  <1>1. /\ clock' = clock + 1
        /\ UNCHANGED <<webhooks, saved, chain, issued>>
        /\ \A w \in lapsed' :
             w \in lapsed \/ (w \in Webhooks /\ webhooks[w] # Null /\ webhooks[w] <= clock')
    BY DEF Tick
  <1>2. FreshNowhere' /\ NeverAhead'
    BY <1>0, <1>1, ExpiryTypes DEF Expiries, FreshNowhere, NeverAhead, Le
  <1>3. ASSUME NEW w \in lapsed'
        PROVE  (/\ Over(webhooks[w]) /\ Over(saved[w])
                /\ \A k \in 1..Len(chain) : Over(chain[k].map[w]))'
    <2>1. CASE w \in lapsed
      BY <1>0, <1>1, <2>1, ExpiryTypes DEF Expiries, LapsedOver, Over
    <2>2. CASE w \in Webhooks /\ webhooks[w] # Null /\ webhooks[w] <= clock'
      BY <1>0, <1>1, <2>2, ExpiryTypes DEF Expiries, NeverAhead, Le, Over
    <2>3. QED
      BY <1>1, <2>1, <2>2
  <1>4. QED
    BY <1>2, <1>3 DEF Expiries, LapsedOver

LEMMA PushKeeps ==
  ASSUME IInv, TypeOK', Pushes
  PROVE  Expiries'
  <1>0. TypeOK /\ Expiries
    BY DEF IInv, Expiries
  <1> DEFINE N == Len(chain)
  <1>1. /\ N \in Nat /\ Len(chain') = N + 1
        /\ \A k \in 1..N : chain'[k] = chain[k]
        /\ chain'[N + 1].map = webhooks'
        /\ UNCHANGED <<clock, saved, lapsed>> /\ issued \subseteq issued'
    BY <1>0, ExpiryTypes DEF Pushes
  <1>2. \A k \in 1..Len(chain') : k \in 1..N \/ k = N + 1
    BY <1>1
  <1> HIDE DEF N
  <1>3. \A w \in Webhooks :
          \/ webhooks'[w] = webhooks[w]
          \/ w \notin issued /\ w \in issued' /\ webhooks'[w] \in Nat
          \/ /\ webhooks[w] # Null /\ webhooks[w] > clock
             /\ webhooks'[w] \in Nat /\ webhooks[w] <= webhooks'[w]
    BY DEF Pushes
  <1>4. ASSUME NEW w \in Webhooks
        PROVE  \A k \in 1..Len(chain') :
                 \/ k \in 1..N /\ chain'[k].map[w] = chain[k].map[w]
                 \/ chain'[k].map[w] = webhooks'[w]
    BY <1>1, <1>2
  <1>5. FreshNowhere'
    <2>1. lapsed' \subseteq issued'
      BY <1>0, <1>1 DEF Expiries, FreshNowhere
    <2>2. ASSUME NEW w \in Webhooks \ issued'
          PROVE  /\ webhooks'[w] = Null /\ saved'[w] = Null
                 /\ \A k \in 1..Len(chain') : chain'[k].map[w] = Null
      <3>1. w \in Webhooks \ issued
        BY <1>1
      <3>2. webhooks[w] = Null /\ saved[w] = Null
            /\ \A k \in 1..N : chain[k].map[w] = Null
        BY <1>0, <3>1 DEF Expiries, FreshNowhere, N
      <3>3. webhooks'[w] = Null
        BY <1>3, <3>2
      <3>4. QED
        BY <1>1, <1>4, <3>2, <3>3
    <2>3. QED
      BY <2>1, <2>2 DEF FreshNowhere
  <1>6. ASSUME NEW w \in lapsed'
        PROVE  (/\ Over(webhooks[w]) /\ Over(saved[w])
                /\ \A k \in 1..Len(chain) : Over(chain[k].map[w]))'
    <2>1. w \in lapsed /\ w \in issued /\ w \in Webhooks
      BY <1>0, <1>1, ExpiryTypes DEF Expiries, FreshNowhere
    <2>2. Over(webhooks[w]) /\ Over(saved[w]) /\ \A k \in 1..N : Over(chain[k].map[w])
      BY <1>0, <2>1 DEF Expiries, LapsedOver, N
    <2>3. webhooks'[w] = webhooks[w]
      BY <1>0, <1>3, <2>1, <2>2, ExpiryTypes DEF Over
    <2>4. QED
      BY <1>1, <1>4, <2>1, <2>2, <2>3 DEF Over
  <1>7. ASSUME NEW w \in Webhooks, webhooks'[w] # Null
        PROVE  (/\ Le(saved[w], webhooks[w])
                /\ \A k \in 1..Len(chain) : Le(chain[k].map[w], webhooks[w]))'
    <2>1. /\ webhooks'[w] \in Nat
          /\ webhooks[w] \in Nat \cup {Null} /\ saved[w] \in Nat \cup {Null}
          /\ \A k \in 1..N : chain[k].map[w] \in Nat \cup {Null}
      BY <1>0, <1>7, ExpiryTypes DEF TypeOK, Map, Expiry, N
    <2>2. Le(saved[w], webhooks'[w]) /\ \A k \in 1..N : Le(chain[k].map[w], webhooks'[w])
      <3>1. CASE webhooks[w] = Null
        <4>1. w \notin issued
          BY <1>3, <1>7, <3>1
        <4>2. QED
          BY <1>0, <4>1 DEF Expiries, FreshNowhere, Le, N
      <3>2. CASE webhooks[w] # Null
        <4>1. webhooks[w] <= webhooks'[w] /\ webhooks[w] \in Nat
          BY <1>0, <1>3, <2>1, <3>2, ExpiryTypes DEF Expiries, FreshNowhere
        <4>2. Le(saved[w], webhooks[w]) /\ \A k \in 1..N : Le(chain[k].map[w], webhooks[w])
          BY <1>0, <3>2 DEF Expiries, NeverAhead, N
        <4>3. QED
          BY <2>1, <4>1, <4>2 DEF Le
      <3>3. QED
        BY <3>1, <3>2
    <2>3. QED
      BY <1>1, <1>4, <2>1, <2>2 DEF Le
  <1>8. QED
    BY <1>5, <1>6, <1>7 DEF Expiries, LapsedOver, NeverAhead

LEMMA PopKeeps ==
  ASSUME IInv, TypeOK', Pops
  PROVE  Expiries'
  <1>0. TypeOK /\ Expiries
    BY DEF IInv, Expiries
  <1>1. /\ UNCHANGED <<clock, webhooks, issued, lapsed>>
        /\ Len(chain) \in Nat \ {0} /\ Len(chain') = Len(chain) - 1
        /\ \A k \in 1..Len(chain') : chain'[k] = chain[k + 1]
        /\ saved' = saved \/ saved' = chain[1].map
    BY <1>0, ExpiryTypes, ChainShrinks DEF Pops
  <1>2. ASSUME NEW w \in Webhooks
        PROVE  /\ \/ saved'[w] = saved[w]
                  \/ 1 \in 1..Len(chain) /\ saved'[w] = chain[1].map[w]
               /\ \A k \in 1..Len(chain') :
                    k + 1 \in 1..Len(chain) /\ chain'[k].map[w] = chain[k + 1].map[w]
    BY <1>1
  <1>3. FreshNowhere'
    BY <1>0, <1>1, <1>2 DEF Expiries, FreshNowhere
  <1>4. LapsedOver'
    BY <1>0, <1>1, <1>2, ExpiryTypes DEF Expiries, LapsedOver, Over
  <1>5. NeverAhead'
    BY <1>0, <1>1, <1>2 DEF Expiries, NeverAhead, Le
  <1>6. QED
    BY <1>3, <1>4, <1>5 DEF Expiries

LEMMA RemoveKeeps ==
  ASSUME IInv, Removes
  PROVE  Expiries'
  <1>0. TypeOK /\ Expiries
    BY DEF IInv, Expiries
  <1>1. /\ UNCHANGED <<clock, saved, chain, issued, lapsed>>
        /\ \A w \in Webhooks : webhooks'[w] = webhooks[w] \/ webhooks'[w] = Null
    BY DEF Removes
  <1>2. FreshNowhere' /\ NeverAhead'
    BY <1>0, <1>1 DEF Expiries, FreshNowhere, NeverAhead, Le
  <1>3. LapsedOver'
    BY <1>0, <1>1, ExpiryTypes DEF Expiries, LapsedOver, Over
  <1>4. QED
    BY <1>2, <1>3 DEF Expiries

(* A process that starts has what the record held; one that ends leaves    *)
(* only the record.                                                        *)
LEMMA RestartKeeps ==
  ASSUME IInv, (\E r \in Retentions : InitManager(r)) \/ Exit \/ Crash
  PROVE  Expiries'
  <1>0. TypeOK /\ Expiries /\ EmptyUntilUp /\ Answered
    BY DEF IInv, Expiries
  <1>1. ASSUME NEW r \in Retentions, InitManager(r) PROVE Expiries'
    <2>1. /\ \A k \in 1..Len(chain), w \in Webhooks : chain[k].map[w] = Null
          /\ \A w \in Webhooks :
               /\ w \notin issued => answer[w] = Null
               /\ w \in lapsed => Over(answer[w])
               /\ saved[w] = answer[w] \/ saved[w] = Null
      BY <1>0, <1>1 DEF InitManager, EmptyUntilUp, Answered
    <2>2. /\ webhooks' = answer /\ UNCHANGED <<clock, saved, chain, issued>>
          /\ \A w \in lapsed' :
               \/ w \in lapsed
               \/ w \in Webhooks /\ answer[w] # Null /\ answer[w] <= clock
      BY <1>1 DEF InitManager
    <2>3. FreshNowhere'
      <3>1. \A w \in lapsed' : w \in issued
        BY <1>0, <2>1, <2>2 DEF Expiries, FreshNowhere
      <3>2. QED
        BY <1>0, <2>1, <2>2, <3>1 DEF Expiries, FreshNowhere
    <2>4. LapsedOver'
      <3>1. ASSUME NEW w \in lapsed' PROVE w \in Webhooks /\ Over(answer[w])
        BY <1>0, <2>1, <2>2, ExpiryTypes DEF Over
      <3>2. QED
        BY <2>1, <2>2, <3>1 DEF LapsedOver, Over
    <2>5. NeverAhead'
      <3>1. answer \in Map
        BY <1>0 DEF TypeOK
      <3>2. QED
        BY <2>1, <2>2, <3>1 DEF NeverAhead, Le, Map, Expiry
    <2>6. QED
      BY <2>3, <2>4, <2>5 DEF Expiries
  <1>2. ASSUME Exit \/ Crash PROVE Expiries'
    <2>1. /\ \A w \in Webhooks : webhooks'[w] = Null
          /\ chain' = <<>> /\ Len(chain') = 0
          /\ UNCHANGED <<clock, saved, issued, lapsed>>
      BY <1>2, EmptySeq DEF Exit, Crash, Ended
    <2>2. FreshNowhere' /\ NeverAhead'
      BY <1>0, <2>1 DEF Expiries, FreshNowhere, NeverAhead
    <2>3. LapsedOver'
      BY <1>0, <2>1, ExpiryTypes DEF Expiries, LapsedOver, Over
    <2>4. QED
      BY <2>2, <2>3 DEF Expiries
  <1>3. QED
    BY <1>1, <1>2

LEMMA ExpiriesStep ==
  ASSUME IInv, TypeOK', [Next]_vars
  PROVE  Expiries'
  <1>1. CASE UNCHANGED Core
    BY <1>1 DEF IInv, Core, Expiries, FreshNowhere, LapsedOver, NeverAhead, Over, Le
  <1>2. QED
    BY <1>1, StepKinds, TickKeeps, PushKeeps, PopKeeps, RemoveKeeps, RestartKeeps

-----------------------------------------------------------------------------
(* What one step does to a cleanup: it holds the webhook that it held, or  *)
(* takes one that had expired at its `now`, or holds none.                 *)
LEMMA CleanerMoves ==
  ASSUME IInv, [Next]_vars, NEW c \in Cleaners
  PROVE  /\ cleaner'[c].now = cleaner[c].now \/ cleaner'[c].now <= clock
         /\ cleaner'[c].at \in Holding =>
              \/ cleaner[c].at \in Holding /\ cleaner'[c].id = cleaner[c].id
              \/ /\ cleaner'[c].id \in Webhooks /\ webhooks' = webhooks
                 /\ ExpiredAt(webhooks[cleaner'[c].id], cleaner[c].now)
  <1> DEFINE Moves ==
         /\ cleaner'[c].now = cleaner[c].now \/ cleaner'[c].now <= clock
         /\ cleaner'[c].at \in Holding =>
              \/ cleaner[c].at \in Holding /\ cleaner'[c].id = cleaner[c].id
              \/ /\ cleaner'[c].id \in Webhooks /\ webhooks' = webhooks
                 /\ ExpiredAt(webhooks[cleaner'[c].id], cleaner[c].now)
  <1>0. cleaner \in [Cleaners -> CleanerType] /\ clock \in Nat
    BY DEF IInv, TypeOK, CleanerType
  <1>1. ASSUME NEW d \in Cleaners, NEW at \in Holding,
               cleaner' = [cleaner EXCEPT ![d].at = at],
               cleaner[d].at \in Holding
        PROVE  Moves
    BY <1>0, <1>1 DEF CleanerType, Holding
  <1>2. ASSUME NEW d \in Cleaners,
               \/ cleaner' = [cleaner EXCEPT ![d] = NoCleaner]
               \/ cleaner' = [cleaner EXCEPT ![d] =
                                [at |-> "persist", now |-> 0, id |-> Null]]
               \/ cleaner' = [cleaner EXCEPT ![d].at = "scan", ![d].id = Null]
               \/ cleaner' = [cleaner EXCEPT ![d] =
                                [at |-> "scan", now |-> clock, id |-> Null]]
        PROVE  Moves
    BY <1>0, <1>2 DEF CleanerType, Holding
  <1>3. ASSUME NEW d \in Cleaners, NEW w \in Webhooks, FindExpired(d, w) PROVE Moves
    <2>1. CASE c = d
      <3>1. cleaner'[c].now = cleaner[c].now /\ cleaner'[c].id = w
        BY <1>0, <1>3, <2>1 DEF FindExpired, CleanerType
      <3>2. webhooks' = webhooks /\ ExpiredAt(webhooks[w], cleaner[c].now)
        BY <1>3, <2>1 DEF FindExpired, Doomed
      <3>3. QED
        BY <3>1, <3>2
    <2>2. CASE c # d
      BY <1>0, <1>3, <2>2 DEF FindExpired, CleanerType
    <2>3. QED
      BY <2>1, <2>2
  <1>4. ASSUME cleaner' = cleaner \/ cleaner' = [d \in Cleaners |-> NoCleaner]
        PROVE  Moves
    BY <1>0, <1>4 DEF Holding
  <1> HIDE DEF Moves
  <1>5. ASSUME NEW d \in Cleaners, CleanerStep(d) \/ StartCleanup(d)
                 \/ EraseFails(d) \/ CleanupFails(d)
        PROVE  Moves
    <2>1. CASE StartCleanup(d) \/ CleanupDone(d)
      BY <1>2, <2>1 DEF StartCleanup, CleanupDone
    <2>2. CASE PayloadsFound(d) \/ ErasePayload(d) \/ EraseFails(d) \/ DeleteRows(d)
               \/ CleanupFails(d)
      <3>1. /\ cleaner[d].at \in Holding
            /\ \/ cleaner' = [cleaner EXCEPT ![d].at = "erase"]
               \/ cleaner' = [cleaner EXCEPT ![d].at = "delete"]
               \/ cleaner' = [cleaner EXCEPT ![d].at = "remove"]
        BY <2>2 DEF PayloadsFound, ErasePayload, EraseFails, DeleteRows, CleanupFails,
                    Holding
      <3>2. {"erase", "delete", "remove"} \subseteq Holding
        BY DEF Holding
      <3>3. QED
        BY <1>1, <3>1, <3>2
    <2>3. CASE EndCleanup(d) \/ RemoveWebhook(d)
      <3>1. [NoCleaner EXCEPT !.at = "persist"] = [at |-> "persist", now |-> 0, id |-> Null]
        OBVIOUS
      <3>2. QED
        BY <1>2, <2>3, <3>1 DEF EndCleanup, RemoveWebhook
    <2>4. QED
      BY <1>3, <1>5, <2>1, <2>2, <2>3 DEF CleanerStep
  <1>6. ASSUME \/ Tick \/ GetState
               \/ \E r \in Retentions : InitManager(r) \/ InitFails(r) \/ HotReload(r)
               \/ ConfigStep \/ WriteState \/ WriteFails
               \/ (\E w \in Webhooks : LogRequest(w))
               \/ FinalPersist \/ Exit \/ Crash \/ UNCHANGED vars
        PROVE  Moves
    BY <1>4, <1>6
       DEF Tick, GetState, InitManager, InitFails, HotReload, ConfigStep, Generate,
           Generated, Extend, ExtendDone, WriteState, WriteFails, LogRequest,
           FinalPersist, Exit, Crash, Ended, vars
  <1>7. Moves
    BY <1>5, <1>6 DEF Next
  <1>8. QED
    BY <1>7 DEF Moves

LEMMA HoldsStep ==
  ASSUME IInv, TypeOK', [Next]_vars
  PROVE  HoldsExpired'
  <1>0. TypeOK /\ HoldsExpired /\ FreshNowhere /\ EmptyUntilUp
    BY DEF IInv
  <1>1. clock' \in Nat /\ clock <= clock'
    <2>1. clock' = clock \/ clock' = clock + 1
      BY StepKinds DEF Core, Tick, Pushes, Pops, Removes, InitManager, Exit, Crash, Ended
    <2>2. QED
      BY <1>0, <2>1, ExpiryTypes
  <1>2. ASSUME NEW w \in issued, webhooks[w] = Null \/ webhooks[w] < clock,
               phase # "up" => \A c \in Cleaners : cleaner'[c].at \notin Holding
        PROVE  \/ w \in issued' /\ (webhooks'[w] = Null \/ webhooks'[w] < clock')
               \/ \A c \in Cleaners : cleaner'[c].at \notin Holding
    <2>0. w \in Webhooks /\ webhooks[w] \in Nat \cup {Null} /\ clock \in Nat
          /\ Null \notin Int
      BY <1>0, <1>2, ExpiryTypes
    <2>1. CASE UNCHANGED Core \/ Tick \/ Pops
      <3>1. webhooks' = webhooks /\ issued' = issued
        BY <2>1 DEF Core, Tick, Pops
      <3>2. QED
        BY <1>1, <1>2, <2>0, <3>1
    <2>2. CASE Pushes
      <3>1. webhooks'[w] = webhooks[w] /\ w \in issued' /\ clock' = clock
        BY <1>2, <2>0, <2>2 DEF Pushes
      <3>2. QED
        BY <1>2, <3>1
    <2>3. CASE Removes
      BY <1>2, <2>0, <2>3 DEF Removes
    <2>4. CASE \E r \in Retentions : InitManager(r)
      BY <1>2, <2>4 DEF InitManager
    <2>5. CASE Exit \/ Crash
      BY <2>0, <1>2, <2>5 DEF Exit, Crash, Ended
    <2>6. QED
      BY <2>1, <2>2, <2>3, <2>4, <2>5, StepKinds
  <1>3. ASSUME phase # "up", NEW c \in Cleaners PROVE cleaner'[c].at \notin Holding
    <2>1. cleaner[c].at = "idle" /\ \A w \in Webhooks : webhooks[w] = Null
      BY <1>0, <1>3 DEF EmptyUntilUp
    <2>2. QED
      BY <2>1, CleanerMoves DEF Holding, ExpiredAt
  <1>4. ASSUME NEW c \in Cleaners
        PROVE  (/\ cleaner[c].now <= clock
                /\ cleaner[c].at \in Holding =>
                     /\ cleaner[c].id \in issued
                     /\ webhooks[cleaner[c].id] = Null \/ webhooks[cleaner[c].id] < clock)'
    <2>0. cleaner[c].now \in Nat /\ cleaner'[c].now \in Nat /\ clock \in Nat
      BY <1>0 DEF TypeOK
    <2>1. cleaner'[c].now <= clock'
      BY <1>0, <1>1, <2>0, CleanerMoves DEF HoldsExpired
    <2>2. ASSUME cleaner'[c].at \in Holding
          PROVE  /\ cleaner'[c].id \in issued'
                 /\ webhooks'[cleaner'[c].id] = Null \/ webhooks'[cleaner'[c].id] < clock'
      <3>1. PICK w : w = cleaner'[c].id
        OBVIOUS
      <3>2. w \in issued /\ (webhooks[w] = Null \/ webhooks[w] < clock)
        <4>1. CASE cleaner[c].at \in Holding /\ w = cleaner[c].id
          BY <1>0, <4>1 DEF HoldsExpired
        <4>2. CASE w \in Webhooks /\ ExpiredAt(webhooks[w], cleaner[c].now)
          <5>1. webhooks[w] # Null /\ webhooks[w] < cleaner[c].now
                /\ webhooks[w] \in Nat \cup {Null}
            BY <1>0, <4>2, ExpiryTypes, <2>0 DEF ExpiredAt
          <5>2. w \in issued
            BY <1>0, <4>2, <5>1 DEF FreshNowhere
          <5>3. cleaner[c].now <= clock
            BY <1>0 DEF HoldsExpired
          <5>4. QED
            BY <2>0, <5>1, <5>2, <5>3
        <4>3. QED
          BY <2>2, <3>1, <4>1, <4>2, CleanerMoves
      <3>3. QED
        BY <1>2, <1>3, <2>2, <3>1, <3>2
    <2>3. QED
      BY <2>1, <2>2
  <1>5. QED
    BY <1>4 DEF HoldsExpired

LEMMA EmptyStep ==
  ASSUME IInv, [Next]_vars
  PROVE  EmptyUntilUp'
  <1>0. EmptyUntilUp /\ TypeOK /\ chain \in Seq(Link) /\ Len(chain) \in Nat
    BY ExpiryTypes DEF IInv
  <1>1. CASE Exit \/ Crash
    BY <1>1, EmptySeq DEF Exit, Crash, Ended, EmptyUntilUp
  <1>2. CASE GetState \/ Tick \/ (\E w \in Webhooks : LogRequest(w)) \/ UNCHANGED vars
    BY <1>0, <1>2 DEF GetState, Tick, LogRequest, vars, EmptyUntilUp
  <1>3. CASE \E r \in Retentions : InitManager(r) \/ InitFails(r) \/ HotReload(r)
    BY <1>3 DEF InitManager, InitFails, HotReload, Serving, EmptyUntilUp
  <1>4. ASSUME phase = "up", phase' = phase PROVE EmptyUntilUp'
    BY <1>4 DEF EmptyUntilUp
  <1>5. CASE ConfigStep
    <2>1. config.at # "idle" /\ phase' = phase
      BY <1>5 DEF ConfigStep, Generate, Generated, Extend, ExtendDone
    <2>2. QED
      BY <1>0, <1>4, <2>1 DEF EmptyUntilUp
  <1>6. CASE WriteState \/ WriteFails
    <2>1. /\ Len(chain) \in Nat /\ Len(chain') = Len(chain) - 1
          /\ \A k \in 1..Len(chain') : chain'[k] = chain[k + 1]
      BY <1>0, <1>6, ChainShrinks DEF WriteState, WriteFails
    <2>2. UNCHANGED <<phase, webhooks, config, cleaner>>
      BY <1>6 DEF WriteState, WriteFails
    <2>3. \A k \in 1..Len(chain') : k + 1 \in 1..Len(chain)
      BY <2>1
    <2>4. QED
      BY <1>0, <2>1, <2>2, <2>3 DEF EmptyUntilUp
  <1>7. CASE FinalPersist
    <2>1. UNCHANGED <<phase, webhooks, config, cleaner>>
          /\ (phase # "up" => ending' = "signal") /\ Persist(webhooks, ending')
          /\ ending' \in Callers /\ webhooks \in Map
      BY <1>0, <1>7 DEF FinalPersist, Callers, TypeOK
    <2>2. /\ Len(chain') = Len(chain) + 1
          /\ \A k \in 1..Len(chain) : chain'[k] = chain[k]
          /\ chain'[Len(chain')].map = webhooks /\ chain'[Len(chain')].caller = ending'
      BY <1>0, <2>1, ChainGrows
    <2>3. \A k \in 1..Len(chain') : k \in 1..Len(chain) \/ k = Len(chain')
      BY <1>0, <2>2
    <2>4. QED
      BY <1>0, <2>1, <2>2, <2>3 DEF EmptyUntilUp
  <1>8. ASSUME NEW c \in Cleaners,
               StartCleanup(c) \/ CleanerStep(c) \/ EraseFails(c) \/ CleanupFails(c)
        PROVE  EmptyUntilUp'
    <2>1. phase' = phase
      BY <1>8 DEF StartCleanup, CleanerStep, FindExpired, PayloadsFound, ErasePayload,
                  EraseFails, DeleteRows, CleanupFails, RemoveWebhook,
                  EndCleanup, CleanupDone
    <2>2. ASSUME phase # "up" PROVE FALSE
      <3>1. cleaner[c].at = "idle"
        BY <1>0, <2>2 DEF EmptyUntilUp
      <3>2. QED
        BY <1>8, <2>2, <3>1
           DEF StartCleanup, CleanerStep, FindExpired, PayloadsFound, ErasePayload,
               EraseFails, DeleteRows, CleanupFails, RemoveWebhook,
               EndCleanup, CleanupDone
    <2>3. QED
      BY <1>4, <2>1, <2>2
  <1>9. QED
    BY <1>1, <1>2, <1>3, <1>5, <1>6, <1>7, <1>8 DEF Next

(* Which steps change `behind` and `restored`.                             *)
LEMMA HistoryMoves ==
  ASSUME IInv, [Next]_vars
  PROVE  /\ behind' = behind \/ Pops \/ Exit \/ Crash
         /\ restored' => restored \/ \E r \in Retentions : InitManager(r)
  <1>1. CASE WriteState \/ WriteFails
    <2>1. Pops /\ restored' = restored
      BY <1>1, Zenon DEF WriteState, WriteFails, Pops
    <2>2. QED
      BY <2>1
  <1>2. CASE Exit \/ Crash
    BY <1>2 DEF Exit, Crash, Ended
  <1>3. CASE \/ GetState \/ Tick \/ FinalPersist
             \/ \E w \in Webhooks : LogRequest(w)
             \/ UNCHANGED vars
    BY <1>3 DEF GetState, Tick, FinalPersist, LogRequest, vars
  <1>6. CASE ConfigStep
    <2>1. UNCHANGED storeVars /\ UNCHANGED restored
      BY <1>6, Zenon DEF ConfigStep, Generate, Generated, Extend, ExtendDone
    <2> QED
      BY <2>1
  <1>4. CASE \E r \in Retentions : InitManager(r) \/ InitFails(r) \/ HotReload(r)
    BY <1>4 DEF InitManager, InitFails, HotReload
  <1>5. CASE \E c \in Cleaners : StartCleanup(c) \/ CleanerStep(c) \/ EraseFails(c)
                                 \/ CleanupFails(c)
    BY <1>5 DEF StartCleanup, CleanerStep, FindExpired, PayloadsFound, ErasePayload,
                EraseFails, DeleteRows, CleanupFails, RemoveWebhook, EndCleanup,
                CleanupDone
  <1> QED
    BY <1>1, <1>2, <1>3, <1>4, <1>5, <1>6 DEF Next

(* Until init() resumes its answer stays, and only a signal's snapshot can *)
(* reach the record.                                                       *)
LEMMA AnsweredStep ==
  ASSUME IInv, TypeOK', [Next]_vars
  PROVE  Answered'
  <1>0. TypeOK /\ Expiries /\ EmptyUntilUp /\ Answered
    BY DEF IInv, Expiries
  <1>1. CASE GetState
    BY <1>0, <1>1, ExpiryTypes
       DEF GetState, Answered, Expiries, FreshNowhere, LapsedOver, Over
  <1>2. ASSUME phase = "init", phase' = "init", answer' = answer PROVE Answered'
    <2>1. /\ \A w \in Webhooks :
               /\ webhooks[w] = Null
               /\ w \notin issued => answer[w] = Null
               /\ w \in lapsed => Over(answer[w])
               /\ saved[w] = answer[w] \/ saved[w] = Null
          /\ chain = <<>> /\ ~behind => \A w \in Webhooks : saved[w] = answer[w]
      BY <1>0, <1>2 DEF EmptyUntilUp, Answered
    <2>2. CASE Pops
      <3>1. /\ Len(chain) \in Nat \ {0} /\ Head(chain) = chain[1]
        BY <1>0, <2>2, ExpiryTypes, ChainShrinks DEF Pops
      <3>2. 1 \in 1..Len(chain)
        BY <3>1
      <3>3. /\ Head(chain).caller = "signal"
            /\ \A w \in Webhooks : Head(chain).map[w] = Null
        BY <1>0, <1>2, <3>1, <3>2 DEF EmptyUntilUp
      <3>4. behind' /\ \A w \in Webhooks : saved'[w] = saved[w] \/ saved'[w] = Null
        BY <2>2, <3>3 DEF Pops
      <3>5. UNCHANGED <<clock, issued, lapsed>>
        BY <2>2 DEF Pops
      <3>6. QED
        BY <1>2, <2>1, <3>4, <3>5 DEF Answered, Over
    <2>3. CASE behind' = behind /\ Pushes
      <3>1. chain' # <<>> /\ UNCHANGED <<clock, saved, lapsed>> /\ issued \subseteq issued'
        BY <1>0, <2>3, ExpiryTypes, EmptySeq DEF Pushes
      <3>2. QED
        BY <1>2, <2>1, <3>1 DEF Answered, Over
    <2>4. CASE behind' = behind /\ Tick
      <3>1. UNCHANGED <<saved, chain, issued, lapsed>> /\ clock' = clock + 1
        <4>1. {w \in Webhooks : webhooks[w] # Null /\ webhooks[w] <= clock'} = {}
          BY <2>1
        <4>2. QED
          BY <2>4, <4>1 DEF Tick
      <3>2. \A w \in Webhooks : Over(answer[w]) => Over(answer[w])'
        BY <1>0, <1>2, <3>1, ExpiryTypes DEF Over, TypeOK, Map, Expiry
      <3>3. QED
        BY <1>2, <2>1, <2>4, <3>1, <3>2 DEF Answered
    <2>5. CASE behind' = behind /\ (UNCHANGED Core \/ Removes)
      <3>1. UNCHANGED <<clock, saved, chain, issued, lapsed>>
        BY <2>5 DEF Core, Removes
      <3>2. QED
        BY <1>2, <2>1, <2>5, <3>1 DEF Answered, Over
    <2>6. ~(Exit \/ Crash \/ \E r \in Retentions : InitManager(r))
      BY <1>2 DEF Exit, Crash, Ended, InitManager
    <2>7. QED
      BY <2>2, <2>3, <2>4, <2>5, <2>6, StepKinds, HistoryMoves
  <1>3. GetState \/ phase' # "init" \/ (phase = "init" /\ answer' = answer)
    <2>1. CASE Exit \/ Crash \/ \E r \in Retentions : InitManager(r) \/ InitFails(r)
      BY <2>1 DEF Exit, Crash, Ended, InitManager, InitFails
    <2>2. CASE ConfigStep
      BY <2>2 DEF ConfigStep, Generate, Generated, Extend, ExtendDone
    <2>3. CASE \E c \in Cleaners : StartCleanup(c) \/ CleanerStep(c) \/ EraseFails(c)
                                   \/ CleanupFails(c)
      BY <2>3 DEF StartCleanup, CleanerStep, FindExpired, PayloadsFound,
                  ErasePayload, EraseFails, DeleteRows, CleanupFails,
                  RemoveWebhook, EndCleanup, CleanupDone
    <2>4. CASE \/ Tick \/ FinalPersist \/ WriteState \/ WriteFails
               \/ \E w \in Webhooks : LogRequest(w)
               \/ \E r \in Retentions : HotReload(r)
               \/ UNCHANGED vars
      BY <2>4 DEF Tick, FinalPersist, WriteState, WriteFails, LogRequest, HotReload,
                  vars
    <2>5. QED
      BY <2>1, <2>2, <2>3, <2>4 DEF Next
  <1>4. QED
    BY <1>1, <1>2, <1>3 DEF Answered

LEMMA NextIInv == IInv /\ [Next]_vars => IInv'
  <1> SUFFICES ASSUME IInv, [Next]_vars PROVE IInv'
    OBVIOUS
  <1>1. TypeOK'
    BY TypeStep
  <1>2. Expiries'
    BY <1>1, ExpiriesStep
  <1>3. HoldsExpired' /\ EmptyUntilUp' /\ Answered'
    BY <1>1, HoldsStep, EmptyStep, AnsweredStep
  <1>4. QED
    BY <1>1, <1>2, <1>3 DEF IInv, Expiries

LEMMA Invariant == Spec => []IInv
  BY InitIInv, NextIInv, PTL DEF Spec

-----------------------------------------------------------------------------
(* The variables keep their types in every reachable state.                *)
THEOREM TypeCorrect == Spec => []TypeOK
  <1>1. IInv => TypeOK
    BY DEF IInv
  <1>2. QED
    BY <1>1, Invariant, PTL

(* A webhook that was seen at or after its expiry never accepts requests   *)
(* again: isValid stays false across extensions, writes and restarts.      *)
THEOREM LapsedForGoodHolds == Spec => []LapsedForGood
  <1>1. IInv => LapsedForGood
    <2>1. SUFFICES ASSUME IInv, NEW w \in lapsed PROVE ~IsValid(w)
      BY DEF LapsedForGood
    <2>2. Over(webhooks[w]) /\ w \in Webhooks /\ TypeOK
      BY <2>1, ExpiryTypes DEF IInv, LapsedOver
    <2>3. QED
      BY <2>2, ExpiryTypes DEF Over, IsValid, ValidAt
  <1>2. QED
    BY <1>1, Invariant, PTL

(* No step of the living process removes or shortens a webhook that has    *)
(* not expired, whatever cleanups and extensions overlap.                  *)
THEOREM ActiveKeptHolds == Spec => ActiveKept
  <1> DEFINE Kept(w) ==
        webhooks[w] # Null /\ clock <= webhooks[w] /\ phase' # "down"
          => webhooks'[w] # Null /\ webhooks[w] <= webhooks'[w]
  <1>1. ASSUME IInv, TypeOK', Next, NEW w \in Webhooks PROVE Kept(w)
    <2>1. SUFFICES ASSUME webhooks[w] # Null, clock <= webhooks[w], phase' # "down"
                   PROVE  webhooks'[w] # Null /\ webhooks[w] <= webhooks'[w]
      OBVIOUS
    <2>2. webhooks[w] \in Nat /\ clock \in Nat /\ Null \notin Int
      BY <1>1, <2>1, ExpiryTypes DEF IInv
    <2>3. CASE UNCHANGED Core \/ Tick \/ Pops
      BY <2>2, <2>1, <2>3 DEF Core, Tick, Pops
    <2>4. CASE Pushes
      <3>1. w \in issued
        BY <1>1, <2>1 DEF IInv, FreshNowhere
      <3>2. QED
        BY <2>1, <2>2, <2>4, <3>1 DEF Pushes
    <2>5. CASE Removes
      BY <2>1, <2>2, <2>5 DEF Removes
    <2>6. CASE \E r \in Retentions : InitManager(r)
      BY <1>1, <2>1, <2>6 DEF IInv, EmptyUntilUp, InitManager
    <2>7. CASE Exit \/ Crash
      BY <2>1, <2>7 DEF Exit, Crash, Ended
    <2>8. QED
      BY <1>1, <2>3, <2>4, <2>5, <2>6, <2>7, StepKinds
  <1>2. IInv /\ IInv' /\ [Next]_vars => [\A w \in Webhooks : Kept(w)]_vars
    BY <1>1 DEF IInv
  <1>3. QED
    BY <1>2, Invariant, PTL DEF Spec, ActiveKept

(* Rows and payloads are only ever deleted for webhooks whose expiry has   *)
(* passed.                                                                 *)
THEOREM ActiveKeepsDataHolds == Spec => ActiveKeepsData
  <1> DEFINE Purged == (rows \ rows') \cup (payloads \ payloads')
             Free(w) == webhooks[w] = Null \/ webhooks[w] < clock
  <1>1. ASSUME IInv, Next, NEW w \in Purged PROVE Free(w)
    <2>1. ASSUME NEW c \in Cleaners, cleaner[c].at \in Holding, w = cleaner[c].id
          PROVE  Free(w)
      BY <1>1, <2>1 DEF IInv, HoldsExpired
    <2>2. ASSUME NEW c \in Cleaners,
                 StartCleanup(c) \/ CleanerStep(c) \/ EraseFails(c) \/ CleanupFails(c)
          PROVE  Free(w)
      BY <1>1, <2>1, <2>2
         DEF StartCleanup, CleanerStep, FindExpired, PayloadsFound, ErasePayload,
             EraseFails, DeleteRows, CleanupFails, RemoveWebhook,
             EndCleanup, CleanupDone, Holding
    <2>3. CASE \E v \in Webhooks : LogRequest(v)
      BY <1>1, <2>3 DEF LogRequest
    <2>4. CASE \/ Tick \/ GetState
               \/ \E r \in Retentions : InitManager(r) \/ InitFails(r) \/ HotReload(r)
               \/ ConfigStep \/ WriteState \/ WriteFails \/ FinalPersist \/ Exit \/ Crash
      BY <1>1, <2>4
         DEF Tick, GetState, InitManager, InitFails, HotReload, ConfigStep, Generate, Generated,
             Extend, ExtendDone, WriteState, WriteFails, FinalPersist, Exit, Crash, Ended
    <2>5. QED
      BY <1>1, <2>2, <2>3, <2>4 DEF Next
  <1>2. IInv /\ [Next]_vars => [\A w \in Purged : Free(w)]_vars
    BY <1>1
  <1>3. QED
    BY <1>2, Invariant, PTL DEF Spec, ActiveKeepsData

-----------------------------------------------------------------------------
(* What the record has to do with the map. The snapshot taken last has the *)
(* whole map, and is the record once it is written, unless it was taken by *)
(* a signal before init() had restored the map.                            *)
Latest(w) == IF chain = <<>> THEN saved[w] ELSE chain[Len(chain)].map[w]

LatestIsMap ==
  (IF chain = <<>> THEN ~behind ELSE chain[Len(chain)].caller # "signal") =>
    \A w \in Webhooks : webhooks[w] # Null => Latest(w) = webhooks[w]

(* As long as the process knows what the record held: what is valid in the *)
(* record or in a snapshot is in the map and in every later snapshot, that *)
(* of an early signal excepted.                                            *)
Knows(w, k) == chain[k].caller # "signal" => chain[k].map[w] # Null

Remembered ==
  restored => \A w \in Webhooks :
    /\ ValidAt(saved[w], clock) =>
         webhooks[w] # Null /\ \A k \in 1..Len(chain) : Knows(w, k)
    /\ \A j \in 1..Len(chain) : ValidAt(chain[j].map[w], clock) =>
         webhooks[w] # Null /\ \A k \in 1..Len(chain) : j < k => Knows(w, k)

LEMMA LatestStep ==
  ASSUME IInv, LatestIsMap, TypeOK', [Next]_vars
  PROVE  LatestIsMap'
  <1>0. chain \in Seq(Link) /\ Len(chain) \in Nat
    BY ExpiryTypes DEF IInv
  <1>1. CASE Pops
    <2>1. /\ Len(chain) \in Nat \ {0} /\ Len(chain') = Len(chain) - 1
          /\ \A k \in 1..Len(chain') : chain'[k] = chain[k + 1]
          /\ Head(chain) = chain[1] /\ chain' \in Seq(Link)
      BY <1>0, <1>1, ChainShrinks DEF Pops
    <2>2. UNCHANGED webhooks /\ chain # <<>>
      BY <1>1 DEF Pops
    <2>3. CASE chain' = <<>>
      <3>1. Len(chain) = 1
        BY <2>1, <2>3, EmptySeq
      <3>2. \/ behind'
            \/ /\ saved' = chain[Len(chain)].map
               /\ chain[Len(chain)].caller # "signal"
        BY <1>1, <2>1, <3>1 DEF Pops
      <3> QED
        BY <2>2, <2>3, <3>2 DEF LatestIsMap, Latest
    <2>4. CASE chain' # <<>>
      <3>1. Len(chain') # 0
        BY <2>1, <2>4, EmptySeq
      <3>2. chain'[Len(chain')] = chain[Len(chain)]
        BY <2>1, <3>1
      <3> QED
        BY <2>2, <2>4, <3>2 DEF LatestIsMap, Latest
    <2> QED
      BY <2>3, <2>4
  <1>2. CASE Pushes
    <2>1. chain'[Len(chain')].map = webhooks' /\ chain' # <<>>
      BY <1>0, <1>2, EmptySeq DEF Pushes
    <2> QED
      BY <2>1 DEF LatestIsMap, Latest
  <1>3. CASE behind' = behind /\ (UNCHANGED Core \/ Tick \/ Removes)
    <2>1. /\ UNCHANGED <<saved, chain, behind>>
          /\ \A w \in Webhooks : webhooks'[w] = webhooks[w] \/ webhooks'[w] = Null
      BY <1>3 DEF Core, Tick, Removes
    <2> QED
      BY <2>1 DEF LatestIsMap, Latest
  <1>4. CASE \E r \in Retentions : InitManager(r)
    <2>1. /\ webhooks' = answer /\ UNCHANGED <<saved, chain, behind>>
          /\ \A k \in 1..Len(chain) : chain[k].caller = "signal"
          /\ chain = <<>> /\ ~behind => \A w \in Webhooks : saved[w] = answer[w]
      BY <1>4 DEF InitManager, IInv, EmptyUntilUp, Answered
    <2>2. chain # <<>> => Len(chain) \in 1..Len(chain)
      BY <1>0, EmptySeq
    <2> QED
      BY <2>1, <2>2 DEF LatestIsMap, Latest
  <1>5. CASE Exit \/ Crash
    <2>1. \A w \in Webhooks : webhooks'[w] = Null
      BY <1>5 DEF Exit, Crash, Ended
    <2> QED
      BY <2>1 DEF LatestIsMap
  <1> QED
    BY <1>1, <1>2, <1>3, <1>4, <1>5, StepKinds, HistoryMoves

LEMMA RememberedStep ==
  ASSUME IInv, Remembered, TypeOK', [Next]_vars
  PROVE  Remembered'
  <1> DEFINE N == Len(chain)
  <1>0. /\ TypeOK /\ NeverAhead /\ chain \in Seq(Link) /\ N \in Nat
        /\ clock \in Nat /\ Null \notin Int
        /\ \A w \in Webhooks :
             /\ webhooks[w] \in Nat \cup {Null} /\ saved[w] \in Nat \cup {Null}
             /\ \A k \in 1..N : chain[k].map[w] \in Nat \cup {Null}
    BY ExpiryTypes DEF IInv
  <1>1. CASE \E r \in Retentions : InitManager(r)
    <2>1. /\ webhooks' = answer /\ UNCHANGED <<saved, chain>>
          /\ \A k \in 1..Len(chain) :
               /\ chain[k].caller = "signal"
               /\ \A w \in Webhooks : chain[k].map[w] = Null
          /\ \A w \in Webhooks : saved[w] = answer[w] \/ saved[w] = Null
      BY <1>1 DEF InitManager, IInv, EmptyUntilUp, Answered
    <2> QED
      BY <2>1 DEF Remembered, Knows, ValidAt
  <1>2. CASE ~(\E r \in Retentions : InitManager(r)) /\ restored'
    <2>1. restored
      BY <1>2, HistoryMoves
    <2>2. ASSUME UNCHANGED Core \/ Tick \/ Removes PROVE Remembered'
      <3>1. /\ UNCHANGED <<saved, chain>> /\ clock' \in Nat /\ clock <= clock'
            /\ \A w \in Webhooks :
                 \/ webhooks'[w] = webhooks[w]
                 \/ webhooks[w] # Null /\ webhooks[w] < clock
        BY <1>0, <2>2 DEF Core, Tick, Removes
      <3>2. ASSUME NEW w \in Webhooks, NEW x \in Nat \cup {Null}, ValidAt(x, clock'),
                   webhooks[w] # Null, Le(x, webhooks[w])
            PROVE  ValidAt(x, clock) /\ webhooks'[w] # Null
        BY <1>0, <3>1, <3>2 DEF ValidAt, Le
      <3>3. ASSUME NEW x \in Nat \cup {Null}, ValidAt(x, clock') PROVE ValidAt(x, clock)
        BY <1>0, <3>1, <3>3 DEF ValidAt
      <3>4. ASSUME NEW w \in Webhooks
            PROVE  /\ ValidAt(saved[w], clock') =>
                        /\ webhooks'[w] # Null
                        /\ \A k \in 1..N : Knows(w, k)
                   /\ \A j \in 1..N : ValidAt(chain[j].map[w], clock') =>
                        /\ webhooks'[w] # Null
                        /\ \A k \in 1..N : j < k => Knows(w, k)
        <4> HIDE DEF N
        <4>1. ASSUME ValidAt(saved[w], clock')
              PROVE  webhooks'[w] # Null /\ \A k \in 1..N : Knows(w, k)
          <5>1. webhooks[w] # Null /\ \A k \in 1..N : Knows(w, k)
            BY <1>0, <2>1, <3>3, <4>1 DEF Remembered, N
          <5> QED
            BY <1>0, <3>2, <4>1, <5>1 DEF NeverAhead
        <4>2. ASSUME NEW j \in 1..N, ValidAt(chain[j].map[w], clock')
              PROVE  /\ webhooks'[w] # Null
                     /\ \A k \in 1..N : j < k => Knows(w, k)
          <5>1. webhooks[w] # Null /\ \A k \in 1..N : j < k => Knows(w, k)
            BY <1>0, <2>1, <3>3, <4>2 DEF Remembered, N
          <5> QED
            BY <1>0, <3>2, <4>2, <5>1 DEF NeverAhead, N
        <4> QED
          BY <4>1, <4>2
      <3> QED
        BY <3>1, <3>4 DEF Remembered, Knows
    <2>3. ASSUME Pushes PROVE Remembered'
      <3>1. /\ UNCHANGED <<clock, saved>> /\ Len(chain') = N + 1
            /\ \A k \in 1..N : chain'[k] = chain[k]
            /\ chain'[N + 1].map = webhooks'
        BY <1>0, <2>3 DEF Pushes
      <3>2. \A w \in Webhooks : webhooks[w] # Null => webhooks'[w] # Null
        BY <1>0, <2>3 DEF Pushes
      <3>3. \A k \in 1..Len(chain') : k \in 1..N \/ k = N + 1
        BY <1>0, <3>1
      <3> HIDE DEF N
      <3>4. ASSUME NEW w \in Webhooks, ValidAt(saved'[w], clock')
            PROVE  webhooks'[w] # Null /\ \A k \in 1..Len(chain') : Knows(w, k)'
        BY <2>1, <3>1, <3>2, <3>3, <3>4 DEF Remembered, Knows, N
      <3>5. ASSUME NEW w \in Webhooks, NEW j \in 1..Len(chain'),
                   ValidAt(chain'[j].map[w], clock')
            PROVE  /\ webhooks'[w] # Null
                   /\ \A k \in 1..Len(chain') : j < k => Knows(w, k)'
        <4>1. CASE j = N + 1
          BY <1>0, <3>1, <3>3, <3>5, <4>1 DEF ValidAt, Knows
        <4>2. CASE j \in 1..N
          <5>1. webhooks[w] # Null /\ \A k \in 1..N : j < k => Knows(w, k)
            BY <2>1, <3>1, <3>5, <4>2 DEF Remembered, N
          <5> QED
            BY <3>1, <3>2, <3>3, <5>1 DEF Knows
        <4> QED
          BY <3>3, <4>1, <4>2
      <3> QED
        BY <3>4, <3>5 DEF Remembered
    <2>4. ASSUME Pops PROVE Remembered'
      <3>1. /\ UNCHANGED <<clock, webhooks>> /\ N \in Nat \ {0} /\ Len(chain') = N - 1
            /\ \A k \in 1..Len(chain') : chain'[k] = chain[k + 1]
            /\ saved' = saved \/ saved' = chain[1].map
        BY <1>0, <2>4, ChainShrinks DEF Pops
      <3>2. \A k \in 1..Len(chain') : k + 1 \in 1..N /\ 1 < k + 1
        BY <3>1
      <3>3. 1 \in 1..N
        BY <3>1
      <3> HIDE DEF N
      <3>4. ASSUME NEW w \in Webhooks, ValidAt(saved'[w], clock')
            PROVE  webhooks'[w] # Null /\ \A k \in 1..Len(chain') : Knows(w, k)'
        <4>1. webhooks[w] # Null /\ \A k \in 1..N : 1 < k => Knows(w, k)
          BY <2>1, <3>1, <3>3, <3>4 DEF Remembered, N
        <4> QED
          BY <3>1, <3>2, <4>1 DEF Knows
      <3>5. ASSUME NEW w \in Webhooks, NEW j \in 1..Len(chain'),
                   ValidAt(chain'[j].map[w], clock')
            PROVE  /\ webhooks'[w] # Null
                   /\ \A k \in 1..Len(chain') : j < k => Knows(w, k)'
        <4>1. /\ webhooks[w] # Null
              /\ \A k \in 1..N : j + 1 < k => Knows(w, k)
          BY <2>1, <3>1, <3>2, <3>5 DEF Remembered, N
        <4>2. \A k \in 1..Len(chain') : j < k => j + 1 < k + 1
          BY <3>1
        <4> QED
          BY <3>1, <3>2, <4>1, <4>2 DEF Knows
      <3> QED
        BY <3>4, <3>5 DEF Remembered
    <2>5. ~(Exit \/ Crash)
      BY <1>2 DEF Exit, Crash, Ended
    <2> QED
      BY <1>2, <2>2, <2>3, <2>4, <2>5, StepKinds
  <1> QED
    BY <1>1, <1>2 DEF Remembered

LEMMA RecordInvariant == Spec => [](IInv /\ LatestIsMap /\ Remembered)
  <1>1. Init => LatestIsMap /\ Remembered
    BY DEF Init, LatestIsMap, Latest, Remembered
  <1>2. ASSUME IInv, LatestIsMap, Remembered, [Next]_vars
        PROVE  IInv' /\ LatestIsMap' /\ Remembered'
    <2>1. IInv' /\ TypeOK'
      BY <1>2, NextIInv, TypeStep
    <2> QED
      BY <1>2, <2>1, LatestStep, RememberedStep
  <1> QED
    BY <1>1, <1>2, InitIInv, PTL DEF Spec

(* With no write under way the record holds the whole map as it is, unless *)
(* the last write was rejected or was that of a signal before init() had   *)
(* ended: snapshots are written in the order that they were taken in.      *)
(* (WebhookManager.init, persist.)                                         *)
THEOREM SavedIsCurrentHolds == Spec => []SavedIsCurrent
  <1>1. LatestIsMap => SavedIsCurrent
    BY DEF LatestIsMap, Latest, SavedIsCurrent
  <1> QED
    BY <1>1, RecordInvariant, PTL

(* A process that has read the record never writes a webhook out of it     *)
(* before its expiry, but for the snapshot of a signal that came before    *)
(* the map was restored. (WebhookManager.init, persist, cleanup.)          *)
THEOREM RestoredStaysSavedHolds == Spec => RestoredStaysSaved
  <1> DEFINE Stays(w) ==
        ValidAt(saved[w], clock) /\ restored
          => saved'[w] # Null \/ Head(chain).caller = "signal"
  <1>1. ASSUME IInv, Remembered, TypeOK', [Next]_vars, NEW w \in Webhooks PROVE Stays(w)
    <2>1. CASE UNCHANGED saved
      BY <2>1 DEF ValidAt
    <2>2. CASE Pops
      <3>1. /\ saved' = saved \/ saved' = chain[1].map
            /\ Len(chain) \in Nat \ {0} /\ Head(chain) = chain[1]
        BY <1>1, <2>2, ChainShrinks, ExpiryTypes DEF Pops, IInv
      <3>2. 1 \in 1..Len(chain)
        BY <3>1
      <3> QED
        BY <1>1, <3>1, <3>2 DEF Remembered, Knows, ValidAt
    <2>3. UNCHANGED saved \/ Pops
      BY <1>1, StepKinds DEF Core, Tick, Pushes, Removes, InitManager, Exit, Crash, Ended
    <2> QED
      BY <2>1, <2>2, <2>3
  <1>2. IInv /\ IInv' /\ Remembered /\ [Next]_vars => [\A w \in Webhooks : Stays(w)]_vars
    BY <1>1 DEF IInv
  <1> QED
    BY <1>2, RecordInvariant, PTL DEF Spec, RestoredStaysSaved

-----------------------------------------------------------------------------
(* What Ingest takes for granted of its webhook (Expire, Cleanup there):   *)
(* while the process lives an issued webhook stops being valid by the      *)
(* passing of time alone, never becomes valid again, and what belongs to   *)
(* it is deleted only after that.                                          *)
EndsOnce(w) ==
  /\ ~IsValid(w) => ~(IsValid(w)')
  /\ IsValid(w) /\ ~(IsValid(w)') => clock < clock' /\ webhooks'[w] = webhooks[w]
  /\ w \in (rows \ rows') \cup (payloads \ payloads') => ~IsValid(w)

IssuedEndsOnce ==
  [][\A w \in issued : phase = "up" /\ phase' = "up" => EndsOnce(w)]_vars

LEMMA ValidityStep ==
  ASSUME IInv, TypeOK', [Next]_vars, NEW w \in issued, phase = "up", phase' = "up"
  PROVE  /\ ~IsValid(w) => ~(IsValid(w)')
         /\ IsValid(w) /\ ~(IsValid(w)') => clock < clock' /\ webhooks'[w] = webhooks[w]
  <1> USE DEF IsValid, ValidAt
  <1>1. /\ w \in Webhooks /\ clock \in Nat /\ Null \notin Int
        /\ webhooks[w] \in Nat \cup {Null} /\ webhooks'[w] \in Nat \cup {Null}
    BY ExpiryTypes DEF IInv, TypeOK, Map, Expiry
  <1>2. CASE UNCHANGED Core \/ Pops
    BY <1>2 DEF Core, Pops
  <1>3. CASE Tick
    BY <1>1, <1>3 DEF Tick
  <1>4. CASE Pushes
    BY <1>1, <1>4 DEF Pushes
  <1>5. CASE Removes
    BY <1>1, <1>5 DEF Removes
  <1>6. CASE \E r \in Retentions : InitManager(r)
    BY <1>6 DEF InitManager
  <1>7. CASE Exit \/ Crash
    BY <1>7 DEF Exit, Crash, Ended
  <1>8. QED
    BY <1>2, <1>3, <1>4, <1>5, <1>6, <1>7, StepKinds

(* It holds whatever reconciliations, reloads, cleanups and failures do to *)
(* the map while the process lives.                                        *)
(* (WebhookManager.isValid, updateRetention, cleanup.)                     *)
THEOREM IssuedEndsOnceHolds == Spec => IssuedEndsOnce
  <1> DEFINE Purged == (rows \ rows') \cup (payloads \ payloads')
             Each == \A w \in issued : phase = "up" /\ phase' = "up" => EndsOnce(w)
             Free == \A w \in Purged : webhooks[w] = Null \/ webhooks[w] < clock
  <1>1. Spec => [][Free]_vars
    BY ActiveKeepsDataHolds DEF ActiveKeepsData
  <1>2. IInv /\ IInv' /\ [Free]_vars /\ [Next]_vars => [Each]_vars
    <2> SUFFICES ASSUME IInv, IInv', Free, [Next]_vars, NEW w \in issued,
                        phase = "up", phase' = "up"
                 PROVE  EndsOnce(w)
      BY DEF vars
    <2>1. w \in Purged => ~IsValid(w)
      BY ExpiryTypes DEF IInv, IsValid, ValidAt
    <2>2. QED
      BY <2>1, ValidityStep DEF EndsOnce, IInv
  <1>3. QED
    BY <1>1, <1>2, Invariant, PTL DEF Spec, IssuedEndsOnce
=============================================================================
