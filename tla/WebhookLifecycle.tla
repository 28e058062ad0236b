-------------------------- MODULE WebhookLifecycle --------------------------
(***************************************************************************)
(* WebhookManager: the map of issued webhooks with their expiry, its copy  *)
(* in the key-value store (record STATE), and the three activities that    *)
(* change it between awaits:                                               *)
(*                                                                         *)
(*  - the reconciliation of initialize() and of applyConfigUpdate(), which *)
(*    issues missing webhooks and then extends the active ones;            *)
(*  - cleanup(), started by a timer and therefore possibly overlapping     *)
(*    with itself, which deletes what belongs to expired webhooks;         *)
(*  - shutdown, which persists a last time, maybe before init() has read   *)
(*    the record, and crashes.                                             *)
(*                                                                         *)
(* persist() takes its snapshot at once but writes it in a promise chain.  *)
(***************************************************************************)
EXTENDS Integers, Sequences, FiniteSets

CONSTANTS
  Webhooks,    \* the ids that nanoid will return, each once
  Retentions,  \* values of retentionHours
  UrlCount,    \* the configured number of webhooks
  Cleaners,    \* cleanup() calls that may be under way together
  Null,        \* not in the map
  MaxTime,     \* bound: the clock
  MaxFaults    \* bound: rejected calls, deaths of the process and
               \* signals that come before init() has ended

ASSUME ConstantsAssumption ==
  /\ Retentions \subseteq Nat \ {0}
  /\ UrlCount \in Nat /\ MaxTime \in Nat /\ MaxFaults \in Nat
  /\ Null \notin Int
  /\ {"config", "shutdown", "signal"} \cap Cleaners = {}

VARIABLES
  clock,      \* Date.now(), in hours
  phase,      \* "down", "init" (init() has an answer and is about to resume)
              \* or "up" (init() has ended)
  ending,     \* the last persist(): "no", not yet called; "shutdown"; or
              \* "signal", called before init() had ended
  webhooks,   \* #webhooks: the expiry of each id, or Null
  saved,      \* the record STATE of the key-value store
  answer,     \* what getValue(STATE) has answered to init()
  chain,      \* #persistPromise: snapshots not yet written, and their callers
  retention,  \* AppState.retentionHours
  config,     \* the reconciliation: the await it is at, and the retention
              \* that it will extend to, or Null
  cleaner,    \* each cleanup(): the await it is at, its `now`, its webhook
  changed,    \* the cleanups that have set `changed`
  rows,       \* webhooks with events in the read model
  payloads,   \* webhooks with an offloaded payload in the key-value store
  issued,     \* history: ids that were generated
  lapsed,     \* history: ids that were seen in the map at or after expiry
  restored,   \* history: init() read the record
  behind,     \* history: the last write of the record was rejected, or was
              \* the snapshot of a signal that came before init() had ended
  faults      \* bound counter

vars == <<clock, phase, ending, answer, webhooks, saved, chain, retention,
          config, cleaner, changed, rows, payloads, issued, lapsed, restored,
          behind, faults>>

processVars == <<phase, ending, answer>>
dataVars    == <<rows, payloads>>
storeVars   == <<saved, behind>>
historyVars == <<issued, lapsed, restored>>

cleanupVars == <<cleaner, changed>>

NoConfig  == [at |-> "idle", next |-> Null]
NoCleaner == [at |-> "idle", now |-> 0, id |-> Null]

-----------------------------------------------------------------------------
\* Seeded fault: expiry is not compared strictly.
ExpiredAt_NotStrict(expiry, t) == expiry # Null /\ t >= expiry

(* isValid compares with <, cleanup with >: at the very expiry a webhook   *)
(* is neither valid nor removed.                                           *)
ValidAt(expiry, t)   == expiry # Null /\ t < expiry
ExpiredAt(expiry, t) == expiry # Null /\ t > expiry

IsValid(w) == ValidAt(webhooks[w], clock)
Active     == {w \in Webhooks : IsValid(w)}

(* persist(): a snapshot of `map`, written after those before it.          *)
Persist(map, caller) == chain' = Append(chain, [map |-> map, caller |-> caller])

Empty == [w \in Webhooks |-> Null]

Waiting(caller) == \E k \in DOMAIN chain : chain[k].caller = caller

Fault == faults < MaxFaults /\ faults' = faults + 1

-----------------------------------------------------------------------------
Init ==
  /\ clock = 0 /\ phase = "down" /\ ending = "no" /\ answer = Empty
  /\ webhooks = Empty /\ saved = Empty
  /\ chain = <<>> /\ retention = 0 /\ config = NoConfig
  /\ cleaner = [c \in Cleaners |-> NoCleaner] /\ changed = {}
  /\ rows = {} /\ payloads = {}
  /\ issued = {} /\ lapsed = {} /\ restored = FALSE /\ behind = FALSE
  /\ faults = 0

Tick ==
  /\ clock < MaxTime
  /\ clock' = clock + 1
  /\ lapsed' = lapsed \cup
       {w \in Webhooks : webhooks[w] # Null /\ webhooks[w] <= clock'}
  /\ UNCHANGED <<processVars, webhooks, storeVars, chain, retention, config,
                 cleanupVars, dataVars, issued, restored, faults>>

-----------------------------------------------------------------------------
(* init() awaits getValue(STATE), which answers with the record of now.    *)
(* The signal handlers are registered before, and persist what they find.  *)
GetState ==
  /\ phase = "down"
  /\ phase' = "init" /\ answer' = saved
  /\ UNCHANGED <<clock, ending, webhooks, storeVars, chain, retention, config,
                 cleanupVars, dataVars, historyVars, faults>>

\* Seeded fault: the check that a record was found is dropped.
InitManager_NoRecord(r) ==
  /\ phase = "init"
  /\ phase' = "up" /\ answer' = Empty /\ restored' = TRUE
  /\ webhooks' = IF answer = Empty THEN Null ELSE answer
  /\ retention' = r
  /\ config' = [at |-> "startup", next |-> Null]
  /\ UNCHANGED <<clock, ending, storeVars, chain, cleanupVars, dataVars,
                 issued, lapsed, faults>>

(* init() resumes and restores what was answered, also when a snapshot of  *)
(* the empty map has been taken meanwhile; initialize() goes on, with the  *)
(* reconciliation first, as long as the process lives.                     *)
InitManager(r) ==
  /\ phase = "init"
  /\ phase' = "up" /\ answer' = Empty /\ restored' = TRUE
  /\ webhooks' = answer
  /\ retention' = r
  /\ config' = [at |-> "startup", next |-> Null]
  /\ lapsed' = lapsed \cup
       {w \in Webhooks : answer[w] # Null /\ answer[w] <= clock}
  /\ UNCHANGED <<clock, ending, storeVars, chain, cleanupVars, dataVars,
                 issued, faults>>

(* A rejected openKeyValueStore or getValue is logged: the map is empty.   *)
InitFails(r) ==
  /\ phase = "down" /\ Fault
  /\ phase' = "up" /\ restored' = FALSE
  /\ retention' = r
  /\ config' = [at |-> "startup", next |-> Null]
  /\ UNCHANGED <<clock, ending, answer, webhooks, storeVars, chain,
                 cleanupVars, dataVars, issued, lapsed>>

(* A shutdown has closed the server and stopped the hot reload before it   *)
(* persists; one that came before init() had ended found neither, and      *)
(* initialize() may still bring them up.  (So may one that comes during    *)
(* the reconciliation of the startup: its last requests are left out.)     *)
Serving == phase = "up" /\ ending # "shutdown"

(* A changed INPUT is detected; reloads do not overlap (#activePollPromise)*)
HotReload(r) ==
  /\ Serving /\ config.at = "idle"
  /\ config' = [at |-> "reload", next |-> IF r # retention THEN r ELSE Null]
  /\ UNCHANGED <<clock, processVars, webhooks, storeVars, chain, retention,
                 cleanupVars, dataVars, historyVars, faults>>

Missing ==
  IF Cardinality(Active) < UrlCount THEN UrlCount - Cardinality(Active) ELSE 0

FreshIds == {ids \in SUBSET (Webhooks \ issued) : Cardinality(ids) = Missing}

(* generateWebhooks(urlCount - active.length, retention), both in          *)
(* initialize and in applyConfigUpdate; at startup the later extension     *)
(* depends on webhooks that were active before. Fresh ids are alike.       *)
Generate(new) ==
  /\ config.at \in {"startup", "reload"}
  /\ new \in FreshIds /\ new = CHOOSE ids \in FreshIds : TRUE
  /\ webhooks' = [w \in Webhooks |->
                    IF w \in new THEN clock + retention ELSE webhooks[w]]
  /\ issued' = issued \cup new
  /\ config' = [config EXCEPT
       !.at = IF new = {} THEN "extend" ELSE "generating",
       !.next = IF config.at # "startup" THEN @
                ELSE IF Active # {} THEN retention ELSE Null]
  /\ IF new = {} THEN UNCHANGED chain ELSE Persist(webhooks', "config")
  /\ UNCHANGED <<clock, processVars, storeVars, retention, cleanupVars,
                 dataVars, lapsed, restored, faults>>

Generated ==
  /\ config.at = "generating" /\ ~Waiting("config")
  /\ config' = [config EXCEPT !.at = "extend"]
  /\ UNCHANGED <<clock, processVars, webhooks, storeVars, chain, retention,
                 cleanupVars, dataVars, historyVars, faults>>

\* Seeded fault: the check of currentExpiry <= now is dropped.
Extended_Lapsed(r) ==
  [w \in Webhooks |->
     IF webhooks[w] # Null /\ clock + r > webhooks[w]
     THEN clock + r ELSE webhooks[w]]

\* Seeded fault: retention is also shrunk.
Extended_Shrinks(r) ==
  [w \in Webhooks |-> IF IsValid(w) THEN clock + r ELSE webhooks[w]]

(* The map after updateRetention: active webhooks only, never shortened.   *)
Extended(r) ==
  [w \in Webhooks |->
     IF IsValid(w) /\ clock + r > webhooks[w] THEN clock + r ELSE webhooks[w]]

(* updateRetention, when initialize or applyConfigUpdate calls it.         *)
Extend ==
  LET map == IF config.next # Null THEN Extended(config.next) ELSE webhooks
  IN  /\ config.at = "extend"
      /\ webhooks' = map
      /\ retention' = IF config.next # Null THEN config.next ELSE retention
      /\ IF map = webhooks
         THEN config' = NoConfig /\ UNCHANGED chain
         ELSE config' = [config EXCEPT !.at = "extending"] /\ Persist(map, "config")
      /\ UNCHANGED <<clock, processVars, storeVars, cleanupVars, dataVars,
                     historyVars, faults>>

ExtendDone ==
  /\ config.at = "extending" /\ ~Waiting("config")
  /\ config' = NoConfig
  /\ UNCHANGED <<clock, processVars, webhooks, storeVars, chain, retention,
                 cleanupVars, dataVars, historyVars, faults>>

-----------------------------------------------------------------------------
\* Seeded fault: writes are not chained, any pending one may land first.
WriteState_Unchained ==
  \E k \in DOMAIN chain :
    /\ saved' = chain[k].map /\ behind' = (chain[k].caller = "signal")
    /\ chain' = SubSeq(chain, 1, k - 1) \o SubSeq(chain, k + 1, Len(chain))
    /\ UNCHANGED <<clock, processVars, webhooks, retention, config,
                   cleanupVars, dataVars, historyVars, faults>>

(* The first link of the chain: setValue(STATE, snapshot).                 *)
WriteState ==
  /\ chain # <<>>
  /\ saved' = Head(chain).map /\ behind' = (Head(chain).caller = "signal")
  /\ chain' = Tail(chain)
  /\ UNCHANGED <<clock, processVars, webhooks, retention, config, cleanupVars,
                 dataVars, historyVars, faults>>

(* A rejected write is logged and forgotten: its caller goes on.           *)
WriteFails ==
  /\ chain # <<>> /\ Fault
  /\ behind' = TRUE
  /\ chain' = Tail(chain)
  /\ UNCHANGED <<clock, processVars, webhooks, saved, retention, config,
                 cleanupVars, dataVars, historyVars>>

-----------------------------------------------------------------------------
(* A request to a valid webhook is logged, its large payload offloaded.    *)
LogRequest(w) ==
  /\ Serving /\ IsValid(w)
  /\ rows' = rows \cup {w} /\ payloads' = payloads \cup {w}
  /\ UNCHANGED <<clock, processVars, webhooks, storeVars, chain, retention,
                 config, cleanupVars, historyVars, faults>>

-----------------------------------------------------------------------------
\* Seeded fault: `now` is read when the timer is created.
StartCleanup_StaleNow(c) ==
  /\ phase = "up" /\ ending = "no" /\ cleaner[c].at = "idle"
  /\ cleaner' = [cleaner EXCEPT ![c] =
                   [at |-> "scan", now |-> 0, id |-> Null]]
  /\ UNCHANGED <<clock, processVars, webhooks, storeVars, chain, retention,
                 config, changed, dataVars, historyVars, faults>>

(* cleanup(): `now` is read once, then the live map is iterated. Slots are *)
(* alike: the first idle one is taken. A cleanup that cannot open the      *)
(* store, which a failed init() left to it, ends without any effect.  The  *)
(* timer fires every ten minutes, which a process that is about to exit    *)
(* does not live to see (it is forced to after thirty seconds).            *)
StartCleanup(c) ==
  /\ phase = "up" /\ ending = "no" /\ cleaner[c].at = "idle"
  /\ c = CHOOSE d \in Cleaners : cleaner[d].at = "idle"
  /\ cleaner' = [cleaner EXCEPT ![c] =
                   [at |-> "scan", now |-> clock, id |-> Null]]
  /\ UNCHANGED <<clock, processVars, webhooks, storeVars, chain, retention,
                 config, changed, dataVars, historyVars, faults>>

Doomed(c) == {w \in Webhooks : ExpiredAt(webhooks[w], cleaner[c].now)}

(* The iterator reaches an expired entry: findOffloadedPayloads is called. *)
FindExpired(c, w) ==
  /\ cleaner[c].at = "scan" /\ w \in Doomed(c)
  /\ cleaner' = [cleaner EXCEPT ![c].at = "find", ![c].id = w]
  /\ UNCHANGED <<clock, processVars, webhooks, storeVars, chain, retention,
                 config, changed, dataVars, historyVars, faults>>

(* Only a payload that a row refers to is found.                           *)
PayloadsFound(c) ==
  /\ cleaner[c].at = "find"
  /\ cleaner' = [cleaner EXCEPT ![c].at =
       IF cleaner[c].id \in rows \cap payloads THEN "erase" ELSE "delete"]
  /\ UNCHANGED <<clock, processVars, webhooks, storeVars, chain, retention,
                 config, changed, dataVars, historyVars, faults>>

(* setValue(key, null); when it is rejected the rows are deleted anyway.   *)
ErasePayload(c) ==
  /\ cleaner[c].at = "erase"
  /\ payloads' = payloads \ {cleaner[c].id}
  /\ cleaner' = [cleaner EXCEPT ![c].at = "delete"]
  /\ UNCHANGED <<clock, processVars, webhooks, storeVars, chain, retention,
                 config, changed, rows, historyVars, faults>>

EraseFails(c) ==
  /\ cleaner[c].at = "erase" /\ Fault
  /\ cleaner' = [cleaner EXCEPT ![c].at = "delete"]
  /\ UNCHANGED <<clock, processVars, webhooks, storeVars, chain, retention,
                 config, changed, dataVars, historyVars>>

DeleteRows(c) ==
  /\ cleaner[c].at = "delete"
  /\ rows' = rows \ {cleaner[c].id}
  /\ cleaner' = [cleaner EXCEPT ![c].at = "remove"]
  /\ UNCHANGED <<clock, processVars, webhooks, storeVars, chain, retention,
                 config, changed, payloads, historyVars, faults>>

(* A rejected query or delete is logged; the webhook is removed all the    *)
(* same, so that its rows stay.                                            *)
CleanupFails(c) ==
  /\ cleaner[c].at \in {"find", "delete"} /\ Fault
  /\ cleaner' = [cleaner EXCEPT ![c].at = "remove"]
  /\ UNCHANGED <<clock, processVars, webhooks, storeVars, chain, retention,
                 config, changed, dataVars, historyVars>>

RemoveWebhook(c) ==
  /\ cleaner[c].at = "remove"
  /\ webhooks' = [webhooks EXCEPT ![cleaner[c].id] = Null]
  /\ cleaner' = [cleaner EXCEPT ![c].at = "scan", ![c].id = Null]
  /\ changed' = changed \cup {c}
  /\ UNCHANGED <<clock, processVars, storeVars, chain, retention, config,
                 dataVars, historyVars, faults>>

(* The end of the iteration: persist if something changed.                 *)
EndCleanup(c) ==
  /\ cleaner[c].at = "scan" /\ Doomed(c) = {}
  /\ IF c \in changed
     THEN /\ Persist(webhooks, c)
          /\ cleaner' = [cleaner EXCEPT ![c] = [NoCleaner EXCEPT !.at = "persist"]]
     ELSE UNCHANGED chain /\ cleaner' = [cleaner EXCEPT ![c] = NoCleaner]
  /\ changed' = changed \ {c}
  /\ UNCHANGED <<clock, processVars, webhooks, storeVars, retention, config,
                 dataVars, historyVars, faults>>

CleanupDone(c) ==
  /\ cleaner[c].at = "persist" /\ ~Waiting(c)
  /\ cleaner' = [cleaner EXCEPT ![c] = NoCleaner]
  /\ UNCHANGED <<clock, processVars, webhooks, storeVars, chain, retention,
                 config, changed, dataVars, historyVars, faults>>

-----------------------------------------------------------------------------
(* shutdown(): the last snapshot waits for its turn, while init(), a       *)
(* reconciliation and cleanups under way go on. A signal that comes before *)
(* init() has ended (counted as a fault, for the bound) persists the map   *)
(* while it is still empty.                                                *)
FinalPersist ==
  /\ ending = "no"
  /\ IF phase = "up" THEN ending' = "shutdown" /\ UNCHANGED faults
                     ELSE ending' = "signal" /\ Fault
  /\ Persist(webhooks, ending')
  /\ UNCHANGED <<clock, phase, answer, webhooks, storeVars, retention, config,
                 cleanupVars, dataVars, historyVars>>

(* The memory of the process is gone.                                      *)
Ended ==
  /\ phase' = "down" /\ ending' = "no" /\ answer' = Empty
  /\ webhooks' = Empty /\ chain' = <<>> /\ behind' = FALSE
  /\ config' = NoConfig /\ cleaner' = [c \in Cleaners |-> NoCleaner]
  /\ changed' = {} /\ retention' = 0 /\ restored' = FALSE
  /\ UNCHANGED <<clock, saved, rows, payloads, issued, lapsed>>

Exit ==
  /\ ending # "no" /\ ~Waiting(ending)
  /\ Ended
  /\ UNCHANGED faults

(* A write cut short by the crash was applied (WriteState) or never is.    *)
Crash == (phase # "down" \/ ending # "no") /\ Fault /\ Ended

-----------------------------------------------------------------------------
ConfigStep ==
  \/ \E new \in SUBSET (Webhooks \ issued) : Generate(new)
  \/ Generated \/ Extend \/ ExtendDone

CleanerStep(c) ==
  \/ \E w \in Webhooks : FindExpired(c, w)
  \/ PayloadsFound(c) \/ ErasePayload(c) \/ DeleteRows(c)
  \/ RemoveWebhook(c) \/ EndCleanup(c) \/ CleanupDone(c)

Next ==
  \/ Tick
  \/ GetState
  \/ \E r \in Retentions : InitManager(r) \/ InitFails(r) \/ HotReload(r)
  \/ ConfigStep \/ WriteState \/ WriteFails
  \/ \E w \in Webhooks : LogRequest(w)
  \/ \E c \in Cleaners :
       \/ StartCleanup(c) \/ CleanerStep(c)
       \/ EraseFails(c) \/ CleanupFails(c)
  \/ FinalPersist \/ Exit \/ Crash

Spec == Init /\ [][Next]_vars

(* The cleanup timer fires again and again while the process is up, and    *)
(* what some cleanup awaits settles: one that is stuck hinders no other.   *)
Fairness ==
  /\ WF_vars(\E c \in Cleaners : StartCleanup(c))
  /\ WF_vars(\E c \in Cleaners : CleanerStep(c))
  /\ WF_vars(WriteState)

FairSpec == Spec /\ Fairness

-----------------------------------------------------------------------------
Expiry == Nat \cup {Null}
Map == [Webhooks -> Expiry]
Callers == Cleaners \cup {"config", "shutdown", "signal"}

TypeOK ==
  /\ clock \in Nat /\ phase \in {"down", "init", "up"}
  /\ ending \in {"no", "shutdown", "signal"}
  /\ webhooks \in Map /\ saved \in Map /\ answer \in Map
  /\ chain \in Seq([map : Map, caller : Callers])
  /\ retention \in Nat
  /\ config \in [at : {"idle", "startup", "reload", "generating", "extend",
                       "extending"}, next : Nat \cup {Null}]
  /\ cleaner \in [Cleaners ->
       [at : {"idle", "scan", "find", "erase", "delete", "remove", "persist"},
        now : Nat, id : Webhooks \cup {Null}]]
  /\ changed \subseteq Cleaners
  /\ rows \subseteq Webhooks /\ payloads \subseteq Webhooks
  /\ issued \subseteq Webhooks /\ lapsed \subseteq Webhooks
  /\ restored \in BOOLEAN /\ behind \in BOOLEAN /\ faults \in Nat

(* A webhook whose time has run out never accepts requests again: no       *)
(* extension, late snapshot or restart brings it back.                     *)
LapsedForGood == \A w \in lapsed : ~IsValid(w)

(* While the process lives, a webhook that has not expired is neither      *)
(* removed nor shortened, also when an extension and cleanups that read    *)
(* the clock earlier overlap (docs/architecture.md, "Retention updates are *)
(* intentionally non-destructive for active webhooks").                    *)
ActiveKept ==
  [][\A w \in Webhooks :
       webhooks[w] # Null /\ clock <= webhooks[w] /\ phase' # "down"
         => webhooks'[w] # Null /\ webhooks[w] <= webhooks'[w]]_vars

(* Nothing that belongs to a webhook before its expiry is deleted by any   *)
(* of the overlapping cleanups.                                            *)
ActiveKeepsData ==
  [][\A w \in (rows \ rows') \cup (payloads \ payloads') :
       webhooks[w] = Null \/ webhooks[w] < clock]_vars

(* When no write is pending the record holds every webhook of the map with *)
(* its present expiry, unless the last write was rejected or was that of a *)
(* signal that took its snapshot before init() had restored the map: an    *)
(* older snapshot never overwrites a newer one.                            *)
SavedIsCurrent ==
  chain = <<>> /\ phase = "up" /\ ~behind =>
    \A w \in Webhooks : webhooks[w] # Null => saved[w] = webhooks[w]

(* The record of an active webhook is lost by no write of a process that   *)
(* restored it, but for the snapshot of a signal that came before it had:  *)
(* every other one, also one taken while that is pending, has the webhook. *)
RestoredStaysSaved ==
  [][\A w \in Webhooks :
       ValidAt(saved[w], clock) /\ restored
         => saved'[w] # Null \/ Head(chain).caller = "signal"]_vars

(* webhook_manager.js, init(): "This ensures webhooks persist across Actor *)
(* restarts or migrations."                                                *)
PersistAcrossRestarts ==
  [][\A w \in Webhooks : ValidAt(saved[w], clock) => saved'[w] # Null]_vars

(* An expired webhook leaves the map while the process stays up.           *)
ExpiredIsRemoved ==
  \A w \in Webhooks :
    (phase = "up" /\ ending = "no" /\ ExpiredAt(webhooks[w], clock))
      ~> (phase # "up" \/ ending # "no" \/ webhooks[w] = Null)
=============================================================================
