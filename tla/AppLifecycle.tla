----------------------------- MODULE AppLifecycle -----------------------------
(***************************************************************************)
(* The process around the webhooks (main.js): initialize(), the hot reload *)
(* of the INPUT record, the clients of the live stream, and shutdown().    *)
(*                                                                         *)
(* initialize() and up to two shutdowns run side by side, each one action  *)
(* per stretch between two awaits: signals are handled from early on in    *)
(* initialize(), and the timer of testAndExit calls shutdown() past the    *)
(* flag that keeps a second signal out.                                    *)
(***************************************************************************)
EXTENDS Integers, FiniteSets

CONSTANTS
  Inputs,       \* values of the INPUT record
  Broken,       \* those that coerceRuntimeOptions throws on (the text "null")
  Excessive,    \* those that ask for more webhooks than MAX_BULK_CREATE
  InitialInputs, \* values that the record may have when the process starts
  EnvInputs,    \* values of the INPUT environment variable, if it is set
  MaxClients,   \* MAX_SSE_CLIENTS
  MaxAttempts,  \* SHUTDOWN_RETRY_MAX_ATTEMPTS
  None,
  MaxChanges,   \* bound: writes of the INPUT record
  MaxFaults     \* bound: rejected or hanging calls

VARIABLES
  boot,       \* how far initialize() is
  testTimer,  \* the timer of testAndExit: "wanted", "armed" or "off"; it does not
              \* fire in the behaviours that stand for testAndExit = false
  input,      \* the INPUT record of the key-value store
  last,       \* #lastInputStr
  polling,    \* #inputPollInterval runs
  watching,   \* the file watcher runs
  debounce,   \* the timer of the file watcher is set
  reload,     \* #handleHotReload, called by the poll or by the watcher
  applied,    \* the input that each part of the configuration is from
  clients,    \* how many live streams there are
  server, sync,
  isShuttingDown,
  down,       \* the shutdowns
  exit,       \* exit code of the process
  changes, faults

booting    == <<boot, testTimer>>
reloading  == <<last, polling, watching, debounce, reload, applied>>
stopping   == <<isShuttingDown, down, exit>>
vars == <<booting, input, reloading, clients, server, sync, stopping, changes, faults>>

Callers == {"poll", "watch"}
Shutdowns == {"signal", "testAndExit"}
Parts == {"options", "retention", "replay"}
Sound == Inputs \ (Broken \cup Excessive)

ASSUME LifecycleAssumption ==
  /\ Broken \subseteq Inputs /\ Excessive \subseteq Inputs
  /\ EnvInputs \cup InitialInputs \subseteq Inputs /\ None \notin Inputs \cup Callers
  /\ MaxAttempts \in Nat \ {0} /\ MaxClients \in Nat

Running == exit = None
Fault == faults < MaxFaults /\ faults' = faults + 1

NoReload == [stage |-> "none", new |-> None]

NoUpdate == [p \in Parts |-> None]
NoShutdown ==
  [stage |-> "none", awaits |-> None, tries |-> 0, timers |-> 0, ready |-> FALSE]

Init ==
  /\ boot = "begin" /\ testTimer = "wanted" /\ input \in InitialInputs
  /\ last = None /\ polling = FALSE /\ watching = FALSE /\ debounce = FALSE
  /\ reload = [c \in Callers |-> NoReload] /\ applied = NoUpdate
  /\ clients = 0 /\ server = "none" /\ sync = "off"
  /\ isShuttingDown = FALSE /\ down = [s \in Shutdowns |-> NoShutdown]
  /\ exit = None /\ changes = 0 /\ faults = 0

(* systemExit(EXIT_CODES.FAILURE). The memory of the process is gone.      *)
Dies ==
  /\ exit' = 1 /\ boot' = "begin" /\ testTimer' = "wanted"
  /\ last' = None /\ polling' = FALSE /\ watching' = FALSE /\ debounce' = FALSE
  /\ reload' = [c \in Callers |-> NoReload] /\ applied' = NoUpdate
  /\ clients' = 0 /\ server' = "none" /\ sync' = "off"
  /\ isShuttingDown' = FALSE /\ down' = [s \in Shutdowns |-> NoShutdown]
  /\ UNCHANGED <<input, changes>>

-----------------------------------------------------------------------------
(* initialize()                                                            *)

Boots(from, to) == Running /\ boot = from /\ boot' = to

(* Actor.init and the handlers of the signals.                             *)
RegisterSignals ==
  /\ Boots("begin", "signals")
  /\ UNCHANGED <<testTimer, input, reloading, clients, server, sync, stopping, changes, faults>>

(* Actor.getInput, unless the environment gives the input; then the first  *)
(* poll finds the record changed.                                          *)
ReadBootInput ==
  /\ Boots("signals", "configured")
  /\ \E v \in IF EnvInputs = {} THEN {input} ELSE EnvInputs :
       v \notin Broken /\ last' = v /\ applied' = [p \in Parts |-> v]
  /\ UNCHANGED <<testTimer, input, polling, watching, debounce, reload, clients,
                 server, sync, stopping, changes, faults>>

(* webhookManager.init, the database and syncService.start, whose failure  *)
(* is only logged; then the timer of testAndExit.                          *)
StartServices ==
  /\ Boots("configured", "serving")
  /\ sync' \in {"on", sync}
  /\ testTimer' = IF testTimer = "wanted" THEN "armed" ELSE testTimer
  /\ UNCHANGED <<input, reloading, clients, server, stopping, changes, faults>>

(* Webhooks are reconciled; the middleware, AppState and HotReloadManager  *)
(* are made.                                                               *)
Mount ==
  /\ Boots("serving", "mounted") /\ last \notin Excessive
  /\ UNCHANGED <<testTimer, input, reloading, clients, server, sync, stopping, changes, faults>>

(* HotReloadManager.start; the watcher only where there is a local file.   *)
(* Then the routes, and the server listens.                                *)
Listen ==
  /\ Boots("mounted", "ready")
  /\ polling' = TRUE /\ watching' \in BOOLEAN
  /\ server' = "listening"
  /\ UNCHANGED <<testTimer, input, last, debounce, reload, applied, clients, sync,
                 stopping, changes, faults>>

(* A rejected initialize() ends the process.                               *)
BootFails ==
  /\ Running /\ boot # "ready"
  /\ Fault \/ (boot = "serving" /\ last \in Excessive /\ UNCHANGED faults)
  /\ Dies

-----------------------------------------------------------------------------
(* Hot reload                                                              *)

(* Somebody writes the INPUT record; the watcher sees it.                  *)
ChangeInput ==
  /\ Running /\ changes < MaxChanges /\ changes' = changes + 1
  /\ input' \in Inputs \ {input}
  /\ debounce' = (debounce \/ watching)
  /\ UNCHANGED <<booting, last, polling, watching, reload, applied, clients, server,
                 sync, stopping, faults>>

\* Seeded fault: a reload does not look for one that is under way.
MayReload_Always(c) == reload[c].stage = "none"

(* #activePollPromise                                                      *)
MayReload(c) == \A d \in Callers : reload[d].stage = "none"

Calls(c) ==
  reload' = IF MayReload(c) THEN [reload EXCEPT ![c].stage = "reading"] ELSE reload

PollTimer ==
  /\ Running /\ polling /\ MayReload("poll") /\ Calls("poll")
  /\ UNCHANGED <<booting, input, last, polling, watching, debounce, applied, clients,
                 server, sync, stopping, changes, faults>>

(* stop() does not clear it. If a reload is under way, the change is left  *)
(* to the poll.                                                            *)
DebounceTimer ==
  /\ Running /\ debounce /\ debounce' = FALSE /\ Calls("watch")
  /\ UNCHANGED <<booting, input, last, polling, watching, applied, clients, server,
                 sync, stopping, changes, faults>>

Steps(c, stage) == reload' = [reload EXCEPT ![c].stage = stage]

Sets(parts, v) == applied' = [p \in Parts |-> IF p \in parts THEN v ELSE applied[p]]

Ends(c) == reload' = [reload EXCEPT ![c] = NoReload]

(* The record is read. A new one is remembered at once; then it is coerced *)
(* and applied, up to the await of new webhooks, up to that of their       *)
(* longer retention, or to the end when neither is needed.                 *)
ReadInput(c) ==
  /\ Running /\ reload[c].stage = "reading"
  /\ IF input = last THEN Ends(c) /\ UNCHANGED <<last, applied>>
     ELSE /\ last' = input
          /\ \/ input \in Broken /\ Ends(c) /\ UNCHANGED applied
             \/ /\ input \notin Broken /\ Sets({"options"}, input)
                /\ reload' = [reload EXCEPT ![c] = [stage |-> "growing", new |-> input]]
             \/ /\ input \in Sound /\ Sets({"options", "retention"}, input)
                /\ reload' = [reload EXCEPT ![c] = [stage |-> "extending", new |-> input]]
             \/ input \in Sound /\ Sets(Parts, input) /\ Ends(c)
  /\ UNCHANGED <<booting, input, polling, watching, debounce, clients, server, sync,
                 stopping, changes, faults>>

\* Seeded fault: the promise is cleared only when the update succeeded.
Rejected_StaysActive(c) == Steps(c, "rejected")

(* finally: #activePollPromise = null                                      *)
Rejected(c) == Ends(c)

(* getValue rejects.                                                       *)
ReadFails(c) ==
  /\ Running /\ reload[c].stage = "reading" /\ Fault /\ Rejected(c)
  /\ UNCHANGED <<booting, input, last, polling, watching, debounce, applied, clients,
                 server, sync, stopping, changes>>

ReadHangs(c) ==
  /\ Running /\ reload[c].stage = "reading" /\ Fault /\ Steps(c, "hung")
  /\ UNCHANGED <<booting, input, last, polling, watching, debounce, applied, clients,
                 server, sync, stopping, changes>>

(* generateWebhooks returned; the retention is next.                       *)
Grown(c) ==
  /\ Running /\ reload[c].stage = "growing" /\ reload[c].new \notin Excessive
  /\ \/ Sets({"retention"}, reload[c].new) /\ Steps(c, "extending")
     \/ Sets({"retention", "replay"}, reload[c].new) /\ Ends(c)
  /\ UNCHANGED <<booting, input, last, polling, watching, debounce, clients, server,
                 sync, stopping, changes, faults>>

(* generateWebhooks threw: the update stays half applied.                  *)
GrowFails(c) ==
  /\ Running /\ reload[c].stage = "growing" /\ reload[c].new \in Excessive
  /\ Rejected(c)
  /\ UNCHANGED <<booting, input, last, polling, watching, debounce, applied, clients,
                 server, sync, stopping, changes, faults>>

Extended(c) ==
  /\ Running /\ reload[c].stage = "extending"
  /\ Sets({"replay"}, reload[c].new) /\ Ends(c)
  /\ UNCHANGED <<booting, input, last, polling, watching, debounce, clients, server,
                 sync, stopping, changes, faults>>

-----------------------------------------------------------------------------
(* The live stream                                                         *)

\* Seeded fault: the limit is looked at after the client was added.
MayStream_Late == clients <= MaxClients

MayStream == clients < MaxClients

Connect ==
  /\ Running /\ server = "listening" /\ MayStream
  /\ clients' = clients + 1
  /\ UNCHANGED <<booting, input, reloading, server, sync, stopping, changes, faults>>

(* req's "close" event, or a write of a broadcast or of the heartbeat that *)
(* throws.                                                                 *)
Drop ==
  /\ Running /\ clients > 0
  /\ clients' = clients - 1
  /\ UNCHANGED <<booting, input, reloading, server, sync, stopping, changes, faults>>

-----------------------------------------------------------------------------
(* shutdown()                                                              *)

Active == {c \in Callers : reload[c].stage # "none"}

\* Seeded fault: no attempt arms the timer.
Arms_None(s) == 0

(* The timer that forces the exit. A failed attempt does not clear it.     *)
Arms(s) == down[s].timers + 1

(* Timers off, clients ended, hot reload stopped: up to the first await.   *)
(* Without a HotReloadManager there is no server either.                   *)
Begin(s, stages) ==
  LET made == boot \in {"mounted", "ready"}
  IN /\ Running /\ down[s].stage \in stages
     /\ clients' = 0
     /\ polling' = FALSE /\ watching' = FALSE
     /\ down' = [down EXCEPT ![s] = [@ EXCEPT
          !.stage  = IF made THEN "reload" ELSE "sync",
          !.awaits = IF made /\ Active # {} THEN CHOOSE c \in Active : TRUE ELSE None,
          !.timers = Arms(s),
          !.ready  = boot = "ready"]]
     /\ UNCHANGED <<boot, input, last, debounce, reload, applied, server, sync, exit,
                    changes, faults>>

(* handleShutdownSignal                                                    *)
Signal ==
  /\ boot # "begin" /\ ~isShuttingDown /\ isShuttingDown' = TRUE
  /\ Begin("signal", {"none"}) /\ UNCHANGED testTimer

TestTimer ==
  /\ testTimer = "armed" /\ testTimer' = "off"
  /\ Begin("testAndExit", {"none"}) /\ UNCHANGED isShuttingDown

Retry == Begin("signal", {"waiting"}) /\ UNCHANGED <<testTimer, isShuttingDown>>

Goes(s, from, to) ==
  /\ Running /\ down[s].stage = from
  /\ down' = [down EXCEPT ![s].stage = to]
  /\ UNCHANGED <<booting, input, reloading, isShuttingDown, changes>>

(* HotReloadManager.stop waited for the reload that was under way. Then    *)
(* the connections are closed, and the server, if it listens.              *)
ReloadStopped(s) ==
  /\ down[s].awaits # None => down[s].awaits \notin Active
  /\ IF server = "listening"
     THEN /\ Goes(s, "reload", "server")
          /\ server' = "closing" /\ clients' = 0
     ELSE Goes(s, "reload", "sync") /\ UNCHANGED <<server, clients>>
  /\ UNCHANGED <<sync, exit, faults>>

ServerClosed(s) ==
  /\ Goes(s, "server", "sync") /\ server' = "closed"
  /\ UNCHANGED <<clients, sync, exit, faults>>

SyncStopped(s) ==
  /\ Goes(s, "sync", "db") /\ sync' = "stopped"
  /\ UNCHANGED <<clients, server, exit, faults>>

(* A shutdown by a signal is retried as a whole, one by testAndExit not.   *)
SyncStopFails(s) ==
  /\ Running /\ down[s].stage = "sync" /\ Fault
  /\ IF s = "signal" /\ down[s].tries + 1 < MaxAttempts
     THEN /\ down' = [down EXCEPT ![s].stage = "waiting", ![s].tries = @ + 1]
          /\ UNCHANGED <<booting, input, reloading, clients, server, sync,
                         isShuttingDown, exit, changes>>
     ELSE Dies

(* closeDb; that it rejects is only logged.                                *)
DbClosed(s) ==
  /\ Goes(s, "db", "saving")
  /\ UNCHANGED <<clients, server, sync, exit, faults>>

(* persist, which never rejects, and Actor.exit.                           *)
Saved(s) ==
  /\ Goes(s, "saving", "saved") /\ exit' = 0
  /\ UNCHANGED <<clients, server, sync, faults>>

Hangs(s) ==
  /\ Fault
  /\ \E from \in {"sync", "db", "saving"} : Goes(s, from, "hung")
  /\ UNCHANGED <<clients, server, sync, exit>>

ForceExit(s) ==
  /\ Running /\ down[s].timers > 0 /\ Dies /\ UNCHANGED faults

-----------------------------------------------------------------------------
Boot == RegisterSignals \/ ReadBootInput \/ StartServices \/ Mount \/ Listen \/ BootFails

Reload(c) == ReadInput(c) \/ ReadFails(c) \/ ReadHangs(c) \/ Grown(c) \/ GrowFails(c) \/ Extended(c)

Shutdown(s) ==
  ReloadStopped(s) \/ ServerClosed(s) \/ SyncStopped(s) \/ SyncStopFails(s)
  \/ DbClosed(s) \/ Saved(s) \/ Hangs(s) \/ ForceExit(s)

Next ==
  \/ Boot
  \/ ChangeInput \/ PollTimer \/ DebounceTimer
  \/ \E c \in Callers : Reload(c)
  \/ Connect \/ Drop
  \/ Signal \/ TestTimer \/ Retry
  \/ \E s \in Shutdowns : Shutdown(s)

(* Node.js fires its timers, and the calls that a reload awaits settle     *)
(* unless they hang. That is enough: the watcher need not notice anything, *)
(* and the calls of a shutdown need not settle. Nothing obliges anybody to *)
(* write the input, to send a signal or to open a stream.                  *)
Fairness ==
  /\ WF_vars(PollTimer)
  /\ WF_vars(\E c \in Callers : ReadInput(c) \/ Grown(c) \/ GrowFails(c) \/ Extended(c))
  /\ WF_vars(\E s \in Shutdowns : ForceExit(s))

FairSpec == Init /\ [][Next]_vars /\ Fairness

-----------------------------------------------------------------------------
(* There are never more live streams than MAX_SSE_CLIENTS.                 *)
TypeOK ==
  /\ boot \in {"begin", "signals", "configured", "serving", "mounted", "ready"}
  /\ testTimer \in {"off", "wanted", "armed"}
  /\ input \in Inputs /\ last \in Inputs \cup {None}
  /\ {polling, watching, debounce, isShuttingDown} \subseteq BOOLEAN
  /\ \A c \in Callers :
       /\ reload[c].stage \in {"none", "reading", "growing", "extending", "hung"}
       /\ reload[c].new \in Inputs \cup {None}
  /\ applied \in [Parts -> Inputs \cup {None}]
  /\ clients \in 0..MaxClients
  /\ server \in {"none", "listening", "closing", "closed"}
  /\ sync \in {"off", "on", "stopped"} /\ exit \in {None, 0, 1}
  /\ \A s \in Shutdowns : down[s].tries < MaxAttempts

(* When no reload is under way, every part of the configuration is from    *)
(* the input that was taken last, unless that one could not be applied:    *)
(* two updates, by the poll and by the watcher, never mix.                 *)
(* (HotReloadManager.#handleHotReload, AppState.applyConfigUpdate.)        *)
ConfigWhole ==
  Active = {} /\ last \in Sound => \A p \in Parts : applied[p] = last

(* An input that stays and can be applied is applied in the end, whatever  *)
(* was refused, rejected or missed by the watcher before, unless a read    *)
(* never settles or the process stops polling.                             *)
(* (HotReloadManager.start, #handleHotReload.)                             *)
InputTaken == \A v \in Sound :
  <>[](input = v /\ polling /\ Running /\ \A c \in Callers : reload[c].stage # "hung")
  => <>[](\A p \in Parts : applied[p] = v)

(* When a shutdown ends with code 0 and the process had started before,    *)
(* the server does not listen, no stream is left and the sync service is   *)
(* stopped, even if another shutdown is half-way through the same steps.   *)
(* (main.js, shutdown.)                                                    *)
CleanExit == \A s \in Shutdowns :
  exit = 0 /\ down[s].stage = "saved" /\ down[s].ready
  => server # "listening" /\ clients = 0 /\ sync = "stopped"

(* A shutdown ends, whichever of its calls hangs or is rejected, and one   *)
(* that ends with code 0 is clean. (main.js.)                              *)
ShutdownEnds ==
  /\ []CleanExit
  /\ (\E s \in Shutdowns : down[s].stage # "none") ~> ~Running
=============================================================================
