------------------------- MODULE AppLifecycleProofs -------------------------
(***************************************************************************)
(* Proofs about AppLifecycle for every set of inputs, any limit of streams *)
(* and attempts, and any number of changes of the input and of faults.     *)
(***************************************************************************)
EXTENDS AppLifecycle, TLAPS

-----------------------------------------------------------------------------
(* The invariant, in three parts.                                          *)

ReloadStages == {"none", "reading", "growing", "extending", "hung"}
DownStages ==
  {"none", "reload", "server", "sync", "waiting", "db", "saving", "saved", "hung"}

ShutdownType ==
  [stage : DownStages, awaits : Callers \cup {None}, tries : 0..(MaxAttempts - 1),
   timers : Nat, ready : BOOLEAN]

(* TypeOK, with the records of the reloads and of the shutdowns.           *)
Shape ==
  /\ boot \in {"begin", "signals", "configured", "serving", "mounted", "ready"}
  /\ testTimer \in {"off", "wanted", "armed"}
  /\ input \in Inputs /\ last \in Inputs \cup {None}
  /\ polling \in BOOLEAN /\ watching \in BOOLEAN /\ debounce \in BOOLEAN
  /\ isShuttingDown \in BOOLEAN
  /\ reload \in [Callers -> [stage : ReloadStages, new : Inputs \cup {None}]]
  /\ applied \in [Parts -> Inputs \cup {None}]
  /\ clients \in 0..MaxClients
  /\ server \in {"none", "listening", "closing", "closed"}
  /\ sync \in {"off", "on", "stopped"} /\ exit \in {None, 0, 1}
  /\ down \in [Shutdowns -> ShutdownType]

(* Before the process is ready nothing reloads. There is one reload at a   *)
(* time; an update under way is of the input remembered last, and has put  *)
(* the parts before its await in place.                                    *)
OneUpdate ==
  /\ boot # "ready" =>
       ~polling /\ ~watching /\ ~debounce /\ \A c \in Callers : reload[c].stage = "none"
  /\ \A c, d \in Callers :
       reload[c].stage # "none" /\ reload[d].stage # "none" => c = d
  /\ \A c \in Callers :
       /\ reload[c].stage \in {"growing", "extending"} =>
            reload[c].new = last /\ applied["options"] = last
       /\ reload[c].stage = "extending" => applied["retention"] = last
  /\ (\A c \in Callers : reload[c].stage \notin {"growing", "extending"})
     /\ last \in Sound => \A p \in Parts : applied[p] = last

(* What each stage of a shutdown that began when the process was ready     *)
(* has left behind.                                                        *)
LeftBehind ==
  /\ server # "listening" => clients = 0
  /\ boot # "ready" => server = "none"
  /\ \A s \in Shutdowns : down[s].stage = "server" => server \in {"closing", "closed"}
  /\ \A s \in Shutdowns : down[s].ready =>
       /\ boot = "ready"
       /\ down[s].stage \in {"server", "sync", "db", "saving", "saved"} =>
            server # "listening"
       /\ down[s].stage \in {"db", "saving", "saved"} => sync = "stopped"

IInv == Shape /\ OneUpdate /\ LeftBehind

USE DEF booting, reloading, stopping, NoReload, NoUpdate, NoShutdown, Callers, Parts,
        Shutdowns

LEMMA InitialRecords ==
  NoShutdown \in ShutdownType /\ NoReload \in [stage : ReloadStages, new : Inputs \cup {None}]
  <1>1. 0 \in 0..(MaxAttempts - 1)
    BY LifecycleAssumption
  <1> QED
    BY <1>1 DEF ShutdownType, DownStages, ReloadStages

LEMMA InitIInv == Init => IInv
  <1> SUFFICES ASSUME Init PROVE IInv
    OBVIOUS
  <1> USE LifecycleAssumption DEF Init
  <1>1. Shape
    <2>1. input \in Inputs /\ clients \in 0..MaxClients
      OBVIOUS
    <2>2. reload \in [Callers -> [stage : ReloadStages, new : Inputs \cup {None}]]
      BY InitialRecords
    <2>3. down \in [Shutdowns -> ShutdownType]
      BY InitialRecords
    <2> QED
      BY <2>1, <2>2, <2>3 DEF Shape
  <1>2. OneUpdate
    BY DEF OneUpdate, Sound
  <1>3. LeftBehind
    BY DEF LeftBehind
  <1> QED
    BY <1>1, <1>2, <1>3 DEF IInv

(* Death of the process forgets everything.                                *)
LEMMA DiesIInv == IInv /\ Dies => IInv'
  <1> SUFFICES ASSUME IInv, Dies PROVE IInv'
    OBVIOUS
  <1> USE LifecycleAssumption DEF IInv, Dies
  <1>1. Shape'
    <2>1. clients' \in 0..MaxClients
      OBVIOUS
    <2>2. reload' \in [Callers -> [stage : ReloadStages, new : Inputs \cup {None}]]
      BY InitialRecords
    <2>3. down' \in [Shutdowns -> ShutdownType]
      BY InitialRecords
    <2> QED
      BY <2>1, <2>2, <2>3 DEF Shape
  <1>2. OneUpdate'
    BY DEF OneUpdate, Sound
  <1>3. LeftBehind'
    BY DEF LeftBehind
  <1> QED
    BY <1>1, <1>2, <1>3

-----------------------------------------------------------------------------
(* One lemma for each part of the program.                                 *)

LEMMA BootIInv == IInv /\ Boot => IInv'
  <1> SUFFICES ASSUME IInv, Boot PROVE IInv'
    OBVIOUS
  <1> USE LifecycleAssumption DEF Boots
  <1>1. CASE RegisterSignals
    BY <1>1 DEF IInv, Shape, OneUpdate, LeftBehind, RegisterSignals, ShutdownType
  <1>2. CASE ReadBootInput
    <2>1. PICK v \in IF EnvInputs = {} THEN {input} ELSE EnvInputs :
            last' = v /\ applied' = [p \in Parts |-> v]
      BY <1>2 DEF ReadBootInput
    <2>2. v \in Inputs
      BY <2>1 DEF IInv, Shape
    <2>3. Shape'
      BY <1>2, <2>1, <2>2 DEF IInv, Shape, ReadBootInput
    <2>4. OneUpdate'
      BY <1>2, <2>1, <2>2 DEF IInv, OneUpdate, ReadBootInput
    <2>5. LeftBehind'
      BY <1>2 DEF IInv, LeftBehind, ReadBootInput
    <2> QED
      BY <2>3, <2>4, <2>5 DEF IInv
  <1>3. CASE StartServices
    BY <1>3 DEF IInv, Shape, OneUpdate, LeftBehind, StartServices, ShutdownType
  <1>4. CASE Mount
    BY <1>4 DEF IInv, Shape, OneUpdate, LeftBehind, Mount, ShutdownType
  <1>5. CASE Listen
    <2>1. Shape'
      BY <1>5 DEF IInv, Shape, Listen
    <2>2. OneUpdate'
      BY <1>5 DEF IInv, OneUpdate, Listen
    <2>3. LeftBehind'
      BY <1>5 DEF IInv, LeftBehind, Listen
    <2> QED
      BY <2>1, <2>2, <2>3 DEF IInv
  <1>6. CASE BootFails
    BY <1>6, DiesIInv DEF BootFails
  <1> QED
    BY <1>1, <1>2, <1>3, <1>4, <1>5, <1>6 DEF Boot

LEMMA StartReloadIInv == IInv /\ (ChangeInput \/ PollTimer \/ DebounceTimer) => IInv'
  <1> SUFFICES ASSUME IInv, ChangeInput \/ PollTimer \/ DebounceTimer PROVE IInv'
    OBVIOUS
  <1>1. CASE ChangeInput
    <2>1. Shape'
      BY <1>1 DEF IInv, Shape, ChangeInput
    <2>2. OneUpdate'
      BY <1>1 DEF IInv, OneUpdate, ChangeInput, Shape
    <2>3. LeftBehind'
      BY <1>1 DEF IInv, LeftBehind, ChangeInput
    <2> QED
      BY <2>1, <2>2, <2>3 DEF IInv
  <1>2. ASSUME NEW c \in Callers, Calls(c), boot = "ready",
               UNCHANGED <<booting, input, last, polling, watching, applied, clients, server,
                           sync, isShuttingDown, down, exit>>,
               debounce' \in BOOLEAN
        PROVE  IInv'
    <2>1. reload' = reload \/
            /\ \A d \in Callers : reload[d].stage = "none"
            /\ reload' = [reload EXCEPT ![c].stage = "reading"]
      BY <1>2 DEF Calls, MayReload
    <2>2. Shape'
      BY <1>2, <2>1 DEF IInv, Shape, ReloadStages
    <2>3. OneUpdate'
      BY <1>2, <2>1 DEF IInv, OneUpdate, Shape
    <2>4. LeftBehind'
      BY <1>2 DEF IInv, LeftBehind
    <2> QED
      BY <2>2, <2>3, <2>4 DEF IInv
  <1>3. CASE PollTimer
    BY <1>3, <1>2 DEF PollTimer, IInv, OneUpdate, Shape
  <1>4. CASE DebounceTimer
    BY <1>4, <1>2 DEF DebounceTimer, IInv, OneUpdate, Shape
  <1> QED
    BY <1>1, <1>3, <1>4

LEMMA ReloadIInv == ASSUME NEW c \in Callers PROVE IInv /\ Reload(c) => IInv'
  <1> SUFFICES ASSUME IInv, Reload(c) PROVE IInv'
    OBVIOUS
  <1>0. boot = "ready" /\ UNCHANGED <<booting, input, polling, watching, debounce, clients,
                                       server, sync, isShuttingDown, down, exit>>
    BY DEF IInv, OneUpdate, Shape, Reload, ReadInput, ReadFails, ReadHangs, Grown,
           GrowFails, Extended
  <1>1. LeftBehind'
    BY <1>0 DEF IInv, LeftBehind
  <1>2. ASSUME last' \in Inputs \cup {None}, applied' \in [Parts -> Inputs \cup {None}],
               reload' \in [Callers -> [stage : ReloadStages, new : Inputs \cup {None}]],
               OneUpdate'
        PROVE  IInv'
    BY <1>0, <1>1, <1>2 DEF IInv, Shape
  <1>3. CASE ReadInput(c)
    <2>1. CASE input = last
      BY <1>0, <1>2, <1>3, <2>1 DEF ReadInput, Ends, IInv, OneUpdate, Shape, ReloadStages
    <2>2. CASE input # last /\ input \in Broken /\ Ends(c) /\ last' = input
               /\ UNCHANGED applied
      BY <1>0, <1>2, <1>3, <2>2 DEF ReadInput, Ends, IInv, OneUpdate, Shape, ReloadStages,
         Sound
    <2>3. CASE /\ input # last /\ last' = input /\ Sets({"options"}, input)
               /\ reload' = [reload EXCEPT ![c] = [stage |-> "growing", new |-> input]]
      BY <1>0, <1>2, <1>3, <2>3 DEF ReadInput, Sets, IInv, OneUpdate, Shape, ReloadStages
    <2>4. CASE /\ input # last /\ last' = input /\ Sets({"options", "retention"}, input)
               /\ reload' = [reload EXCEPT ![c] = [stage |-> "extending", new |-> input]]
      BY <1>0, <1>2, <1>3, <2>4 DEF ReadInput, Sets, IInv, OneUpdate, Shape, ReloadStages
    <2>5. CASE input # last /\ last' = input /\ Sets(Parts, input) /\ Ends(c)
      BY <1>0, <1>2, <1>3, <2>5 DEF ReadInput, Sets, Ends, IInv, OneUpdate, Shape,
         ReloadStages
    <2> QED
      BY <1>3, <2>1, <2>2, <2>3, <2>4, <2>5 DEF ReadInput
  <1>4. CASE ReadFails(c)
    BY <1>0, <1>2, <1>4 DEF ReadFails, Rejected, Ends, IInv, OneUpdate, Shape, ReloadStages
  <1>5. CASE ReadHangs(c)
    BY <1>0, <1>2, <1>5 DEF ReadHangs, Steps, IInv, OneUpdate, Shape, ReloadStages
  <1>6. CASE Grown(c)
    <2>1. CASE Sets({"retention"}, reload[c].new) /\ Steps(c, "extending")
      BY <1>0, <1>2, <1>6, <2>1 DEF Grown, Sets, Steps, IInv, OneUpdate, Shape, ReloadStages
    <2>2. CASE Sets({"retention", "replay"}, reload[c].new) /\ Ends(c)
      BY <1>0, <1>2, <1>6, <2>2 DEF Grown, Sets, Ends, IInv, OneUpdate, Shape, ReloadStages
    <2> QED
      BY <1>6, <2>1, <2>2 DEF Grown
  <1>7. CASE GrowFails(c)
    BY <1>0, <1>2, <1>7 DEF GrowFails, Rejected, Ends, IInv, OneUpdate, Shape, ReloadStages,
       Sound
  <1>8. CASE Extended(c)
    BY <1>0, <1>2, <1>8 DEF Extended, Sets, Ends, IInv, OneUpdate, Shape, ReloadStages
  <1> QED
    BY <1>3, <1>4, <1>5, <1>6, <1>7, <1>8 DEF Reload

LEMMA StreamIInv == IInv /\ (Connect \/ Drop) => IInv'
  <1> SUFFICES ASSUME IInv, Connect \/ Drop PROVE IInv'
    OBVIOUS
  <1>1. clients' \in 0..MaxClients /\ (server # "listening" => clients' = 0)
    BY LifecycleAssumption DEF IInv, Shape, LeftBehind, Connect, Drop, MayStream
  <1>2. UNCHANGED <<booting, input, reloading, server, sync, stopping>>
    BY DEF Connect, Drop
  <1> QED
    BY <1>1, <1>2 DEF IInv, Shape, OneUpdate, LeftBehind, ShutdownType

LEMMA BeginType ==
  ASSUME NEW x \in ShutdownType, NEW stage \in DownStages, NEW c \in Callers \cup {None},
         NEW b \in BOOLEAN
  PROVE  [x EXCEPT !.stage = stage, !.awaits = c, !.timers = @ + 1, !.ready = b]
           \in ShutdownType
  <1>1. ASSUME NEW z \in ShutdownType
        PROVE  [z EXCEPT !.stage = stage, !.awaits = c] \in ShutdownType
    BY DEF ShutdownType
  <1>2. ASSUME NEW z \in ShutdownType
        PROVE  [z EXCEPT !.timers = @ + 1] \in ShutdownType
    BY DEF ShutdownType
  <1>3. ASSUME NEW z \in ShutdownType
        PROVE  [z EXCEPT !.ready = b] \in ShutdownType
    BY DEF ShutdownType
  <1> DEFINE x1 == [x EXCEPT !.stage = stage, !.awaits = c]
             x2 == [x1 EXCEPT !.timers = @ + 1]
             x3 == [x2 EXCEPT !.ready = b]
  <1>4. x3 \in ShutdownType
    BY <1>1, <1>2, <1>3
  <1>5. x3 = [x EXCEPT !.stage = stage, !.awaits = c, !.timers = @ + 1, !.ready = b]
    OBVIOUS
  <1> QED
    BY <1>4, <1>5

LEMMA BeginIInv ==
  ASSUME NEW s \in Shutdowns, NEW stages, IInv, Begin(s, stages),
         testTimer' \in {"off", testTimer}, isShuttingDown' \in BOOLEAN
  PROVE  IInv'
  <1> DEFINE made == boot \in {"mounted", "ready"}
             b == boot = "ready"
             a == IF made /\ Active # {} THEN CHOOSE c \in Active : TRUE ELSE None
             d == [down[s] EXCEPT !.stage  = IF made THEN "reload" ELSE "sync",
                                  !.awaits = a, !.timers = @ + 1, !.ready = b]
  <1>1. a \in Callers \cup {None}
    BY DEF Active
  <1>2. d \in ShutdownType
    <2>1. down[s] \in ShutdownType /\ b \in BOOLEAN
      BY DEF IInv, Shape
    <2>2. (IF made THEN "reload" ELSE "sync") \in DownStages
      BY DEF DownStages
    <2> HIDE DEF a, b, made
    <2> QED
      BY <1>1, <2>1, <2>2, BeginType
  <1>3. down' = [down EXCEPT ![s] = d]
    BY DEF Begin, Arms
  <1>4. /\ d.ready => boot = "ready" /\ d.stage = "reload"
        /\ d.stage # "server"
    <2>0. (IF made THEN "reload" ELSE "sync") # "server"
      OBVIOUS
    <2>1. d.ready = b /\ d.stage = IF made THEN "reload" ELSE "sync"
      <3> HIDE DEF a, b, made
      <3> QED
        BY DEF IInv, Shape, ShutdownType
    <2>2. b => made
      OBVIOUS
    <2> HIDE DEF d, made
    <2> QED
      BY <2>0, <2>1, <2>2
  <1> HIDE DEF d
  <1>5. /\ clients' = 0 /\ polling' = FALSE /\ watching' = FALSE
        /\ UNCHANGED <<boot, input, last, debounce, reload, applied, server, sync, exit>>
    BY DEF Begin
  <1>6. Shape'
    <2>1. down' \in [Shutdowns -> ShutdownType]
      BY <1>2, <1>3 DEF IInv, Shape
    <2>2. clients' \in 0..MaxClients
      BY <1>5, LifecycleAssumption
    <2>3. testTimer' \in {"off", "wanted", "armed"}
      BY DEF IInv, Shape
    <2> QED
      BY <1>5, <2>1, <2>2, <2>3 DEF IInv, Shape
  <1>7. OneUpdate'
    BY <1>5 DEF IInv, OneUpdate
  <1>8. LeftBehind'
    BY <1>3, <1>4, <1>5 DEF IInv, Shape, LeftBehind
  <1> QED
    BY <1>6, <1>7, <1>8 DEF IInv

LEMMA ShutdownIInv == ASSUME NEW s \in Shutdowns PROVE IInv /\ Shutdown(s) => IInv'
  <1> SUFFICES ASSUME IInv, Shutdown(s) PROVE IInv'
    OBVIOUS
  <1>1. CASE Dies
    BY <1>1, DiesIInv
  <1>2. ASSUME NEW to \in DownStages, NEW n \in 0..(MaxAttempts - 1),
               down' = [down EXCEPT ![s] = [down[s] EXCEPT !.stage = to, !.tries = n]],
               UNCHANGED <<booting, input, reloading, isShuttingDown>>,
               clients' \in {0, clients},
               server' \in {"none", "listening", "closing", "closed"},
               sync' \in {"off", "on", "stopped"}, exit' \in {None, 0, 1},
               LeftBehind'
        PROVE  IInv'
    <2>1. [down[s] EXCEPT !.stage = to, !.tries = n] \in ShutdownType
      BY <1>2 DEF IInv, Shape, ShutdownType
    <2>2. Shape'
      BY <1>2, <2>1, LifecycleAssumption DEF IInv, Shape
    <2>3. OneUpdate'
      BY <1>2 DEF IInv, OneUpdate
    <2> QED
      BY <1>2, <2>2, <2>3 DEF IInv
  <1>3. ASSUME NEW from, NEW to \in DownStages, Goes(s, from, to),
               clients' \in {0, clients},
               server' \in {"none", "listening", "closing", "closed"},
               sync' \in {"off", "on", "stopped"}, exit' \in {None, 0, 1},
               LeftBehind'
        PROVE  IInv'
    <2>1. down[s].tries \in 0..(MaxAttempts - 1) /\ down[s] \in ShutdownType
      BY DEF IInv, Shape, ShutdownType
    <2>2. down' = [down EXCEPT ![s] = [down[s] EXCEPT !.stage = to, !.tries = down[s].tries]]
      BY <1>3, <2>1 DEF Goes, ShutdownType, IInv, Shape
    <2> QED
      BY <1>2, <1>3, <2>1, <2>2 DEF Goes
  <1> DEFINE Left(to) == \A t \in Shutdowns :
        /\ down'[t].ready = down[t].ready
        /\ down'[t].stage = IF t = s THEN to ELSE down[t].stage
  <1>12. ASSUME NEW from, NEW to, Goes(s, from, to)
         PROVE  Left(to) /\ down[s].stage = from /\ boot' = boot
    <2>1. \A t \in Shutdowns : down[t] \in ShutdownType
      BY DEF IInv, Shape
    <2> QED
      BY <1>12, <2>1 DEF Goes, ShutdownType, IInv, Shape
  <1>13. /\ clients \in {0, clients} /\ server \in {"none", "listening", "closing", "closed"}
         /\ sync \in {"off", "on", "stopped"} /\ exit \in {None, 0, 1} /\ LeftBehind
         /\ {"server", "sync", "db", "saving", "saved", "hung"} \subseteq DownStages
    BY DEF IInv, Shape, DownStages
  <1> HIDE DEF Left
  <1>4. CASE ReloadStopped(s)
    <2>1. CASE server = "listening"
      <3>1. /\ Goes(s, "reload", "server") /\ server' = "closing" /\ clients' = 0
            /\ UNCHANGED <<sync, exit>>
        BY <1>4, <2>1 DEF ReloadStopped
      <3>2. LeftBehind'
        BY <1>12, <1>13, <2>1, <3>1 DEF Left, LeftBehind
      <3> QED
        BY <1>3, <1>13, <3>1, <3>2
    <2>2. CASE server # "listening"
      <3>1. Goes(s, "reload", "sync") /\ UNCHANGED <<server, clients, sync, exit>>
        BY <1>4, <2>2 DEF ReloadStopped
      <3>2. LeftBehind'
        BY <1>12, <1>13, <2>2, <3>1 DEF Left, LeftBehind
      <3> QED
        BY <1>3, <1>13, <3>1, <3>2
    <2> QED
      BY <2>1, <2>2
  <1>5. CASE ServerClosed(s)
    <2>1. Goes(s, "server", "sync") /\ server' = "closed" /\ UNCHANGED <<clients, sync, exit>>
      BY <1>5 DEF ServerClosed
    <2>2. clients' = 0 /\ boot' = "ready"
      BY <1>12, <1>13, <2>1 DEF LeftBehind
    <2>3. LeftBehind'
      BY <1>12, <1>13, <2>1, <2>2 DEF Left, LeftBehind
    <2> QED
      BY <1>3, <1>13, <2>1, <2>3
  <1>6. CASE SyncStopped(s)
    <2>1. Goes(s, "sync", "db") /\ sync' = "stopped" /\ UNCHANGED <<clients, server, exit>>
      BY <1>6 DEF SyncStopped
    <2>2. LeftBehind'
      BY <1>12, <1>13, <2>1 DEF Left, LeftBehind
    <2> QED
      BY <1>3, <1>13, <2>1, <2>2
  <1>7. CASE SyncStopFails(s) /\ ~Dies
    <2>1. /\ down' = [down EXCEPT ![s] = [down[s] EXCEPT !.stage = "waiting",
                                                        !.tries = down[s].tries + 1]]
          /\ down[s].tries + 1 < MaxAttempts
          /\ UNCHANGED <<booting, input, reloading, clients, server, sync, isShuttingDown, exit>>
      BY <1>7 DEF SyncStopFails
    <2>2. down[s].tries + 1 \in 0..(MaxAttempts - 1)
      BY <2>1, LifecycleAssumption DEF IInv, Shape, ShutdownType
    <2>3. LeftBehind'
      BY <2>1 DEF IInv, Shape, LeftBehind, ShutdownType
    <2> QED
      BY <1>2, <2>1, <2>2, <2>3 DEF IInv, Shape, DownStages
  <1>8. CASE DbClosed(s)
    <2>1. Goes(s, "db", "saving") /\ UNCHANGED <<clients, server, sync, exit>>
      BY <1>8 DEF DbClosed
    <2>2. LeftBehind'
      BY <1>12, <1>13, <2>1 DEF Left, LeftBehind
    <2> QED
      BY <1>3, <1>13, <2>1, <2>2
  <1>9. CASE Saved(s)
    <2>1. Goes(s, "saving", "saved") /\ exit' = 0 /\ UNCHANGED <<clients, server, sync>>
      BY <1>9 DEF Saved
    <2>2. LeftBehind'
      BY <1>12, <1>13, <2>1 DEF Left, LeftBehind
    <2> QED
      BY <1>3, <1>13, <2>1, <2>2
  <1>10. CASE Hangs(s)
    <2>1. PICK from \in {"sync", "db", "saving"} :
            Goes(s, from, "hung") /\ UNCHANGED <<clients, server, sync, exit>>
      BY <1>10 DEF Hangs
    <2>2. LeftBehind'
      BY <1>12, <1>13, <2>1 DEF Left, LeftBehind
    <2> QED
      BY <1>3, <1>13, <2>1, <2>2
  <1>11. CASE ForceExit(s)
    BY <1>1, <1>11 DEF ForceExit
  <1> QED
    BY <1>1, <1>4, <1>5, <1>6, <1>7, <1>8, <1>9, <1>10, <1>11 DEF Shutdown

LEMMA NextIInv == IInv /\ [Next]_vars => IInv'
  <1> SUFFICES ASSUME IInv, [Next]_vars PROVE IInv'
    OBVIOUS
  <1>1. CASE UNCHANGED vars
    BY <1>1 DEF vars, IInv, Shape, OneUpdate, LeftBehind, ShutdownType
  <1>2. ASSUME NEW c \in Callers, Reload(c) PROVE IInv'
    BY <1>2, ReloadIInv
  <1>3. CASE Signal
    BY <1>3, BeginIInv DEF Signal
  <1>4. CASE TestTimer
    BY <1>4, BeginIInv DEF TestTimer, IInv, Shape
  <1>5. CASE Retry
    BY <1>5, BeginIInv DEF Retry, IInv, Shape
  <1>6. ASSUME NEW s \in Shutdowns, Shutdown(s) PROVE IInv'
    BY <1>6, ShutdownIInv
  <1> QED
    BY <1>1, <1>2, <1>3, <1>4, <1>5, <1>6, BootIInv, StartReloadIInv, StreamIInv DEF Next

LEMMA IInvAlways == FairSpec => []IInv
  BY InitIInv, NextIInv, PTL DEF FairSpec

-----------------------------------------------------------------------------
(* Types hold, and there are never more live streams than MAX_SSE_CLIENTS, *)
(* whoever connects, leaves or shuts down. (createLogStreamHandler.)       *)
THEOREM TypeCorrect == FairSpec => []TypeOK
  <1>1. IInv => TypeOK
    BY LifecycleAssumption DEF IInv, Shape, TypeOK, ReloadStages, ShutdownType
  <1> QED
    BY <1>1, IInvAlways, PTL

(* Whenever no reload is under way the configuration is the one input that *)
(* was taken last, however the poll, the watcher and failures fall         *)
(* together. (HotReloadManager.#handleHotReload.)                          *)
THEOREM ConfigWholeHolds == FairSpec => []ConfigWhole
  <1>1. IInv => ConfigWhole
    BY DEF IInv, OneUpdate, ConfigWhole, Active
  <1> QED
    BY <1>1, IInvAlways, PTL

(* A shutdown that ends with code 0, of a process that had started, leaves *)
(* no listening server, no stream and no running sync service, also when   *)
(* a second shutdown and a reload are under way. (main.js, shutdown.)      *)
THEOREM CleanExitHolds == FairSpec => []CleanExit
  <1>1. IInv => CleanExit
    BY DEF IInv, LeftBehind, CleanExit
  <1> QED
    BY <1>1, IInvAlways, PTL

-----------------------------------------------------------------------------
(* The safety that ShutdownEnds rests on. Every attempt of a shutdown has  *)
(* armed one timer that forces the exit, none is disarmed while it lives,  *)
(* and there are never more of them than attempts are allowed: whichever   *)
(* call of a shutdown hangs, the timer that ends it is there.              *)
ExitIsForced ==
  \A s \in Shutdowns : down[s].stage # "none" => down[s].timers \in 1..MaxAttempts

(* One timer for each attempt that failed, and one for that under way.     *)
OneEach(d) ==
  /\ d.stage = "none" => d.tries = 0 /\ d.timers = 0
  /\ d.stage = "waiting" => d.tries > 0 /\ d.timers = d.tries
  /\ d.stage \notin {"none", "waiting"} => d.timers = d.tries + 1

Counted == /\ \A s \in Shutdowns : OneEach(down[s])
           /\ down["testAndExit"].stage # "waiting"

(* What a step does to one shutdown.                                       *)
LEMMA ShutdownMoves ==
  ASSUME IInv, Counted, [Next]_vars, NEW t \in Shutdowns
  PROVE  \/ down'[t] = down[t] \/ down'[t] = NoShutdown
         \/ /\ down[t].stage = "none" \/ down[t].stage = "waiting"
            /\ down'[t].stage \notin {"none", "waiting"}
            /\ down'[t].tries = down[t].tries /\ down'[t].timers = down[t].timers + 1
         \/ /\ down[t].stage \notin {"none", "waiting"}
            /\ down'[t].stage \notin {"none", "waiting"}
            /\ down'[t].tries = down[t].tries /\ down'[t].timers = down[t].timers
         \/ /\ t = "signal" /\ down[t].stage = "sync" /\ down'[t].stage = "waiting"
            /\ down'[t].tries = down[t].tries + 1 /\ down'[t].timers = down[t].timers
  <1> DEFINE Still  == down'[t] = down[t] \/ down'[t] = NoShutdown
             Begun  == /\ down[t].stage = "none" \/ down[t].stage = "waiting"
                       /\ down'[t].stage \notin {"none", "waiting"}
                       /\ down'[t].tries = down[t].tries
                       /\ down'[t].timers = down[t].timers + 1
             Gone   == /\ down[t].stage \notin {"none", "waiting"}
                       /\ down'[t].stage \notin {"none", "waiting"}
                       /\ down'[t].tries = down[t].tries
                       /\ down'[t].timers = down[t].timers
             Failed == /\ t = "signal" /\ down[t].stage = "sync"
                       /\ down'[t].stage = "waiting"
                       /\ down'[t].tries = down[t].tries + 1
                       /\ down'[t].timers = down[t].timers
             Moved  == Still \/ Begun \/ Gone \/ Failed
  <1>0. /\ DOMAIN down = Shutdowns
        /\ \A s \in Shutdowns : down[s] \in ShutdownType
    BY DEF IInv, Shape
  <1>1. ASSUME Dies PROVE Moved
    <2>1. down' = [s \in Shutdowns |-> NoShutdown]
      BY <1>1, Zenon DEF Dies
    <2> QED
      BY <2>1
  <1>2. ASSUME UNCHANGED down PROVE Moved
    BY <1>2
  <1>3. ASSUME NEW s \in Shutdowns, NEW stages \in SUBSET {"none", "waiting"},
               Begin(s, stages)
        PROVE  Moved
    <2> DEFINE made == boot \in {"mounted", "ready"}
               b == boot = "ready"
               a == IF made /\ Active # {} THEN CHOOSE c \in Active : TRUE ELSE None
               to == IF made THEN "reload" ELSE "sync"
               d == [down[s] EXCEPT !.stage = to, !.awaits = a, !.timers = @ + 1, !.ready = b]
    <2>1. down' = [down EXCEPT ![s] = d] /\ down[s].stage \in {"none", "waiting"}
      BY <1>3 DEF Begin, Arms
    <2>2. to \notin {"none", "waiting"}
      OBVIOUS
    <2> HIDE DEF a, b, to
    <2>3. d.stage = to /\ d.tries = down[s].tries /\ d.timers = down[s].timers + 1
      BY <1>0 DEF ShutdownType
    <2> HIDE DEF d
    <2> QED
      BY <1>0, <2>1, <2>2, <2>3
  <1>4. ASSUME NEW s \in Shutdowns, NEW from \in DownStages \ {"none", "waiting"},
               NEW to \in DownStages \ {"none", "waiting"}, Goes(s, from, to)
        PROVE  Moved
    <2>1. down' = [down EXCEPT ![s] = [down[s] EXCEPT !.stage = to]] /\ down[s].stage = from
      BY <1>0, <1>4 DEF Goes
    <2> QED
      BY <1>0, <2>1 DEF ShutdownType
  <1>5. ASSUME NEW s \in Shutdowns, SyncStopFails(s), ~Dies PROVE Moved
    <2>1. /\ down' = [down EXCEPT ![s] = [down[s] EXCEPT !.stage = "waiting",
                                                         !.tries = down[s].tries + 1]]
          /\ s = "signal" /\ down[s].stage = "sync"
      BY <1>0, <1>5 DEF SyncStopFails
    <2> QED
      BY <1>0, <2>1 DEF ShutdownType
  <1> HIDE DEF Moved
  <1>6. ASSUME NEW s \in Shutdowns, Shutdown(s) PROVE Moved
    <2>1. {"reload", "server", "sync", "db", "saving", "saved", "hung"}
            \subseteq DownStages \ {"none", "waiting"}
      BY DEF DownStages
    <2>2. CASE ReloadStopped(s)
      BY <1>4, <2>1, <2>2 DEF ReloadStopped
    <2>3. CASE ServerClosed(s) \/ SyncStopped(s) \/ DbClosed(s) \/ Saved(s)
      BY <1>4, <2>1, <2>3 DEF ServerClosed, SyncStopped, DbClosed, Saved
    <2>4. CASE Hangs(s)
      BY <1>4, <2>1, <2>4 DEF Hangs
    <2>5. CASE SyncStopFails(s)
      BY <1>1, <1>5, <2>5
    <2>6. CASE ForceExit(s)
      BY <1>1, <2>6 DEF ForceExit
    <2> QED
      BY <1>6, <2>2, <2>3, <2>4, <2>5, <2>6 DEF Shutdown
  <1>7. ASSUME Signal \/ TestTimer \/ Retry PROVE Moved
    <2>1. {"none"} \in SUBSET {"none", "waiting"} /\ {"waiting"} \in SUBSET {"none", "waiting"}
      OBVIOUS
    <2> QED
      BY <1>3, <1>7, <2>1 DEF Signal, TestTimer, Retry, Shutdowns
  <1>8. ASSUME Boot PROVE Moved
    BY <1>1, <1>2, <1>8 DEF Boot, RegisterSignals, ReadBootInput, StartServices, Mount,
                            Listen, BootFails
  <1>9. ASSUME NEW c \in Callers, Reload(c) PROVE Moved
    BY <1>2, <1>9 DEF Reload, ReadInput, ReadFails, ReadHangs, Grown, GrowFails, Extended
  <1>10. ASSUME ChangeInput \/ PollTimer \/ DebounceTimer \/ Connect \/ Drop \/ UNCHANGED vars
         PROVE  Moved
    BY <1>2, <1>10 DEF ChangeInput, PollTimer, DebounceTimer, Connect, Drop, vars
  <1>11. Moved
    BY <1>6, <1>7, <1>8, <1>9, <1>10 DEF Next
  <1> QED
    BY <1>11 DEF Moved

LEMMA CountedStep == IInv /\ Counted /\ [Next]_vars => Counted'
  <1> SUFFICES ASSUME IInv, Counted, [Next]_vars PROVE Counted'
    OBVIOUS
  <1>1. ASSUME NEW t \in Shutdowns
        PROVE  OneEach(down'[t]) /\ (t = "testAndExit" => down'[t].stage # "waiting")
    <2>1. /\ OneEach(down[t]) /\ down[t] \in ShutdownType
          /\ t = "testAndExit" => down[t].stage # "waiting"
      BY DEF Counted, IInv, Shape
    <2> QED
      BY <2>1, ShutdownMoves DEF OneEach, ShutdownType
  <1> QED
    BY <1>1 DEF Counted

(* A shutdown that has begun is ended by a timer if by nothing else.       *)
(* (main.js, shutdown.)                                                    *)
THEOREM ExitIsForcedHolds == FairSpec => []ExitIsForced
  <1>1. Init => Counted
    BY DEF Init, Counted, OneEach
  <1>2. IInv /\ Counted => ExitIsForced
    <2> SUFFICES ASSUME IInv, Counted, NEW s \in Shutdowns, down[s].stage # "none"
                 PROVE  down[s].timers \in 1..MaxAttempts
      BY DEF ExitIsForced
    <2>1. down[s] \in ShutdownType /\ OneEach(down[s])
      BY DEF IInv, Shape, Counted
    <2>2. down[s].tries \in 0..(MaxAttempts - 1) /\ down[s].timers \in Nat
      BY <2>1 DEF ShutdownType
    <2> QED
      BY <2>1, <2>2, LifecycleAssumption DEF OneEach
  <1> QED
    BY <1>1, <1>2, CountedStep, IInvAlways, PTL DEF FairSpec
=============================================================================
