---------------------------- MODULE IngestProofs ----------------------------
(***************************************************************************)
(* Proofs about Ingest for any set of requests, configurations, senders,   *)
(* channels and edits of scripts, and any number of hot reloads and        *)
(* faults. A request is reached by its own actions, the reloads and the    *)
(* end of a webhook only, so the invariant is one of each request by       *)
(* itself.                                                                 *)
(***************************************************************************)
EXTENDS Ingest, TLAPS

-----------------------------------------------------------------------------
(* TypeOK, with the answers as sequences and the bounds left out.          *)
Shape ==
  /\ parser \in BOOLEAN
  /\ options \in OptionSets /\ compiled \in {"none", "ok"}
  /\ live \in BOOLEAN /\ cleaned \in BOOLEAN
  /\ stage \in [Requests -> Stages]
  /\ req \in [Requests -> [size: Sizes, sender: Senders] \cup {Null}]
  /\ opts \in [Requests -> OptionSets \cup {Null}]
  /\ verdict \in [Requests -> Judgements \cup {Null}]
  /\ event \in [Requests -> Events \cup {Null}]
  /\ worker \in [Requests -> {"none", "running", "stopping", "gone"}]
  /\ answers \in [Requests -> Seq(Nat)]
  /\ payloads \subseteq Requests /\ emitted \subseteq Requests
  /\ stored \subseteq Requests /\ pushing \subseteq Requests
  /\ forwarded \subseteq Requests /\ alerted \in [Requests -> SUBSET Channels]
  /\ aborted \subseteq Requests /\ wasLive \in [Requests -> BOOLEAN]
  /\ reloads \in 0..MaxReloads /\ faults \in 0..MaxFaults

Unlogged  == {"idle", "ingest", "streaming", "stalled", "parsing", "parsed", "preparing"}
Scripted  == {"transforming", "scripting", "terminating", "answering"}
Answered  == {"pushing", "forwarding", "alerting"}

NoEffect(r) ==
  r \notin emitted \cup stored \cup pushing \cup forwarded /\ alerted[r] = {}

Refusal(r) == Len(answers[r]) = 1 /\ answers[r][1] >= 400 /\ NoEffect(r)

Reply(r) == answers[r] = <<event[r].status>> /\ event[r].kind # "unsendable"

(* Where a request is tells what it has done.                              *)
Course(r) ==
  /\ stage[r] # "idle" => req[r] \in [size: Sizes, sender: Senders]
  /\ stage[r] = "streaming" => req[r].size = "streamed" /\ opts[r] \in OptionSets
  /\ stage[r] = "parsing" => req[r].size # "streamed"
  /\ stage[r] \in Unlogged => event[r] = Null
  /\ stage[r] \in Scripted \cup Answered => event[r] \in Events
  /\ stage[r] \in {"preparing"} \cup Scripted \cup Answered => opts[r] \in OptionSets
  /\ stage[r] \in {"transforming", "scripting", "terminating"} => event[r].kind = "plain"
  /\ event[r] # Null => opts[r] \in OptionSets
  /\ stage[r] \in Unlogged \cup Scripted => answers[r] = <<>> /\ NoEffect(r)
  /\ stage[r] \in Answered => Reply(r)
  /\ stage[r] = "done" =>
       IF event[r] # Null /\ event[r].kind # "unsendable" THEN Reply(r) ELSE Refusal(r)

(* The worker of the script.                                               *)
Threads(r) ==
  /\ worker[r] = "running" => stage[r] = "scripting"
  /\ worker[r] = "stopping" =>
       stage[r] = "terminating" \/ (event[r] # Null /\ event[r].kind # "plain")
  /\ stage[r] \in Unlogged => worker[r] = "none"

(* A verifier that was started is that of the options kept for the stream; *)
(* a verdict is that of the stream; the event has the verdict it should.   *)
Judged(r) ==
  /\ stage[r] = "streaming" =>
       /\ verdict[r] = Null
       /\ HasSignature(opts[r]) => Sig!StreamVerifierStarts(opts[r], req[r].sender)
  /\ stage[r] \in {"idle", "ingest", "parsing"} => verdict[r] = Null
  /\ verdict[r] # Null =>
       /\ HasSignature(verdict[r].under)
       /\ Sig!StreamVerifierStarts(verdict[r].under, req[r].sender)
       /\ verdict[r].valid = Sig!MacMatches(verdict[r].under, req[r].sender, "raw")
  /\ event[r] # Null =>
       LET s      == event[r].signature
           judged == s # Null /\ s.under # Null
           sender == req[r].sender
       IN  /\ event[r].kind = "plain" => (HasSignature(opts[r]) <=> s # Null)
           /\ event[r].kind = "plain" /\ s # Null => judged
           /\ judged /\ s.valid => Genuine(s.under, sender)
           /\ judged /\ ~s.valid =>
                /\ event[r].kind = "plain" => event[r].status = 401
                /\ \/ ~Genuine(s.under, sender) \/ Sig!ContextError(s.under, sender)
                   \/ IF req[r].size = "streamed" THEN verdict[r] = Null ELSE ~parser

(* The payload of the request.                                             *)
Offloaded(r) ==
  /\ r \in payloads => stage[r] # "idle" /\ req[r].size \notin {"none", "small"}
  /\ stage[r] \in {"parsed", "preparing"} /\ req[r].size = "streamed" => r \in payloads
  /\ event[r] # Null =>
       /\ event[r].body = "reference" =>
            r \in payloads \/ cleaned \/ event[r].kind = "moved"
       /\ event[r].body = "raw" => req[r].size \in {"none", "small"}
  /\ stage[r] \in Answered \/ (stage[r] = "done" /\ event[r] # Null
                                /\ event[r].kind # "unsendable")
       => (Logs(event[r]) => r \in emitted)

(* The webhook, the dataset, the forwarding and the alerts.                *)
Justified(r) ==
  /\ stage[r] = "parsed" /\ live => wasLive[r]
  /\ stage[r] = "preparing" \/ event[r] # Null => wasLive[r]
  /\ stage[r] = "forwarding" \/ r \in forwarded =>
       r \in stored \/ event[r].kind = "anonymous"
  /\ alerted[r] # {} =>
       \/ event[r].status >= 400
       \/ event[r].signature # Null /\ ~event[r].signature.valid

Sound(r) == Course(r) /\ Threads(r) /\ Judged(r) /\ Offloaded(r) /\ Justified(r)

IInv == Shape /\ \A r \in Requests : Sound(r)

USE DEF core, env, effects, To, Answer, Fault, Unlogged, Scripted, Answered, Stages, Sizes

-----------------------------------------------------------------------------
(* What of the state belongs to request q.                                 *)
Same(q) ==
  /\ stage'[q] = stage[q] /\ req'[q] = req[q] /\ opts'[q] = opts[q]
  /\ verdict'[q] = verdict[q] /\ event'[q] = event[q] /\ worker'[q] = worker[q]
  /\ answers'[q] = answers[q] /\ alerted'[q] = alerted[q] /\ wasLive'[q] = wasLive[q]
  /\ (q \in payloads') = (q \in payloads) /\ (q \in emitted') = (q \in emitted)
  /\ (q \in stored') = (q \in stored) /\ (q \in pushing') = (q \in pushing)
  /\ (q \in forwarded') = (q \in forwarded)

(* A request to which nothing happens stays sound while the webhook does   *)
(* not come back.                                                          *)
LEMMA SameSound ==
  ASSUME NEW q \in Requests, Sound(q), Same(q), parser' = parser, live' => live,
         cleaned => cleaned'
  PROVE  Sound(q)'
  <1>1. Course(q)'
    BY DEF Sound, Course, Same, NoEffect, Refusal, Reply
  <1>2. Threads(q)'
    BY DEF Sound, Threads, Same
  <1>3. Judged(q)'
    BY DEF Sound, Judged, Same
  <1>4. Offloaded(q)'
    BY DEF Sound, Offloaded, Same
  <1>5. Justified(q)'
    BY DEF Sound, Justified, Same
  <1> QED
    BY <1>1, <1>2, <1>3, <1>4, <1>5 DEF Sound

(* So an action of request r has to be looked at for r alone.              *)
LEMMA OneRequest ==
  ASSUME NEW r \in Requests, IInv, Shape', \A q \in Requests \ {r} : Same(q),
         UNCHANGED <<parser, live, cleaned>>, Sound(r)'
  PROVE  IInv'
  <1>1. ASSUME NEW q \in Requests PROVE Sound(q)'
    BY <1>1, SameSound DEF IInv
  <1> QED
    BY <1>1 DEF IInv

LEMMA InitIInv == Init => IInv
  <1> SUFFICES ASSUME Init PROVE IInv
    OBVIOUS
  <1> USE ConstantsAssumption DEF Init
  <1>1. Shape
    <2>1. \A r \in Requests : <<>> \in Seq(Nat)
      OBVIOUS
    <2>2. answers \in [Requests -> Seq(Nat)] /\ alerted \in [Requests -> SUBSET Channels]
      BY <2>1
    <2>3. reloads \in 0..MaxReloads /\ faults \in 0..MaxFaults
      OBVIOUS
    <2> QED
      BY <2>2, <2>3 DEF Shape, Compile
  <1>2. ASSUME NEW r \in Requests PROVE Sound(r)
    BY <1>2 DEF Sound, Course, Threads, Judged, Offloaded, Justified, NoEffect, Unlogged,
       Scripted, Answered
  <1> QED
    BY <1>1, <1>2 DEF IInv

(* Reloads, expiry and the cleanups.                                       *)
Environment ==
  \/ \E o \in OptionSets : UpdateOptions(o)
  \/ Expire \/ Cleanup \/ \E r \in Requests : CleanupElsewhere(r)

LEMMA EnvironmentIInv == IInv /\ Environment => IInv'
  <1> SUFFICES ASSUME IInv, Environment PROVE IInv'
    OBVIOUS
  <1>1. CASE \E o \in OptionSets : UpdateOptions(o)
    <2>1. Shape'
      BY <1>1, ConstantsAssumption DEF IInv, Shape, UpdateOptions, Compile
    <2>2. \A q \in Requests : Same(q)
      BY <1>1 DEF UpdateOptions, Same
    <2>3. UNCHANGED <<parser, live, cleaned>>
      BY <1>1 DEF UpdateOptions
    <2> QED
      BY <2>1, <2>2, <2>3, SameSound DEF IInv
  <1>2. CASE Expire
    <2>1. Shape'
      BY <1>2 DEF IInv, Shape, Expire
    <2>2. \A q \in Requests : Same(q)
      BY <1>2 DEF Expire, Same
    <2>3. parser' = parser /\ (live' => live) /\ cleaned' = cleaned
      BY <1>2 DEF Expire
    <2> QED
      BY <2>1, <2>2, <2>3, SameSound DEF IInv
  <1>3. CASE Cleanup
    <2>1. Shape'
      BY <1>3 DEF IInv, Shape, Cleanup
    <2>2. ASSUME NEW q \in Requests PROVE Sound(q)'
      <3> USE <1>3 DEF IInv, Sound
      <3>1. Course(q)'
        BY DEF Cleanup, Course, NoEffect, Refusal, Reply
      <3>2. Threads(q)'
        BY DEF Cleanup, Threads
      <3>3. Judged(q)'
        BY DEF Cleanup, Judged
      <3>4. Offloaded(q)'
        <4>1. PICK found \in SUBSET {r \in payloads : Refers(r) /\ event[r].kind # "moved"} :
                payloads' = payloads \ found
          BY DEF Cleanup
        <4>2. q \in found => q \in emitted
          BY <4>1 DEF Refers
        <4> QED
          BY <4>1, <4>2 DEF Cleanup, Offloaded, Course, NoEffect, Unlogged
      <3>5. Justified(q)'
        BY DEF Cleanup, Justified
      <3> QED
        BY <3>1, <3>2, <3>3, <3>4, <3>5
    <2> QED
      BY <2>1, <2>2 DEF IInv
  <1>4. ASSUME NEW r \in Requests, CleanupElsewhere(r) PROVE IInv'
    <2>1. Shape'
      BY <1>4 DEF IInv, Shape, CleanupElsewhere
    <2>2. (\A q \in Requests \ {r} : Same(q)) /\ UNCHANGED <<parser, live, cleaned>>
      BY <1>4 DEF IInv, Shape, Same, CleanupElsewhere
    <2>3. Course(r)'
      BY <1>4 DEF IInv, Sound, Course, NoEffect, Refusal, Reply, CleanupElsewhere
    <2>4. Threads(r)'
      BY <1>4 DEF IInv, Sound, Threads, CleanupElsewhere
    <2>5. Judged(r)'
      BY <1>4 DEF IInv, Sound, Judged, CleanupElsewhere
    <2>6. Offloaded(r)'
      BY <1>4 DEF IInv, Sound, Course, Offloaded, NoEffect, Refers, CleanupElsewhere
    <2>7. Justified(r)'
      BY <1>4 DEF IInv, Sound, Justified, CleanupElsewhere
    <2> QED
      BY <2>1, <2>2, <2>3, <2>4, <2>5, <2>6, <2>7, OneRequest DEF Sound
  <1> QED
    BY <1>1, <1>2, <1>3, <1>4 DEF Environment

(* From the arrival to the acceptance.                                     *)
LEMMA ReadIInv ==
  ASSUME NEW r \in Requests, IInv,
         IngestPasses(r) \/ StreamBegins(r) \/ StreamEnds(r) \/ StreamFails(r)
         \/ ClientLeaves(r) \/ Parse(r) \/ Validate(r)
  PROVE  IInv'
  <1>1. CASE IngestPasses(r)
    <2>1. Shape'
      BY <1>1 DEF IInv, Shape, IngestPasses
    <2>2. (\A q \in Requests \ {r} : Same(q)) /\ UNCHANGED <<parser, live, cleaned>>
      BY <1>1 DEF IInv, Shape, Same, IngestPasses
    <2>3. Course(r)'
      BY <1>1 DEF IInv, Shape, Sound, Course, NoEffect, Refusal, Reply, IngestPasses
    <2>4. Threads(r)'
      BY <1>1 DEF IInv, Shape, Sound, Course, Threads, IngestPasses
    <2>5. Judged(r)'
      BY <1>1 DEF IInv, Shape, Sound, Course, Judged, IngestPasses
    <2>6. Offloaded(r)'
      BY <1>1 DEF IInv, Shape, Sound, Course, Offloaded, IngestPasses
    <2>7. Justified(r)'
      BY <1>1 DEF IInv, Shape, Sound, Course, Justified, NoEffect, IngestPasses
    <2> QED
      BY <2>1, <2>2, <2>3, <2>4, <2>5, <2>6, <2>7, OneRequest DEF Sound
  <1>2. CASE StreamBegins(r)
    <2>1. Shape'
      BY <1>2 DEF IInv, Shape, StreamBegins
    <2>2. (\A q \in Requests \ {r} : Same(q)) /\ UNCHANGED <<parser, live, cleaned>>
      BY <1>2 DEF IInv, Shape, Same, StreamBegins
    <2>3. Course(r)'
      BY <1>2 DEF IInv, Shape, Sound, Course, NoEffect, Refusal, Reply, StreamBegins
    <2>4. Threads(r)'
      BY <1>2 DEF IInv, Shape, Sound, Course, Threads, StreamBegins
    <2>5. Judged(r)'
      BY <1>2 DEF IInv, Shape, Sound, Course, Judged, StreamBegins
    <2>6. Offloaded(r)'
      BY <1>2 DEF IInv, Shape, Sound, Course, Offloaded, StreamBegins
    <2>7. Justified(r)'
      BY <1>2 DEF IInv, Shape, Sound, Course, Justified, NoEffect, StreamBegins
    <2> QED
      BY <2>1, <2>2, <2>3, <2>4, <2>5, <2>6, <2>7, OneRequest DEF Sound
  <1>3. CASE StreamEnds(r)
    <2>1. Shape'
      <3>1. StreamVerdict(opts[r], req[r].sender) \in BOOLEAN
        BY DEF StreamVerdict, Sig!MacMatches
      <3>2. opts[r] \in OptionSets
        BY <1>3 DEF IInv, Sound, Course, StreamEnds
      <3>3. verdict'[r] \in Judgements \cup {Null}
        BY <1>3, <3>1, <3>2 DEF IInv, Shape, StreamEnds, Judgements
      <3> QED
        BY <1>3, <3>3 DEF IInv, Shape, StreamEnds
    <2>2. (\A q \in Requests \ {r} : Same(q)) /\ UNCHANGED <<parser, live, cleaned>>
      BY <1>3 DEF IInv, Shape, Same, StreamEnds, StreamVerdict
    <2>3. Course(r)'
      BY <1>3 DEF IInv, Shape, Sound, Course, NoEffect, Refusal, Reply, StreamEnds
    <2>4. Threads(r)'
      BY <1>3 DEF IInv, Shape, Sound, Course, Threads, StreamEnds, StreamVerdict
    <2>5. Judged(r)'
      BY <1>3 DEF IInv, Shape, Sound, Course, Judged, StreamEnds, StreamVerdict
    <2>6. Offloaded(r)'
      BY <1>3 DEF IInv, Shape, Sound, Course, Offloaded, StreamEnds, StreamVerdict
    <2>7. Justified(r)'
      BY <1>3 DEF IInv, Shape, Sound, Course, Justified, NoEffect, StreamEnds, StreamVerdict
    <2> QED
      BY <2>1, <2>2, <2>3, <2>4, <2>5, <2>6, <2>7, OneRequest DEF Sound
  <1>4. CASE StreamFails(r)
    <2>1. Shape'
      BY <1>4, ConstantsAssumption DEF IInv, Shape, StreamFails
    <2>2. (\A q \in Requests \ {r} : Same(q)) /\ UNCHANGED <<parser, live, cleaned>>
      BY <1>4 DEF IInv, Shape, Same, StreamFails
    <2>3. Course(r)'
      BY <1>4, ConstantsAssumption DEF IInv, Shape, Sound, Course, NoEffect, Refusal, Reply,
         StreamFails
    <2>4. Threads(r)'
      BY <1>4, ConstantsAssumption DEF IInv, Shape, Sound, Course, Threads, StreamFails
    <2>5. Judged(r)'
      BY <1>4, ConstantsAssumption DEF IInv, Shape, Sound, Course, Judged, StreamFails
    <2>6. Offloaded(r)'
      BY <1>4, ConstantsAssumption DEF IInv, Shape, Sound, Course, Offloaded, StreamFails
    <2>7. Justified(r)'
      BY <1>4, ConstantsAssumption DEF IInv, Shape, Sound, Course, Justified, NoEffect,
         StreamFails
    <2> QED
      BY <2>1, <2>2, <2>3, <2>4, <2>5, <2>6, <2>7, OneRequest DEF Sound
  <1>5. CASE ClientLeaves(r)
    <2>1. Shape'
      BY <1>5 DEF IInv, Shape, ClientLeaves
    <2>2. (\A q \in Requests \ {r} : Same(q)) /\ UNCHANGED <<parser, live, cleaned>>
      BY <1>5 DEF IInv, Shape, Same, ClientLeaves
    <2>3. Course(r)'
      BY <1>5 DEF IInv, Shape, Sound, Course, NoEffect, Refusal, Reply, ClientLeaves
    <2>4. Threads(r)'
      BY <1>5 DEF IInv, Shape, Sound, Course, Threads, ClientLeaves
    <2>5. Judged(r)'
      BY <1>5 DEF IInv, Shape, Sound, Course, Judged, ClientLeaves
    <2>6. Offloaded(r)'
      BY <1>5 DEF IInv, Shape, Sound, Course, Offloaded, ClientLeaves
    <2>7. Justified(r)'
      BY <1>5 DEF IInv, Shape, Sound, Course, Justified, NoEffect, ClientLeaves
    <2> QED
      BY <2>1, <2>2, <2>3, <2>4, <2>5, <2>6, <2>7, OneRequest DEF Sound
  <1>6. CASE Parse(r)
    <2>1. Shape'
      BY <1>6 DEF IInv, Shape, Parse
    <2>2. (\A q \in Requests \ {r} : Same(q)) /\ UNCHANGED <<parser, live, cleaned>>
      BY <1>6 DEF IInv, Shape, Same, Parse
    <2>3. Course(r)'
      BY <1>6 DEF IInv, Shape, Sound, Course, NoEffect, Refusal, Reply, Parse
    <2>4. Threads(r)'
      BY <1>6 DEF IInv, Shape, Sound, Course, Threads, Parse
    <2>5. Judged(r)'
      BY <1>6 DEF IInv, Shape, Sound, Course, Judged, Parse
    <2>6. Offloaded(r)'
      BY <1>6 DEF IInv, Shape, Sound, Course, Offloaded, Parse
    <2>7. Justified(r)'
      BY <1>6 DEF IInv, Shape, Sound, Course, Justified, NoEffect, Parse
    <2> QED
      BY <2>1, <2>2, <2>3, <2>4, <2>5, <2>6, <2>7, OneRequest DEF Sound
  <1>7. CASE Validate(r)
    <2>1. Shape'
      BY <1>7 DEF IInv, Shape, Validate
    <2>2. (\A q \in Requests \ {r} : Same(q)) /\ UNCHANGED <<parser, live, cleaned>>
      BY <1>7 DEF IInv, Shape, Same, Validate
    <2>3. Course(r)'
      BY <1>7 DEF IInv, Shape, Sound, Course, NoEffect, Refusal, Reply, Validate
    <2>4. Threads(r)'
      BY <1>7 DEF IInv, Shape, Sound, Course, Threads, Validate
    <2>5. Judged(r)'
      BY <1>7 DEF IInv, Shape, Sound, Course, Judged, Validate
    <2>6. Offloaded(r)'
      BY <1>7 DEF IInv, Shape, Sound, Course, Offloaded, Validate
    <2>7. Justified(r)'
      BY <1>7 DEF IInv, Shape, Sound, Course, Justified, NoEffect, Validate
    <2> QED
      BY <2>1, <2>2, <2>3, <2>4, <2>5, <2>6, <2>7, OneRequest DEF Sound
  <1> QED
    BY <1>1, <1>2, <1>3, <1>4, <1>5, <1>6, <1>7

(* The worker of the script.                                               *)
LEMMA ScriptIInv ==
  ASSUME NEW r \in Requests, IInv,
         SkipScript(r) \/ StartWorker(r) \/ ScriptFails(r) \/ WorkerExits(r) \/
         WorkerStops(r)
  PROVE  IInv'
  <1>1. CASE SkipScript(r)
    <2>1. Shape'
      BY <1>1 DEF IInv, Shape, SkipScript
    <2>2. (\A q \in Requests \ {r} : Same(q)) /\ UNCHANGED <<parser, live, cleaned>>
      BY <1>1 DEF IInv, Shape, Same, SkipScript
    <2>3. Course(r)'
      BY <1>1 DEF IInv, Shape, Sound, Course, NoEffect, Refusal, Reply, SkipScript
    <2>4. Threads(r)'
      BY <1>1 DEF IInv, Shape, Sound, Course, Threads, SkipScript
    <2>5. Judged(r)'
      BY <1>1 DEF IInv, Shape, Sound, Course, Judged, SkipScript
    <2>6. Offloaded(r)'
      BY <1>1 DEF IInv, Shape, Sound, Course, Offloaded, SkipScript
    <2>7. Justified(r)'
      BY <1>1 DEF IInv, Shape, Sound, Course, Justified, NoEffect, SkipScript
    <2> QED
      BY <2>1, <2>2, <2>3, <2>4, <2>5, <2>6, <2>7, OneRequest DEF Sound
  <1>2. CASE StartWorker(r)
    <2>1. Shape'
      BY <1>2 DEF IInv, Shape, StartWorker
    <2>2. (\A q \in Requests \ {r} : Same(q)) /\ UNCHANGED <<parser, live, cleaned>>
      BY <1>2 DEF IInv, Shape, Same, StartWorker
    <2>3. Course(r)'
      BY <1>2 DEF IInv, Shape, Sound, Course, NoEffect, Refusal, Reply, StartWorker
    <2>4. Threads(r)'
      BY <1>2 DEF IInv, Shape, Sound, Course, Threads, StartWorker
    <2>5. Judged(r)'
      BY <1>2 DEF IInv, Shape, Sound, Course, Judged, StartWorker
    <2>6. Offloaded(r)'
      BY <1>2 DEF IInv, Shape, Sound, Course, Offloaded, StartWorker
    <2>7. Justified(r)'
      BY <1>2 DEF IInv, Shape, Sound, Course, Justified, NoEffect, StartWorker
    <2> QED
      BY <2>1, <2>2, <2>3, <2>4, <2>5, <2>6, <2>7, OneRequest DEF Sound
  <1>3. CASE ScriptFails(r)
    <2>1. Shape'
      BY <1>3 DEF IInv, Shape, ScriptFails
    <2>2. (\A q \in Requests \ {r} : Same(q)) /\ UNCHANGED <<parser, live, cleaned>>
      BY <1>3 DEF IInv, Shape, Same, ScriptFails
    <2>3. Course(r)'
      BY <1>3 DEF IInv, Shape, Sound, Course, NoEffect, Refusal, Reply, ScriptFails
    <2>4. Threads(r)'
      BY <1>3 DEF IInv, Shape, Sound, Course, Threads, ScriptFails
    <2>5. Judged(r)'
      BY <1>3 DEF IInv, Shape, Sound, Course, Judged, ScriptFails
    <2>6. Offloaded(r)'
      BY <1>3 DEF IInv, Shape, Sound, Course, Offloaded, ScriptFails
    <2>7. Justified(r)'
      BY <1>3 DEF IInv, Shape, Sound, Course, Justified, NoEffect, ScriptFails
    <2> QED
      BY <2>1, <2>2, <2>3, <2>4, <2>5, <2>6, <2>7, OneRequest DEF Sound
  <1>4. CASE WorkerExits(r)
    <2>1. Shape'
      BY <1>4 DEF IInv, Shape, WorkerExits
    <2>2. (\A q \in Requests \ {r} : Same(q)) /\ UNCHANGED <<parser, live, cleaned>>
      BY <1>4 DEF IInv, Shape, Same, WorkerExits
    <2>3. Course(r)'
      BY <1>4 DEF IInv, Shape, Sound, Course, NoEffect, Refusal, Reply, WorkerExits
    <2>4. Threads(r)'
      BY <1>4 DEF IInv, Shape, Sound, Course, Threads, WorkerExits
    <2>5. Judged(r)'
      BY <1>4 DEF IInv, Shape, Sound, Course, Judged, WorkerExits
    <2>6. Offloaded(r)'
      BY <1>4 DEF IInv, Shape, Sound, Course, Offloaded, WorkerExits
    <2>7. Justified(r)'
      BY <1>4 DEF IInv, Shape, Sound, Course, Justified, NoEffect, WorkerExits
    <2> QED
      BY <2>1, <2>2, <2>3, <2>4, <2>5, <2>6, <2>7, OneRequest DEF Sound
  <1>5. CASE WorkerStops(r)
    <2>1. Shape'
      BY <1>5 DEF IInv, Shape, WorkerStops
    <2>2. (\A q \in Requests \ {r} : Same(q)) /\ UNCHANGED <<parser, live, cleaned>>
      BY <1>5 DEF IInv, Shape, Same, WorkerStops
    <2>3. Course(r)'
      BY <1>5 DEF IInv, Shape, Sound, Course, NoEffect, Refusal, Reply, WorkerStops
    <2>4. Threads(r)'
      BY <1>5 DEF IInv, Shape, Sound, Course, Threads, WorkerStops
    <2>5. Judged(r)'
      BY <1>5 DEF IInv, Shape, Sound, Course, Judged, WorkerStops
    <2>6. Offloaded(r)'
      BY <1>5 DEF IInv, Shape, Sound, Course, Offloaded, WorkerStops
    <2>7. Justified(r)'
      BY <1>5 DEF IInv, Shape, Sound, Course, Justified, NoEffect, WorkerStops
    <2> QED
      BY <2>1, <2>2, <2>3, <2>4, <2>5, <2>6, <2>7, OneRequest DEF Sound
  <1> QED
    BY <1>1, <1>2, <1>3, <1>4, <1>5

(* The answer and the background tasks.                                    *)
LEMMA ReplyIInv ==
  ASSUME NEW r \in Requests, IInv,
         SendFails(r) \/ Respond(r) \/ PushData(r) \/ PushFails(r) \/
         LatePush(r) \/ Forward(r) \/ Abort(r)
  PROVE  IInv'
  <1>1. CASE SendFails(r)
    <2>1. Shape'
      BY <1>1 DEF IInv, Shape, SendFails
    <2>2. (\A q \in Requests \ {r} : Same(q)) /\ UNCHANGED <<parser, live, cleaned>>
      BY <1>1 DEF IInv, Shape, Same, SendFails
    <2>3. Course(r)'
      BY <1>1 DEF IInv, Shape, Sound, Course, NoEffect, Refusal, Reply, SendFails
    <2>4. Threads(r)'
      BY <1>1 DEF IInv, Shape, Sound, Course, Threads, SendFails
    <2>5. Judged(r)'
      BY <1>1 DEF IInv, Shape, Sound, Course, Judged, SendFails
    <2>6. Offloaded(r)'
      BY <1>1 DEF IInv, Shape, Sound, Course, Offloaded, SendFails
    <2>7. Justified(r)'
      BY <1>1 DEF IInv, Shape, Sound, Course, Justified, NoEffect, SendFails
    <2> QED
      BY <2>1, <2>2, <2>3, <2>4, <2>5, <2>6, <2>7, OneRequest DEF Sound
  <1>2. CASE Respond(r)
    <2>1. Shape'
      <3>0. event[r] \in Events
        BY <1>2 DEF IInv, Sound, Course, Respond
      <3>1. event[r].status \in Nat
        BY <3>0 DEF Events, Statuses
      <3>2. answers' \in [Requests -> Seq(Nat)]
        BY <1>2, <3>1 DEF IInv, Shape, Respond
      <3>3. stage' \in [Requests -> Stages]
        BY <1>2 DEF IInv, Shape, Respond, Background
      <3> QED
        BY <1>2, <3>2, <3>3 DEF IInv, Shape, Respond
    <2>2. (\A q \in Requests \ {r} : Same(q)) /\ UNCHANGED <<parser, live, cleaned>>
      BY <1>2 DEF IInv, Shape, Same, Respond, Logs, Background
    <2>3. Course(r)'
      <3>1. stage'[r] \in Answered /\ event[r] \in Events /\ opts[r] \in OptionSets
        BY <1>2 DEF IInv, Shape, Sound, Course, Respond, Background
      <3>2. answers'[r] = Append(<<>>, event[r].status)
        BY <1>2 DEF IInv, Shape, Sound, Course, Respond
      <3>4. answers'[r] = <<event[r].status>> /\ UNCHANGED <<req, event, opts>>
        BY <1>2, <3>2 DEF Respond
      <3>3. req[r] \in [size: Sizes, sender: Senders]
        BY <1>2 DEF IInv, Shape, Sound, Course, Respond
      <3> QED
        BY <1>2, <3>1, <3>3, <3>4 DEF Course, Reply, Respond
    <2>4. Threads(r)'
      BY <1>2 DEF IInv, Shape, Sound, Course, Threads, Respond, Logs, Background
    <2>5. Judged(r)'
      BY <1>2 DEF IInv, Shape, Sound, Course, Judged, Respond, Logs, Background
    <2>6. Offloaded(r)'
      BY <1>2 DEF IInv, Shape, Sound, Course, Offloaded, Respond, Logs, Background
    <2>7. Justified(r)'
      BY <1>2 DEF IInv, Shape, Sound, Course, Justified, NoEffect, Respond, Logs, Background
    <2> QED
      BY <2>1, <2>2, <2>3, <2>4, <2>5, <2>6, <2>7, OneRequest DEF Sound
  <1>3. CASE PushData(r)
    <2>1. Shape'
      BY <1>3 DEF IInv, Shape, PushData, Background
    <2>2. (\A q \in Requests \ {r} : Same(q)) /\ UNCHANGED <<parser, live, cleaned>>
      BY <1>3 DEF IInv, Shape, Same, PushData, Background
    <2>3. Course(r)'
      BY <1>3 DEF IInv, Shape, Sound, Course, NoEffect, Refusal, Reply, PushData, Background
    <2>4. Threads(r)'
      BY <1>3 DEF IInv, Shape, Sound, Course, Threads, PushData, Background
    <2>5. Judged(r)'
      BY <1>3 DEF IInv, Shape, Sound, Course, Judged, PushData, Background
    <2>6. Offloaded(r)'
      BY <1>3 DEF IInv, Shape, Sound, Course, Offloaded, PushData, Background
    <2>7. Justified(r)'
      BY <1>3 DEF IInv, Shape, Sound, Course, Justified, NoEffect, PushData, Background
    <2> QED
      BY <2>1, <2>2, <2>3, <2>4, <2>5, <2>6, <2>7, OneRequest DEF Sound
  <1>4. CASE PushFails(r)
    <2>1. Shape'
      BY <1>4, ConstantsAssumption DEF IInv, Shape, PushFails
    <2>2. (\A q \in Requests \ {r} : Same(q)) /\ UNCHANGED <<parser, live, cleaned>>
      BY <1>4 DEF IInv, Shape, Same, PushFails
    <2>3. Course(r)'
      BY <1>4, ConstantsAssumption DEF IInv, Shape, Sound, Course, NoEffect, Refusal, Reply,
         PushFails
    <2>4. Threads(r)'
      BY <1>4, ConstantsAssumption DEF IInv, Shape, Sound, Course, Threads, PushFails
    <2>5. Judged(r)'
      BY <1>4, ConstantsAssumption DEF IInv, Shape, Sound, Course, Judged, PushFails
    <2>6. Offloaded(r)'
      BY <1>4, ConstantsAssumption DEF IInv, Shape, Sound, Course, Offloaded, PushFails
    <2>7. Justified(r)'
      BY <1>4, ConstantsAssumption DEF IInv, Shape, Sound, Course, Justified, NoEffect,
         PushFails
    <2> QED
      BY <2>1, <2>2, <2>3, <2>4, <2>5, <2>6, <2>7, OneRequest DEF Sound
  <1>5. CASE LatePush(r)
    <2>1. Shape'
      BY <1>5 DEF IInv, Shape, LatePush
    <2>2. (\A q \in Requests \ {r} : Same(q)) /\ UNCHANGED <<parser, live, cleaned>>
      BY <1>5 DEF IInv, Shape, Same, LatePush
    <2>3. Course(r)'
      BY <1>5 DEF IInv, Shape, Sound, Course, NoEffect, Refusal, Reply, LatePush
    <2>4. Threads(r)'
      BY <1>5 DEF IInv, Shape, Sound, Course, Threads, LatePush
    <2>5. Judged(r)'
      BY <1>5 DEF IInv, Shape, Sound, Course, Judged, LatePush
    <2>6. Offloaded(r)'
      BY <1>5 DEF IInv, Shape, Sound, Course, Offloaded, LatePush
    <2>7. Justified(r)'
      BY <1>5 DEF IInv, Shape, Sound, Course, Justified, NoEffect, LatePush
    <2> QED
      BY <2>1, <2>2, <2>3, <2>4, <2>5, <2>6, <2>7, OneRequest DEF Sound
  <1>6. CASE Forward(r)
    <2>1. Shape'
      BY <1>6 DEF IInv, Shape, Forward
    <2>2. (\A q \in Requests \ {r} : Same(q)) /\ UNCHANGED <<parser, live, cleaned>>
      BY <1>6 DEF IInv, Shape, Same, Forward
    <2>3. Course(r)'
      BY <1>6 DEF IInv, Shape, Sound, Course, NoEffect, Refusal, Reply, Forward
    <2>4. Threads(r)'
      BY <1>6 DEF IInv, Shape, Sound, Course, Threads, Forward
    <2>5. Judged(r)'
      BY <1>6 DEF IInv, Shape, Sound, Course, Judged, Forward
    <2>6. Offloaded(r)'
      BY <1>6 DEF IInv, Shape, Sound, Course, Offloaded, Forward
    <2>7. Justified(r)'
      BY <1>6 DEF IInv, Shape, Sound, Course, Justified, NoEffect, Forward
    <2> QED
      BY <2>1, <2>2, <2>3, <2>4, <2>5, <2>6, <2>7, OneRequest DEF Sound
  <1>7. CASE Abort(r)
    <2>1. Shape'
      BY <1>7, ConstantsAssumption DEF IInv, Shape, Abort
    <2>2. (\A q \in Requests \ {r} : Same(q)) /\ UNCHANGED <<parser, live, cleaned>>
      BY <1>7 DEF IInv, Shape, Same, Abort
    <2>3. Course(r)'
      BY <1>7, ConstantsAssumption DEF IInv, Shape, Sound, Course, NoEffect, Refusal, Reply,
         Abort
    <2>4. Threads(r)'
      BY <1>7, ConstantsAssumption DEF IInv, Shape, Sound, Course, Threads, Abort
    <2>5. Judged(r)'
      BY <1>7, ConstantsAssumption DEF IInv, Shape, Sound, Course, Judged, Abort
    <2>6. Offloaded(r)'
      BY <1>7, ConstantsAssumption DEF IInv, Shape, Sound, Course, Offloaded, Abort
    <2>7. Justified(r)'
      BY <1>7, ConstantsAssumption DEF IInv, Shape, Sound, Course, Justified, NoEffect,
         Abort
    <2> QED
      BY <2>1, <2>2, <2>3, <2>4, <2>5, <2>6, <2>7, OneRequest DEF Sound
  <1> QED
    BY <1>1, <1>2, <1>3, <1>4, <1>5, <1>6, <1>7

(* The arrival, with a body of some size and the headers of some sender.   *)
LEMMA ArriveIInv ==
  ASSUME NEW r \in Requests, NEW size \in Sizes, NEW sender \in Senders, IInv,
         Arrive(r, size, sender)
  PROVE  IInv'
  <1>1. CASE Arrive(r, size, sender)
    <2>1. Shape'
      BY <1>1 DEF IInv, Shape, Arrive
    <2>2. (\A q \in Requests \ {r} : Same(q)) /\ UNCHANGED <<parser, live, cleaned>>
      BY <1>1 DEF IInv, Shape, Same, Arrive
    <2>3. Course(r)'
      BY <1>1 DEF IInv, Shape, Sound, Course, NoEffect, Refusal, Reply, Arrive
    <2>4. Threads(r)'
      BY <1>1 DEF IInv, Shape, Sound, Course, Threads, Arrive
    <2>5. Judged(r)'
      BY <1>1 DEF IInv, Shape, Sound, Course, Judged, Arrive
    <2>6. Offloaded(r)'
      BY <1>1 DEF IInv, Shape, Sound, Course, Offloaded, Arrive
    <2>7. Justified(r)'
      BY <1>1 DEF IInv, Shape, Sound, Course, Justified, NoEffect, Arrive
    <2> QED
      BY <2>1, <2>2, <2>3, <2>4, <2>5, <2>6, <2>7, OneRequest DEF Sound
  <1> QED
    BY <1>1

(* A refusal on the way.                                                   *)
LEMMA RefuseIInv ==
  ASSUME NEW r \in Requests, IInv, NEW from \in {"ingest", "parsing", "parsed"},
         NEW status \in Nat, status >= 400,
         Refuse(r, from, status)
  PROVE  IInv'
  <1>1. CASE Refuse(r, from, status)
    <2>1. Shape'
      BY <1>1 DEF IInv, Shape, Refuse
    <2>2. (\A q \in Requests \ {r} : Same(q)) /\ UNCHANGED <<parser, live, cleaned>>
      BY <1>1 DEF IInv, Shape, Same, Refuse
    <2>3. Course(r)'
      BY <1>1 DEF IInv, Shape, Sound, Course, NoEffect, Refusal, Reply, Refuse
    <2>4. Threads(r)'
      BY <1>1 DEF IInv, Shape, Sound, Course, Threads, Refuse
    <2>5. Judged(r)'
      BY <1>1 DEF IInv, Shape, Sound, Course, Judged, Refuse
    <2>6. Offloaded(r)'
      BY <1>1 DEF IInv, Shape, Sound, Course, Offloaded, Refuse
    <2>7. Justified(r)'
      BY <1>1 DEF IInv, Shape, Sound, Course, Justified, NoEffect, Refuse
    <2> QED
      BY <2>1, <2>2, <2>3, <2>4, <2>5, <2>6, <2>7, OneRequest DEF Sound
  <1> QED
    BY <1>1

(* What SignatureOf says about a request that is accepted.                 *)
LEMMA SignatureOfRight ==
  ASSUME NEW r \in Requests, IInv, stage[r] = "preparing", ~Throws(r)
  PROVE  LET s == SignatureOf(r) IN
         /\ s \in Judgements \cup {Null}
         /\ HasSignature(opts[r]) <=> s # Null
         /\ s # Null => s.under # Null
         /\ s # Null /\ s.valid => Genuine(s.under, req[r].sender)
         /\ s # Null /\ ~s.valid =>
              \/ ~Genuine(s.under, req[r].sender)
              \/ Sig!ContextError(s.under, req[r].sender)
              \/ IF req[r].size = "streamed" THEN verdict[r] = Null ELSE ~parser
  <1> DEFINE o    == opts[r]
             sender == req[r].sender
             body == HeldBody(r)
             fresh == [valid |-> Sig!VerifySignature(o, sender, body), under |-> o]
  <1>1. o \in OptionSets
    BY DEF IInv, Sound, Course
  <1>2. verdict[r] \in Judgements \cup {Null}
    BY DEF IInv, Shape
  <1>3. CASE ~HasSignature(o)
    BY <1>3 DEF SignatureOf
  <1>4. CASE HasSignature(o) /\ verdict[r] # Null
    <2>1. SignatureOf(r) = verdict[r]
      BY <1>4 DEF SignatureOf
    <2>2. /\ HasSignature(verdict[r].under)
          /\ Sig!StreamVerifierStarts(verdict[r].under, sender)
          /\ verdict[r].valid = Sig!MacMatches(verdict[r].under, sender, "raw")
      BY <1>4 DEF IInv, Sound, Judged
    <2>3. verdict[r].under # Null
      BY <1>2, <1>4, ConstantsAssumption DEF Judgements
    <2> QED
      BY <1>2, <1>4, <2>1, <2>2, <2>3 DEF Genuine, Sig!StreamVerifierStarts,
         Sig!ComputesMac, Sig!MacMatches, Sig!ContextError, Sig!OutOfTolerance
  <1>5. CASE HasSignature(o) /\ verdict[r] = Null
    <2>1. SignatureOf(r) = fresh
      BY <1>5 DEF SignatureOf
    <2>2. Sig!VerifySignature(o, sender, body) \in BOOLEAN
      BY DEF Sig!VerifySignature, Sig!ComputesMac
    <2>3. fresh \in Judgements
      BY <1>1, <2>2 DEF Judgements
    <2>4. /\ fresh # Null /\ fresh.under = o /\ o # Null
          /\ fresh.valid = Sig!VerifySignature(o, sender, body)
      BY <1>1, <2>3, ConstantsAssumption
    <2>5. Sig!VerifySignature(o, sender, body) => Genuine(o, sender)
      BY DEF Genuine, Sig!VerifySignature, Sig!ComputesMac, Sig!MacMatches,
         Sig!ContextError, Sig!OutOfTolerance
    <2>6. ~Sig!VerifySignature(o, sender, body) =>
            \/ ~Genuine(o, sender) \/ Sig!ContextError(o, sender)
            \/ req[r].size = "streamed" \/ ~parser
      <3>1. Genuine(o, sender) /\ ~Sig!ContextError(o, sender) => Sig!ComputesMac(o, sender)
        BY <1>5 DEF Genuine, HasSignature, Sig!ComputesMac, Sig!OutOfTolerance
      <3>2. ~Sig!VerifySignatureThrows(o, sender, body)
        BY <1>5 DEF Throws
      <3>3. Sig!ComputesMac(o, sender) => body # "nothing"
        BY <3>2 DEF Sig!VerifySignatureThrows
      <3>4. req[r].size # "streamed" /\ parser /\ body # "nothing" => body = "raw"
        BY DEF HeldBody
      <3> HIDE DEF body
      <3> QED
        BY <3>1, <3>3, <3>4 DEF Genuine, Sig!VerifySignature, Sig!MacMatches
    <2> HIDE DEF fresh
    <2> QED
      BY <1>5, <2>1, <2>3, <2>4, <2>5, <2>6
  <1> QED
    BY <1>3, <1>4, <1>5

(* The event is built, with the payload there or not.                      *)
LEMMA PrepareIInv ==
  ASSUME NEW r \in Requests, IInv, NEW forced \in {200, 503},
         Prepare(r, forced) \/ PrepareTruncates(r, forced)
  PROVE  IInv'
  <1> DEFINE s == SignatureOf(r)
  <1>1. PICK offloaded \in BOOLEAN : BuildEvent(r, offloaded, forced) /\
          (offloaded /\ req[r].size = "chunked" => r \in payloads')
    BY DEF Prepare, PrepareTruncates
  <1>2. /\ stage[r] = "preparing" /\ ~Throws(r) /\ To(r, "transforming")
        /\ payloads' \in {payloads, payloads \cup {r}}
        /\ r \in payloads' => r \in payloads \/ req[r].size = "chunked"
        /\ faults' = faults \/ (faults < MaxFaults /\ faults' = faults + 1)
        /\ UNCHANGED <<req, opts, verdict, worker, env, effects, answers, wasLive>>
    BY DEF Prepare, PrepareTruncates
  <1>3. s \in Judgements \cup {Null}
    BY <1>2, SignatureOfRight
  <1>15. /\ HasSignature(opts[r]) <=> s # Null
         /\ s # Null => s.under # Null
         /\ s # Null /\ s.valid => Genuine(s.under, req[r].sender)
         /\ s # Null /\ ~s.valid =>
              \/ ~Genuine(s.under, req[r].sender)
              \/ Sig!ContextError(s.under, req[r].sender)
              \/ IF req[r].size = "streamed" THEN verdict[r] = Null ELSE ~parser
    BY <1>2, SignatureOfRight
  <1> DEFINE e == [body |-> LoggedBody(r, offloaded), signature |-> s,
                   status |-> IF s # Null /\ ~s.valid THEN 401 ELSE forced,
                   kind |-> "plain"]
  <1>4. event' = [event EXCEPT ![r] = e]
    BY <1>1 DEF BuildEvent
  <1>5. e \in Events
    BY <1>3 DEF Events, LoggedBody, Statuses
  <1>6. event'[r] = e /\ e # Null
    BY <1>4, <1>5, ConstantsAssumption DEF IInv, Shape
  <1>7. /\ e.body = LoggedBody(r, offloaded) /\ e.signature = s /\ e.kind = "plain"
        /\ s # Null /\ ~s.valid => e.status = 401
    OBVIOUS
  <1> HIDE DEF e, s
  <1>8. Shape'
    BY <1>2, <1>4, <1>5, ConstantsAssumption DEF IInv, Shape
  <1>9. (\A q \in Requests \ {r} : Same(q)) /\ UNCHANGED <<parser, live, cleaned>>
    BY <1>2, <1>4 DEF IInv, Shape, Same
  <1>10. Course(r)'
    BY <1>2, <1>5, <1>6, <1>7 DEF IInv, Shape, Sound, Course, NoEffect
  <1>11. Threads(r)'
    BY <1>2 DEF IInv, Shape, Sound, Threads
  <1>12. Judged(r)'
    BY <1>2, <1>6, <1>7, <1>15 DEF IInv, Shape, Sound, Judged
  <1>13. Offloaded(r)'
    <2>1. req[r].size \in Sizes
      BY <1>2 DEF IInv, Sound, Course
    <2> QED
      BY <1>1, <1>2, <1>6, <1>7, <2>1 DEF IInv, Shape, Sound, Offloaded, LoggedBody
  <1>14. Justified(r)'
    BY <1>2, <1>6 DEF IInv, Shape, Sound, Course, Justified, NoEffect
  <1> QED
    BY <1>8, <1>9, <1>10, <1>11, <1>12, <1>13, <1>14, OneRequest DEF Sound

(* Verification throws, with the payload there or not.                     *)
LEMMA VerificationThrowsIInv ==
  ASSUME NEW r \in Requests, IInv, VerificationThrows(r)
  PROVE  IInv'
  <1>1. /\ stage[r] = "preparing" /\ To(r, "done") /\ Answer(r, 500)
        /\ payloads' \in {payloads, payloads \cup {r}}
        /\ r \in payloads' => r \in payloads \/ req[r].size = "chunked"
        /\ faults' = faults \/ (faults < MaxFaults /\ faults' = faults + 1)
        /\ UNCHANGED <<req, opts, verdict, event, worker, env, effects, wasLive>>
    BY DEF VerificationThrows
  <1>2. Shape'
    BY <1>1, ConstantsAssumption DEF IInv, Shape
  <1>3. (\A q \in Requests \ {r} : Same(q)) /\ UNCHANGED <<parser, live, cleaned>>
    BY <1>1 DEF IInv, Shape, Same
  <1>4. Course(r)'
    BY <1>1 DEF IInv, Shape, Sound, Course, NoEffect, Refusal
  <1>5. Threads(r)'
    BY <1>1 DEF IInv, Shape, Sound, Course, Threads
  <1>6. Judged(r)'
    BY <1>1 DEF IInv, Shape, Sound, Course, Judged
  <1>7. Offloaded(r)'
    BY <1>1 DEF IInv, Shape, Sound, Course, Offloaded
  <1>8. Justified(r)'
    BY <1>1 DEF IInv, Shape, Sound, Course, Justified, NoEffect
  <1> QED
    BY <1>2, <1>3, <1>4, <1>5, <1>6, <1>7, <1>8, OneRequest DEF Sound

(* What Edited makes of an event.                                          *)
LEMMA EditedRight ==
  ASSUME NEW e \in Events, NEW edit \in Edits
  PROVE  LET x == Edited(e, edit) IN
         /\ x \in Events /\ x.kind = edit.kind /\ x.kind \in Kinds
         /\ x.body = e.body \/ x.body = "rewritten"
         /\ x.signature = e.signature \/ x.signature \in Claims \cup {Null}
  <1> DEFINE body == IF edit.body = "kept" THEN e.body ELSE "rewritten"
             claim == [valid |-> edit.signature = "valid", under |-> Null]
             signature == CASE edit.signature = "kept" -> e.signature
                            [] edit.signature = "deleted" -> Null
                            [] OTHER -> claim
             status == IF edit.status = Null THEN e.status ELSE edit.status
             x == [body |-> body, signature |-> signature, status |-> status,
                   kind |-> edit.kind]
  <1>1. edit \in AllEdits
    BY ConstantsAssumption
  <1>2. body \in {"raw", "reference", "truncated", "rewritten"}
        /\ body \in {e.body, "rewritten"}
    BY DEF Events
  <1>3. status \in Statuses
    BY <1>1 DEF Events, AllEdits
  <1>4. claim \in Claims
    BY DEF Claims
  <1>5. signature = e.signature \/ signature \in Claims \cup {Null}
    <2> HIDE DEF claim
    <2> QED
      BY <1>4
  <1>6. e.signature \in Judgements \cup Claims \cup {Null}
    BY DEF Events
  <1>7. edit.kind \in Kinds
    BY <1>1 DEF AllEdits
  <1>8. Edited(e, edit) = x
    BY Zenon DEF Edited
  <1> HIDE DEF body, signature, status
  <1>9. x \in Events
    BY <1>2, <1>3, <1>5, <1>6, <1>7 DEF Events
  <1> QED
    BY <1>2, <1>5, <1>7, <1>8, <1>9

(* The script hands back an event.                                         *)
LEMMA ScriptSucceedsIInv ==
  ASSUME NEW r \in Requests, IInv, NEW edit \in Edits, ScriptSucceeds(r, edit)
  PROVE  IInv'
  <1> DEFINE e == Edited(event[r], edit)
  <1>1. /\ stage[r] = "scripting" /\ To(r, "answering")
        /\ worker' = [worker EXCEPT ![r] = "stopping"]
        /\ UNCHANGED <<req, opts, verdict, env, effects, answers, payloads, wasLive, faults>>
    BY DEF ScriptSucceeds
  <1>2. event[r] \in Events /\ event[r].kind = "plain"
    BY <1>1 DEF IInv, Sound, Course
  <1>3. event' = [event EXCEPT ![r] = e]
    BY DEF ScriptSucceeds
  <1>4. /\ e \in Events /\ e # Null /\ e.kind \in Kinds
        /\ e.body = event[r].body \/ e.body = "rewritten"
        /\ e.signature = event[r].signature \/ e.signature \in Claims \cup {Null}
    BY <1>2, EditedRight, ConstantsAssumption
  <1>5. e.kind # "plain"
    BY <1>4 DEF Kinds
  <1>6. event'[r] = e /\ event[r] # Null
    BY <1>2, <1>3, ConstantsAssumption DEF IInv, Shape
  <1> HIDE DEF e
  <1>7. Shape'
    BY <1>1, <1>3, <1>4 DEF IInv, Shape
  <1>8. (\A q \in Requests \ {r} : Same(q)) /\ UNCHANGED <<parser, live, cleaned>>
    BY <1>1, <1>3 DEF IInv, Shape, Same
  <1>9. Course(r)'
    BY <1>1, <1>4, <1>6 DEF IInv, Shape, Sound, Course, NoEffect
  <1>10. Threads(r)'
    BY <1>1, <1>4, <1>5, <1>6 DEF IInv, Shape, Sound, Threads
  <1>11. Judged(r)'
    <2>1. /\ stage'[r] = "answering" /\ event'[r] # Null /\ event'[r].kind # "plain"
          /\ \/ event'[r].signature = event[r].signature
             \/ event'[r].signature = Null \/ event'[r].signature.under = Null
          /\ event[r] # Null
          /\ req' = req /\ opts' = opts /\ verdict' = verdict /\ parser' = parser
      BY <1>1, <1>4, <1>5, <1>6 DEF IInv, Shape, Claims
    <2> QED
      BY <2>1 DEF IInv, Sound, Judged
  <1>12. Offloaded(r)'
    BY <1>1, <1>2, <1>4, <1>6 DEF IInv, Shape, Sound, Offloaded
  <1>13. Justified(r)'
    BY <1>1, <1>4, <1>6 DEF IInv, Shape, Sound, Course, Justified, NoEffect
  <1> QED
    BY <1>7, <1>8, <1>9, <1>10, <1>11, <1>12, <1>13, OneRequest DEF Sound

(* The alerts, to the channels that could be reached.                      *)
LEMMA AlertIInv ==
  ASSUME NEW r \in Requests, IInv, NEW reached \in SUBSET Channels,
         Alert(r, reached)
  PROVE  IInv'
  <1>1. CASE Alert(r, reached)
    <2>1. Shape'
      BY <1>1, ConstantsAssumption DEF IInv, Shape, Alert
    <2>2. (\A q \in Requests \ {r} : Same(q)) /\ UNCHANGED <<parser, live, cleaned>>
      BY <1>1 DEF IInv, Shape, Same, Alert
    <2>3. Course(r)'
      BY <1>1, ConstantsAssumption DEF IInv, Shape, Sound, Course, NoEffect, Refusal, Reply,
         Alert
    <2>4. Threads(r)'
      BY <1>1, ConstantsAssumption DEF IInv, Shape, Sound, Course, Threads, Alert
    <2>5. Judged(r)'
      BY <1>1, ConstantsAssumption DEF IInv, Shape, Sound, Course, Judged, Alert
    <2>6. Offloaded(r)'
      BY <1>1, ConstantsAssumption DEF IInv, Shape, Sound, Course, Offloaded, Alert
    <2>7. Justified(r)'
      <3>1. event[r] \in Events /\ alerted' = [alerted EXCEPT ![r] = reached]
        BY <1>1 DEF IInv, Sound, Course, Alert
      <3>2. event[r].status \in {200, 401, 503}
        BY <3>1 DEF Events, Statuses
      <3>3. reached # {} => event[r].status >= 400 \/
                            (event[r].signature # Null /\ ~event[r].signature.valid)
        BY <1>1, <3>2 DEF Alert, ShouldAlert
      <3> QED
        BY <1>1, <3>1, <3>3, ConstantsAssumption DEF IInv, Shape, Sound, Course, Justified, Alert
    <2> QED
      BY <2>1, <2>2, <2>3, <2>4, <2>5, <2>6, <2>7, OneRequest DEF Sound
  <1> QED
    BY <1>1

LEMMA ServerIInv == ASSUME NEW r \in Requests, IInv, Server(r) PROVE IInv'
  <1>1. CASE IngestRefuses(r)
    BY <1>1, RefuseIInv DEF IngestRefuses
  <1>2. CASE StreamRefuses(r)
    BY <1>2, RefuseIInv DEF StreamRefuses
  <1>3. CASE ParserFails(r)
    BY <1>3, RefuseIInv DEF ParserFails
  <1>4. CASE ValidateRefuses(r)
    BY <1>4, RefuseIInv DEF ValidateRefuses, Refusals
  <1>5. CASE \E forced \in {200, 503} : Prepare(r, forced) \/ PrepareTruncates(r, forced)
    BY <1>5, PrepareIInv
  <1>6. CASE (\E edit \in Edits : ScriptSucceeds(r, edit)) \/ VerificationThrows(r)
    BY <1>6, ScriptSucceedsIInv, VerificationThrowsIInv
  <1>7. CASE \E reached \in SUBSET Channels : Alert(r, reached)
    BY <1>7, AlertIInv
  <1> QED
    BY <1>1, <1>2, <1>3, <1>4, <1>5, <1>6, <1>7, ReadIInv, ScriptIInv, ReplyIInv
       DEF Server

LEMMA NextIInv == IInv /\ [Next]_vars => IInv'
  <1> SUFFICES ASSUME IInv, [Next]_vars PROVE IInv'
    OBVIOUS
  <1>1. CASE UNCHANGED vars
    <2>1. Shape'
      BY <1>1 DEF vars, IInv, Shape
    <2>2. \A q \in Requests : Same(q)
      BY <1>1 DEF vars, Same
    <2> QED
      BY <1>1, <2>1, <2>2, SameSound DEF IInv, vars
  <1>2. ASSUME NEW r \in Requests,
               \/ \E size \in Sizes, sender \in Senders : Arrive(r, size, sender)
               \/ Server(r) \/ StreamEnds(r) \/ ClientLeaves(r) \/ LatePush(r) \/ Abort(r)
        PROVE  IInv'
    BY <1>2, ArriveIInv, ServerIInv, ReadIInv, ReplyIInv
  <1> QED
    BY <1>1, <1>2, EnvironmentIInv DEF Next, Environment

LEMMA IInvAlways == Spec => []IInv
  BY InitIInv, NextIInv, PTL DEF Spec

-----------------------------------------------------------------------------
(* Every variable has the shape that the code gives it, for any number of  *)
(* requests, reloads and faults.                                           *)
THEOREM TypeCorrect == Spec => []TypeOK
  <1>1. ASSUME IInv PROVE TypeOK
    <2>1. \A r \in Requests : Len(answers[r]) \in Nat
      BY <1>1 DEF IInv, Shape
    <2> QED
      BY <1>1, <2>1 DEF IInv, Shape, TypeOK
  <1> QED
    BY <1>1, IInvAlways, PTL

(* A request gets one answer, and what is emitted, stored, forwarded or    *)
(* alerted belongs to an event whose status the client was given, through  *)
(* all refusals, scripts and failures. (LoggerMiddleware.middleware.)      *)
THEOREM AnsweredOnceHolds == Spec => []AnsweredOnce
  <1>1. ASSUME IInv, NEW r \in Requests
        PROVE  /\ Len(answers[r]) <= 1
               /\ stage[r] = "done" => Len(answers[r]) = 1
               /\ answers[r] # <<>> /\ worker[r] \in {"running", "stopping"}
                    => event[r].kind # "plain"
               /\ r \in emitted \cup stored \cup pushing \cup forwarded \/ alerted[r] # {}
                    => /\ event[r] # Null /\ event[r].kind # "unsendable"
                       /\ answers[r] = <<event[r].status>>
               /\ alerted[r] # {} =>
                    \/ event[r].status >= 400
                    \/ event[r].signature # Null /\ ~event[r].signature.valid
    <2>0. Sound(r) /\ stage[r] \in Stages
      BY <1>1 DEF IInv, Shape
    <2>1. Len(<<>>) = 0 /\ Len(<<event[r].status>>) = 1
      OBVIOUS
    <2>2. stage[r] # "done" => stage[r] \in Unlogged \cup Scripted \cup Answered \cup {"stalled"}
      BY <2>0
    <2>3. Len(answers[r]) <= 1 /\ (stage[r] = "done" => Len(answers[r]) = 1)
      <3>1. answers[r] = <<>> \/ answers[r] = <<event[r].status>> \/ Len(answers[r]) = 1
        BY <2>0, <2>2 DEF Sound, Course, Reply, Refusal
      <3>2. stage[r] = "done" => answers[r] = <<event[r].status>> \/ Len(answers[r]) = 1
        BY <2>0 DEF Sound, Course, Reply, Refusal
      <3>3. /\ Len(answers[r]) = 0 \/ Len(answers[r]) = 1
            /\ stage[r] = "done" => Len(answers[r]) = 1
        BY <2>1, <3>1, <3>2, Zenon
      <3>4. \A n \in {0, 1} : n <= 1
        OBVIOUS
      <3> QED
        BY <3>3, <3>4, Zenon
    <2>4. answers[r] # <<>> /\ worker[r] \in {"running", "stopping"} => event[r].kind # "plain"
      BY <2>0, <2>2 DEF Sound, Course, Threads
    <2>5. r \in emitted \cup stored \cup pushing \cup forwarded \/ alerted[r] # {}
            => /\ event[r] # Null /\ event[r].kind # "unsendable"
               /\ answers[r] = <<event[r].status>>
      BY <2>0, <2>2, ConstantsAssumption DEF Sound, Course, NoEffect, Reply, Refusal
    <2> QED
      BY <2>0, <2>3, <2>4, <2>5 DEF Sound, Justified
  <1>2. IInv => AnsweredOnce
    BY <1>1 DEF AnsweredOnce
  <1> QED
    BY <1>2, IInvAlways, PTL

(* A verdict is reached under the options that it names, whenever the hot  *)
(* reload comes: the program calls no request genuine without the secret,  *)
(* and none invalid but for its format, the JSON parser that was not       *)
(* mounted or a reload while it streamed, whatever scripts make of it.     *)
(* (createStreamVerifier, LoggerMiddleware.middleware.)                    *)
THEOREM SignatureHonouredHolds == Spec => []SignatureHonoured
  <1>1. IInv => SignatureHonoured
    BY DEF IInv, Sound, Judged, SignatureHonoured
  <1> QED
    BY <1>1, IInvAlways, PTL

(* A logged reference has its payload until the cleanup, and a payload     *)
(* without one has a reason, whatever scripts rewrite. (offloadToKvs,      *)
(* #prepareRequestData, restoreSandboxEvent, cleanup.)                     *)
THEOREM PayloadsAccountedHolds == Spec => []PayloadsAccounted
  <1>1. ASSUME IInv, NEW r \in Requests
        PROVE  /\ Refers(r) => r \in payloads \/ cleaned \/ event[r].kind = "moved"
               /\ r \in payloads /\ stage[r] = "done" /\ ~Refers(r) =>
                    \/ answers[r][1] >= 400
                    \/ ~Logs(event[r]) \/ event[r].body \in {"truncated", "rewritten"}
    <2>0. Sound(r) /\ event[r] \in Events \cup {Null} /\ stage[r] \in Stages
      BY <1>1 DEF IInv, Shape
    <2>1. r \in emitted => event[r] # Null
      BY <2>0, ConstantsAssumption DEF Sound, Course, NoEffect, Refusal
    <2>2. event[r] # Null => event[r].body \in {"raw", "reference", "truncated", "rewritten"}
      BY <2>0 DEF Events
    <2> QED
      BY <2>0, <2>1, <2>2 DEF Sound, Course, Refusal, Offloaded, Refers
  <1>2. IInv => PayloadsAccounted
    BY <1>1 DEF PayloadsAccounted
  <1> QED
    BY <1>2, IInvAlways, PTL

(* Nothing is accepted for a webhook that was not live when the body was   *)
(* complete, nor forwarded before it is stored. (#validateWebhookRequest,  *)
(* #executeBackgroundTasks.)                                               *)
THEOREM EffectsJustifiedHolds == Spec => []EffectsJustified
  <1>1. IInv => EffectsJustified
    BY DEF IInv, Sound, Justified, EffectsJustified
  <1> QED
    BY <1>1, IInvAlways, PTL

-----------------------------------------------------------------------------
(* What the path promises the read model (see ReadModelSync): LOG_RECEIVED *)
(* is emitted once for a request, and its item is pushed once, after that. *)
Source == INSTANCE EventSource
            WITH Events <- Requests, announced <- emitted, kept <- stored

(* A request waits for pushData before the item is there, and a call that  *)
(* nobody waits for any more belongs to an event that was emitted.         *)
Recorded(r) ==
  /\ stage[r] = "pushing" => r \in emitted /\ r \notin stored \cup pushing
  /\ r \in pushing => r \notin stored
  /\ r \in stored \cup pushing => r \in emitted

EachRecorded == \A r \in Requests : Recorded(r)

(* Most steps leave the record alone, and do not begin to push.            *)
Calm ==
  /\ UNCHANGED <<emitted, stored, pushing>>
  /\ \A q \in Requests : stage'[q] = "pushing" => stage[q] = "pushing"

LEMMA CalmOrRecorded ==
  ASSUME IInv, [Next]_vars
  PROVE  Calm \/ \E r \in Requests : Respond(r) \/ PushData(r) \/ PushFails(r) \/ LatePush(r)
  <1>0. stage \in [Requests -> Stages]
    BY DEF IInv, Shape
  <1>1. ASSUME UNCHANGED <<emitted, stored, pushing, stage>> PROVE Calm
    BY <1>1 DEF Calm
  <1>2. ASSUME NEW r \in Requests, UNCHANGED <<emitted, stored, pushing>>,
               NEW s, s # "pushing", stage' = [stage EXCEPT ![r] = s]
        PROVE  Calm
    BY <1>0, <1>2 DEF Calm
  <1>3. ASSUME NEW r \in Requests,
               \/ IngestRefuses(r) \/ IngestPasses(r) \/ StreamRefuses(r)
               \/ StreamBegins(r) \/ StreamFails(r) \/ ParserFails(r) \/ Parse(r)
               \/ ValidateRefuses(r) \/ Validate(r)
        PROVE  Calm
    <2>1. CASE IngestRefuses(r) \/ StreamRefuses(r) \/ ParserFails(r) \/ ValidateRefuses(r)
      <3>1. ASSUME NEW from, NEW status, Refuse(r, from, status) PROVE Calm
        BY <1>2, <3>1 DEF Refuse
      <3> QED
        BY <2>1, <3>1 DEF IngestRefuses, StreamRefuses, ParserFails, ValidateRefuses
    <2>2. CASE IngestPasses(r)
      BY <1>2, <2>2 DEF IngestPasses
    <2>3. CASE StreamBegins(r) \/ StreamFails(r)
      <3>1. /\ To(r, "streaming") \/ To(r, "done")
            /\ UNCHANGED <<emitted, stored, pushing>>
        BY <2>3 DEF StreamBegins, StreamFails
      <3> HIDE DEF To
      <3>2. "streaming" # "pushing" /\ "done" # "pushing"
        OBVIOUS
      <3> QED
        BY <1>2, <3>1, <3>2 DEF To
    <2>4. CASE Parse(r) \/ Validate(r)
      BY <1>2, <2>4 DEF Parse, Validate
    <2> QED
      BY <1>3, <2>1, <2>2, <2>3, <2>4
  <1>4. ASSUME NEW r \in Requests,
               \E forced \in {200, 503} : Prepare(r, forced) \/ PrepareTruncates(r, forced)
        PROVE  Calm
    <2>1. To(r, "transforming") /\ UNCHANGED <<emitted, stored, pushing>>
      BY <1>4 DEF Prepare, PrepareTruncates
    <2> QED
      BY <1>2, <2>1
  <1>5. ASSUME NEW r \in Requests,
               \/ SkipScript(r) \/ StartWorker(r) \/ ScriptFails(r) \/ WorkerExits(r)
               \/ WorkerStops(r)
        PROVE  Calm
    BY <1>1, <1>2, <1>5
       DEF SkipScript, StartWorker, ScriptFails, WorkerExits, WorkerStops
  <1>6. ASSUME NEW r \in Requests,
               (\E edit \in Edits : ScriptSucceeds(r, edit)) \/ VerificationThrows(r)
        PROVE  Calm
    <2>1. (To(r, "answering") \/ To(r, "done")) /\ UNCHANGED <<emitted, stored, pushing>>
      BY <1>6 DEF ScriptSucceeds, VerificationThrows
    <2> QED
      BY <1>2, <2>1
  <1>7. ASSUME NEW r \in Requests,
               \/ SendFails(r) \/ Forward(r) \/ Abort(r) \/ StreamEnds(r)
               \/ ClientLeaves(r) \/ \E reached \in SUBSET Channels : Alert(r, reached)
        PROVE  Calm
    BY <1>1, <1>2, <1>7
       DEF SendFails, Forward, Abort, Alert, StreamEnds, ClientLeaves
  <1>8. ASSUME NEW r \in Requests, NEW size \in Sizes, NEW sender \in Senders,
               Arrive(r, size, sender)
        PROVE  Calm
    BY <1>2, <1>8 DEF Arrive
  <1>9. CASE UNCHANGED vars \/ Environment
    BY <1>1, <1>9 DEF vars, Environment, Expire, Cleanup, CleanupElsewhere, UpdateOptions
  <1> QED
    BY <1>3, <1>4, <1>5, <1>6, <1>7, <1>8, <1>9 DEF Next, Server, Environment

LEMMA RecordedStep == IInv /\ EachRecorded /\ [Next]_vars => EachRecorded'
  <1> SUFFICES ASSUME IInv, EachRecorded, [Next]_vars, NEW q \in Requests
               PROVE  Recorded(q)'
    BY DEF EachRecorded
  <1>0. Recorded(q) /\ stage \in [Requests -> Stages]
    BY DEF EachRecorded, IInv, Shape
  <1>1. CASE Calm
    BY <1>0, <1>1 DEF Calm, Recorded
  <1>2. ASSUME NEW r \in Requests, Respond(r) PROVE Recorded(q)'
    <2>1. r \notin stored \cup pushing
      BY <1>2 DEF Respond, IInv, Sound, Course, NoEffect
    <2>2. stage'[r] = "pushing" => r \in emitted'
      BY <1>0, <1>2 DEF Respond, Logs, Background
    <2>3. q # r => stage'[q] = stage[q]
      BY <1>0, <1>2 DEF Respond
    <2>4. emitted \subseteq emitted' /\ stored' = stored /\ pushing' = pushing
      BY <1>2 DEF Respond
    <2> QED
      BY <1>0, <2>1, <2>2, <2>3, <2>4 DEF Recorded
  <1>3. ASSUME NEW r \in Requests, PushData(r) PROVE Recorded(q)'
    <2>1. stage' = [stage EXCEPT ![r] = Background(r, TRUE)]
          /\ Background(r, TRUE) # "pushing" /\ stage[r] = "pushing"
      BY <1>3 DEF PushData, Background
    <2>2. emitted' = emitted /\ stored' = stored \cup {r} /\ pushing' = pushing
      BY <1>3 DEF PushData
    <2>3. Recorded(r)
      BY DEF EachRecorded
    <2> QED
      BY <1>0, <2>1, <2>2, <2>3 DEF Recorded
  <1>4. ASSUME NEW r \in Requests, PushFails(r) PROVE Recorded(q)'
    <2>1. stage' = [stage EXCEPT ![r] = "alerting"] /\ stage[r] = "pushing"
      BY <1>4 DEF PushFails
    <2>2. /\ emitted' = emitted /\ stored' = stored
          /\ pushing' = pushing \/ pushing' = pushing \cup {r}
      BY <1>4 DEF PushFails
    <2>3. Recorded(r)
      BY DEF EachRecorded
    <2> QED
      BY <1>0, <2>1, <2>2, <2>3 DEF Recorded
  <1>5. ASSUME NEW r \in Requests, LatePush(r) PROVE Recorded(q)'
    <2>1. r \in pushing /\ Recorded(r)
      BY <1>5 DEF LatePush, EachRecorded
    <2>2. /\ emitted' = emitted /\ stored' = stored \cup {r} /\ pushing' = pushing \ {r}
          /\ stage' = stage
      BY <1>5 DEF LatePush
    <2> QED
      BY <1>0, <2>1, <2>2 DEF Recorded
  <1> QED
    BY <1>1, <1>2, <1>3, <1>4, <1>5, CalmOrRecorded

LEMMA RecordedAlways == Spec => []EachRecorded
  <1>1. Init => EachRecorded
    BY DEF Init, EachRecorded, Recorded
  <1> QED
    BY <1>1, RecordedStep, IInvAlways, PTL DEF Spec

(* Through scripts, timeouts of pushData and calls that take effect when   *)
(* nobody waits for them, a request is announced at most once, and its     *)
(* item reaches the dataset at most once and never first. It is what the   *)
(* sync service assumes. (#executeBackgroundTasks.)                        *)
THEOREM ImplementsSource == Spec => Source!SourceSpec
  <1>1. Init => Source!SourceInit
    BY DEF Init, Source!SourceInit
  <1>2. ASSUME IInv, EachRecorded, [Next]_vars
        PROVE  Source!SourceNext \/ UNCHANGED <<emitted, stored>>
    <2>1. ASSUME NEW r \in Requests, Respond(r)
          PROVE  Source!Announce(r) \/ UNCHANGED <<emitted, stored>>
      <3>1. r \notin emitted
        BY <1>2, <2>1 DEF Respond, IInv, Sound, Course, NoEffect
      <3> QED
        BY <2>1, <3>1 DEF Respond, Source!Announce
    <2>2. ASSUME NEW r \in Requests, PushData(r) \/ LatePush(r) PROVE Source!Keep(r)
      <3>1. r \notin stored /\ r \in emitted
        BY <1>2, <2>2 DEF PushData, LatePush, EachRecorded, Recorded
      <3>2. stored' = stored \cup {r} /\ emitted' = emitted
        BY <2>2 DEF PushData, LatePush
      <3> QED
        BY <3>1, <3>2 DEF Source!Keep
    <2>3. ASSUME NEW r \in Requests, PushFails(r) PROVE UNCHANGED <<emitted, stored>>
      BY <2>3 DEF PushFails
    <2>4. Calm => UNCHANGED <<emitted, stored>>
      BY DEF Calm
    <2> QED
      BY <1>2, <2>1, <2>2, <2>3, <2>4, CalmOrRecorded DEF Source!SourceNext
  <1>3. IInv /\ EachRecorded /\ [Next]_vars => [Source!SourceNext]_(Source!sourceVars)
    BY <1>2 DEF Source!sourceVars
  <1> QED
    BY <1>1, <1>3, IInvAlways, RecordedAlways, PTL DEF Spec, Source!SourceSpec

(* The event that was emitted is the one that is pushed, forwarded and     *)
(* alerted of: once it is out, no script, late verdict or reload changes   *)
(* it, so that the row inserted early and the item of the dataset agree.   *)
EventIsFinal == [][\A r \in emitted \cup stored : event'[r] = event[r]]_vars

THEOREM EventIsFinalHolds == Spec => EventIsFinal
  <1> DEFINE Kept == \A r \in emitted \cup stored : event'[r] = event[r]
  <1>1. IInv /\ [Next]_vars => [Kept]_vars
    <2> SUFFICES ASSUME IInv, [Next]_vars, NEW q \in emitted \cup stored
                 PROVE  event'[q] = event[q]
      OBVIOUS
    <2>0. /\ event \in [Requests -> Events \cup {Null}] /\ q \in Requests
          /\ ~NoEffect(q)
      BY DEF IInv, Shape, NoEffect
    <2>1. ASSUME NEW r \in Requests, stage[r] \in Unlogged \cup Scripted PROVE r # q
      BY <2>0, <2>1 DEF IInv, Sound, Course
    <2>2. ASSUME NEW r \in Requests, NEW forced \in {200, 503},
                 Prepare(r, forced) \/ PrepareTruncates(r, forced)
          PROVE  event'[q] = event[q]
      <3>1. stage[r] = "preparing"
        BY <2>2 DEF Prepare, PrepareTruncates
      <3>2. r # q
        BY <2>1, <3>1
      <3>3. ASSUME NEW offloaded \in BOOLEAN, BuildEvent(r, offloaded, forced)
            PROVE  event'[q] = event[q]
        <4> DEFINE e == [body |-> LoggedBody(r, offloaded), signature |-> SignatureOf(r),
                         status |-> IF SignatureOf(r) # Null /\ ~SignatureOf(r).valid
                                    THEN 401 ELSE forced,
                         kind |-> "plain"]
        <4>1. event' = [event EXCEPT ![r] = e]
          BY <3>3, Zenon DEF BuildEvent
        <4> HIDE DEF e
        <4> QED
          BY <2>0, <3>2, <4>1
      <3> QED
        BY <2>2, <3>3, Zenon DEF Prepare, PrepareTruncates
    <2>3. ASSUME NEW r \in Requests, NEW edit \in Edits, ScriptSucceeds(r, edit)
          PROVE  event'[q] = event[q]
      <3>1. stage[r] = "scripting"
        BY <2>3 DEF ScriptSucceeds
      <3>2. r # q
        BY <2>1, <3>1
      <3>3. event' = [event EXCEPT ![r] = Edited(event[r], edit)]
        BY <2>3 DEF ScriptSucceeds
      <3> QED
        BY <2>0, <3>2, <3>3
    <2>4. ASSUME NEW r \in Requests,
                 \A forced \in {200, 503} : ~Prepare(r, forced) /\ ~PrepareTruncates(r, forced),
                 \A edit \in Edits : ~ScriptSucceeds(r, edit),
                 Server(r)
          PROVE  UNCHANGED event
      <3>1. CASE \/ IngestRefuses(r) \/ IngestPasses(r) \/ StreamRefuses(r)
                 \/ StreamBegins(r) \/ StreamFails(r) \/ ParserFails(r) \/ Parse(r)
                 \/ ValidateRefuses(r) \/ Validate(r) \/ VerificationThrows(r)
        BY <3>1 DEF VerificationThrows, IngestRefuses, Refuse, IngestPasses, StreamRefuses, StreamBegins,
                    StreamFails, ParserFails, Parse, ValidateRefuses, Validate
      <3>2. CASE \/ SkipScript(r) \/ StartWorker(r) \/ ScriptFails(r) \/ WorkerExits(r)
                 \/ WorkerStops(r) \/ SendFails(r)
        BY <3>2 DEF SkipScript, StartWorker, ScriptFails, WorkerExits, WorkerStops,
                    SendFails
      <3>3. CASE Respond(r)
        BY <3>3 DEF Respond
      <3>4. CASE \/ PushData(r) \/ PushFails(r) \/ Forward(r)
                 \/ \E reached \in SUBSET Channels : Alert(r, reached)
        BY <3>4 DEF PushData, PushFails, Forward, Alert
      <3> QED
        BY <2>4, <3>1, <3>2, <3>3, <3>4 DEF Server
    <2>5. ASSUME NEW r \in Requests,
                 \/ \E size \in Sizes, sender \in Senders : Arrive(r, size, sender)
                 \/ StreamEnds(r) \/ ClientLeaves(r) \/ LatePush(r) \/ Abort(r)
          PROVE  UNCHANGED event
      BY <2>5 DEF Arrive, StreamEnds, ClientLeaves, LatePush, Abort
    <2>6. CASE UNCHANGED vars \/ Environment
      BY <2>6 DEF vars, Environment, Expire, Cleanup, CleanupElsewhere, UpdateOptions
    <2> QED
      BY <2>2, <2>3, <2>4, <2>5, <2>6 DEF Next, Environment
  <1> QED
    BY <1>1, IInvAlways, PTL DEF EventIsFinal, Spec

-----------------------------------------------------------------------------
(* The safety that EveryRequestSettles rests on: a request never returns   *)
(* to where it has been, and what it waits for is there.                   *)
Rank(s) ==
  CASE s = "idle" -> 0                      [] s = "ingest" -> 1
    [] s \in {"streaming", "parsing"} -> 2  [] s \in {"stalled", "parsed"} -> 3
    [] s = "preparing" -> 4                 [] s = "transforming" -> 5
    [] s = "scripting" -> 6                 [] s = "terminating" -> 7
    [] s = "answering" -> 8                 [] s = "pushing" -> 9
    [] s = "forwarding" -> 10               [] s = "alerting" -> 11
    [] s = "done" -> 12

LEMMA Ranks ==
  /\ Rank("idle") = 0 /\ Rank("ingest") = 1 /\ Rank("streaming") = 2
  /\ Rank("parsing") = 2 /\ Rank("stalled") = 3 /\ Rank("parsed") = 3
  /\ Rank("preparing") = 4 /\ Rank("transforming") = 5 /\ Rank("scripting") = 6
  /\ Rank("terminating") = 7 /\ Rank("answering") = 8 /\ Rank("pushing") = 9
  /\ Rank("forwarding") = 10 /\ Rank("alerting") = 11 /\ Rank("done") = 12
  <1>1. /\ Rank("idle") = 0 /\ Rank("ingest") = 1 /\ Rank("streaming") = 2
        /\ Rank("parsing") = 2 /\ Rank("stalled") = 3 /\ Rank("parsed") = 3
    BY DEF Rank
  <1>2. /\ Rank("preparing") = 4 /\ Rank("transforming") = 5 /\ Rank("scripting") = 6
        /\ Rank("terminating") = 7 /\ Rank("answering") = 8
    BY DEF Rank
  <1>3. /\ Rank("pushing") = 9 /\ Rank("forwarding") = 10 /\ Rank("alerting") = 11
        /\ Rank("done") = 12
    BY DEF Rank
  <1> QED
    BY <1>1, <1>2, <1>3

(* Request r goes on to another stage, and no other request does.          *)
Advances(r) ==
  \E s \in Stages : /\ stage' = [stage EXCEPT ![r] = s] /\ Rank(stage[r]) < Rank(s)

LEMMA StageStep ==
  ASSUME IInv, [Next]_vars
  PROVE  UNCHANGED stage \/ \E r \in Requests : Advances(r)
  <1> DEFINE Goal == UNCHANGED stage \/ \E r \in Requests : Advances(r)
  <1>0. /\ \A s \in {"parsing", "streaming", "done"} : Rank("ingest") < Rank(s)
        /\ \A s \in {"parsed", "stalled", "done"} : Rank("streaming") < Rank(s)
        /\ \A s \in {"parsed", "done"} : Rank("parsing") < Rank(s)
        /\ \A s \in {"preparing", "done"} : Rank("parsed") < Rank(s)
        /\ Rank("idle") < Rank("ingest")
        /\ \A s \in {"transforming", "done"} : Rank("preparing") < Rank(s)
        /\ \A s \in {"scripting", "answering"} : Rank("transforming") < Rank(s)
        /\ \A s \in {"terminating", "answering"} : Rank("scripting") < Rank(s)
        /\ Rank("terminating") < Rank("answering")
        /\ \A s \in {"pushing", "forwarding", "alerting", "done"} :
             Rank("answering") < Rank(s)
        /\ \A s \in {"forwarding", "alerting"} : Rank("pushing") < Rank(s)
        /\ Rank("forwarding") < Rank("alerting") /\ Rank("alerting") < Rank("done")
    BY Ranks
  <1>1. ASSUME NEW r \in Requests, NEW s \in Stages,
               stage' = [stage EXCEPT ![r] = s], Rank(stage[r]) < Rank(s)
        PROVE  Goal
    BY <1>1 DEF Advances
  <1>2. ASSUME UNCHANGED stage PROVE Goal
    BY <1>2
  <1> HIDE DEF Goal
  <1>3. ASSUME NEW r \in Requests,
               NEW from \in {"ingest", "parsing", "parsed"}, NEW status,
               Refuse(r, from, status)
        PROVE  Goal
    BY <1>1, <1>3, <1>0 DEF Refuse
  <1>4. ASSUME NEW r \in Requests,
               \/ IngestRefuses(r) \/ StreamRefuses(r) \/ ParserFails(r)
               \/ ValidateRefuses(r)
        PROVE  Goal
    BY <1>3, <1>4 DEF IngestRefuses, StreamRefuses, ParserFails, ValidateRefuses
  <1>5. ASSUME NEW r \in Requests,
               IngestPasses(r) \/ StreamBegins(r) \/ StreamFails(r)
        PROVE  Goal
    BY <1>1, <1>5, <1>0 DEF IngestPasses, StreamBegins, StreamFails
  <1>6. ASSUME NEW r \in Requests,
               Parse(r) \/ Validate(r) \/ StreamEnds(r) \/ ClientLeaves(r)
        PROVE  Goal
    BY <1>1, <1>6, <1>0 DEF Parse, Validate, StreamEnds, ClientLeaves
  <1>7. ASSUME NEW r \in Requests,
               \E forced \in {200, 503} : Prepare(r, forced) \/ PrepareTruncates(r, forced)
        PROVE  Goal
    <2>1. stage[r] = "preparing" /\ To(r, "transforming")
      BY <1>7 DEF Prepare, PrepareTruncates
    <2> QED
      BY <1>1, <2>1, <1>0
  <1>8. ASSUME NEW r \in Requests,
               SkipScript(r) \/ StartWorker(r) \/ ScriptFails(r) \/ WorkerExits(r)
        PROVE  Goal
    BY <1>1, <1>8, <1>0 DEF SkipScript, StartWorker, ScriptFails, WorkerExits
  <1>9. ASSUME NEW r \in Requests, WorkerStops(r) PROVE Goal
    BY <1>1, <1>2, <1>9, <1>0 DEF WorkerStops
  <1>10. ASSUME NEW r \in Requests,
                (\E edit \in Edits : ScriptSucceeds(r, edit)) \/ VerificationThrows(r)
         PROVE  Goal
    <2>1. \/ stage[r] = "scripting" /\ To(r, "answering")
          \/ stage[r] = "preparing" /\ To(r, "done")
      BY <1>10 DEF ScriptSucceeds, VerificationThrows
    <2> QED
      BY <1>1, <2>1, <1>0
  <1>11. ASSUME NEW r \in Requests, SendFails(r) \/ Respond(r) PROVE Goal
    <2>1. /\ stage[r] = "answering"
          /\ \E s \in {"done", "alerting", "forwarding", "pushing"} : To(r, s)
      BY <1>11 DEF SendFails, Respond, Background
    <2> QED
      BY <1>1, <2>1, <1>0
  <1>12. ASSUME NEW r \in Requests, PushData(r) \/ PushFails(r) \/ Forward(r) PROVE Goal
    <2>1. \/ stage[r] = "pushing" /\ (To(r, "forwarding") \/ To(r, "alerting"))
          \/ stage[r] = "forwarding" /\ To(r, "alerting")
      BY <1>12 DEF PushData, PushFails, Forward, Background
    <2> QED
      BY <1>1, <2>1, <1>0
  <1>13. ASSUME NEW r \in Requests, NEW reached, Alert(r, reached) PROVE Goal
    BY <1>1, <1>13, <1>0 DEF Alert
  <1>14. ASSUME NEW r \in Requests, NEW size, NEW sender, Arrive(r, size, sender) PROVE Goal
    BY <1>1, <1>14, <1>0 DEF Arrive
  <1>15. ASSUME NEW r \in Requests, LatePush(r) \/ Abort(r) PROVE Goal
    BY <1>2, <1>15 DEF LatePush, Abort
  <1>16. ASSUME UNCHANGED vars \/ Environment PROVE Goal
    BY <1>2, <1>16 DEF vars, Environment, Expire, Cleanup, CleanupElsewhere, UpdateOptions
  <1>17. ASSUME NEW r \in Requests, Server(r) PROVE Goal
    BY <1>4, <1>5, <1>6, <1>7, <1>8, <1>9, <1>10, <1>11, <1>12, <1>13, <1>17 DEF Server
  <1>18. Goal
    BY <1>6, <1>14, <1>15, <1>16, <1>17 DEF Next, Environment
  <1> QED
    BY <1>18 DEF Goal

(* No request passes a stage twice, whatever reloads, expiries, timeouts   *)
(* and late calls fall in: it has at most twelve steps to its end.         *)
OnlyOnward ==
  [][\A r \in Requests : stage'[r] # stage[r] => Rank(stage[r]) < Rank(stage'[r])]_vars

THEOREM OnlyOnwardHolds == Spec => OnlyOnward
  <1>1. IInv /\ [Next]_vars
        => [\A r \in Requests : stage'[r] # stage[r] => Rank(stage[r]) < Rank(stage'[r])]_vars
    <2> SUFFICES ASSUME IInv, [Next]_vars, NEW q \in Requests, stage'[q] # stage[q]
                 PROVE  Rank(stage[q]) < Rank(stage'[q])
      OBVIOUS
    <2>1. stage \in [Requests -> Stages]
      BY DEF IInv, Shape
    <2> QED
      BY <2>1, StageStep DEF Advances
  <1> QED
    BY <1>1, IInvAlways, PTL DEF Spec, OnlyOnward

-----------------------------------------------------------------------------
(* Whoever waits for a worker has one: it runs while a script is awaited,  *)
(* and is on its way to stop while its end is.                             *)
AwaitedIsThere ==
  \A r \in Requests : /\ stage[r] = "scripting" => worker[r] = "running"
                      /\ stage[r] = "terminating" => worker[r] = "stopping"

Threading(r) ==
  \/ StartWorker(r) \/ ScriptFails(r) \/ WorkerExits(r) \/ WorkerStops(r)
  \/ \E edit \in Edits : ScriptSucceeds(r, edit)

(* Other steps leave the workers alone and make nobody wait for one.       *)
Unthreaded ==
  /\ UNCHANGED worker
  /\ \A q \in Requests : stage'[q] \in {"scripting", "terminating"} => stage'[q] = stage[q]

LEMMA UnthreadedOrThreading ==
  ASSUME IInv, [Next]_vars
  PROVE  Unthreaded \/ \E r \in Requests : Threading(r)
  <1>0. stage \in [Requests -> Stages]
    BY DEF IInv, Shape
  <1>1. ASSUME UNCHANGED <<worker, stage>> PROVE Unthreaded
    BY <1>1 DEF Unthreaded
  <1>2. ASSUME NEW r \in Requests, UNCHANGED worker,
               NEW s \in Stages \ {"scripting", "terminating"},
               stage' = [stage EXCEPT ![r] = s]
        PROVE  Unthreaded
    BY <1>0, <1>2 DEF Unthreaded
  <1>3. ASSUME NEW r \in Requests,
               \/ IngestRefuses(r) \/ StreamRefuses(r) \/ ParserFails(r)
               \/ ValidateRefuses(r)
        PROVE  Unthreaded
    <2>1. ASSUME NEW from, NEW status, Refuse(r, from, status) PROVE Unthreaded
      BY <1>2, <2>1 DEF Refuse
    <2> QED
      BY <1>3, <2>1 DEF IngestRefuses, StreamRefuses, ParserFails, ValidateRefuses
  <1>4. ASSUME NEW r \in Requests, IngestPasses(r) \/ StreamBegins(r) \/ StreamFails(r)
        PROVE  Unthreaded
    BY <1>2, <1>4 DEF IngestPasses, StreamBegins, StreamFails
  <1>5. ASSUME NEW r \in Requests,
               Parse(r) \/ Validate(r) \/ StreamEnds(r) \/ ClientLeaves(r)
        PROVE  Unthreaded
    BY <1>2, <1>5 DEF Parse, Validate, StreamEnds, ClientLeaves
  <1>6. ASSUME NEW r \in Requests,
               \E forced \in {200, 503} : Prepare(r, forced) \/ PrepareTruncates(r, forced)
        PROVE  Unthreaded
    <2>1. UNCHANGED worker /\ To(r, "transforming")
      BY <1>6 DEF Prepare, PrepareTruncates
    <2> QED
      BY <1>2, <2>1
  <1>7. ASSUME NEW r \in Requests, SkipScript(r) \/ SendFails(r) \/ VerificationThrows(r)
        PROVE  Unthreaded
    <2>1. UNCHANGED worker /\ (To(r, "answering") \/ To(r, "done"))
      BY <1>7 DEF SkipScript, SendFails, VerificationThrows
    <2> QED
      BY <1>2, <2>1
  <1>8. ASSUME NEW r \in Requests, Respond(r) PROVE Unthreaded
    <2>1. /\ UNCHANGED worker
          /\ \E s \in {"alerting", "forwarding", "pushing"} : To(r, s)
      BY <1>8 DEF Respond, Background
    <2> QED
      BY <1>2, <2>1
  <1>9. ASSUME NEW r \in Requests, PushData(r) \/ PushFails(r) \/ Forward(r) PROVE Unthreaded
    <2>1. UNCHANGED worker /\ (To(r, "forwarding") \/ To(r, "alerting"))
      BY <1>9 DEF PushData, PushFails, Forward, Background
    <2> QED
      BY <1>2, <2>1
  <1>10. ASSUME NEW r \in Requests, NEW reached, Alert(r, reached) PROVE Unthreaded
    BY <1>2, <1>10 DEF Alert
  <1>11. ASSUME NEW r \in Requests, NEW size, NEW sender, Arrive(r, size, sender)
         PROVE  Unthreaded
    BY <1>2, <1>11 DEF Arrive
  <1>12. ASSUME NEW r \in Requests, LatePush(r) \/ Abort(r) PROVE Unthreaded
    BY <1>1, <1>12 DEF LatePush, Abort
  <1>13. ASSUME UNCHANGED vars \/ Environment PROVE Unthreaded
    BY <1>1, <1>13 DEF vars, Environment, Expire, Cleanup, CleanupElsewhere, UpdateOptions
  <1>14. ASSUME NEW r \in Requests, Server(r) PROVE Unthreaded \/ Threading(r)
    BY <1>3, <1>4, <1>5, <1>6, <1>7, <1>8, <1>9, <1>10, <1>14 DEF Server, Threading
  <1> QED
    BY <1>5, <1>11, <1>12, <1>13, <1>14 DEF Next, Environment

(* No request waits for a worker that has gone. (executeCustomScript.)     *)
THEOREM AwaitedIsThereHolds == Spec => []AwaitedIsThere
  <1>1. Init => AwaitedIsThere
    BY DEF Init, AwaitedIsThere
  <1>2. ASSUME IInv, AwaitedIsThere, [Next]_vars PROVE AwaitedIsThere'
    <2>0. /\ stage \in [Requests -> Stages]
          /\ worker \in [Requests -> {"none", "running", "stopping", "gone"}]
      BY <1>2 DEF IInv, Shape
    <2>1. CASE Unthreaded
      BY <1>2, <2>1 DEF Unthreaded, AwaitedIsThere
    <2>2. ASSUME NEW r \in Requests, Threading(r) PROVE AwaitedIsThere'
      <3>1. CASE \E edit \in Edits : ScriptSucceeds(r, edit)
        <4>1. /\ stage' = [stage EXCEPT ![r] = "answering"]
              /\ worker' = [worker EXCEPT ![r] = "stopping"]
          BY <3>1 DEF ScriptSucceeds
        <4> QED
          BY <1>2, <2>0, <4>1 DEF AwaitedIsThere
      <3>2. CASE StartWorker(r) \/ ScriptFails(r) \/ WorkerExits(r)
        BY <1>2, <2>0, <3>2 DEF StartWorker, ScriptFails, WorkerExits, AwaitedIsThere
      <3>3. CASE WorkerStops(r)
        BY <1>2, <2>0, <3>3 DEF WorkerStops, AwaitedIsThere
      <3> QED
        BY <2>2, <3>1, <3>2, <3>3 DEF Threading
    <2> QED
      BY <1>2, <2>1, <2>2, UnthreadedOrThreading
  <1> QED
    BY <1>1, <1>2, IInvAlways, PTL DEF Spec
=============================================================================
