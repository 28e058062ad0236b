-------------------------------- MODULE Ingest --------------------------------
(***************************************************************************)
(* The write path of /webhook/:id: LoggerMiddleware.ingestMiddleware, the  *)
(* body parsers, LoggerMiddleware.middleware, the worker of the custom     *)
(* script, and the background tasks that follow the response.              *)
(*                                                                         *)
(* One action per stretch of code between two awaits. Between them the hot *)
(* reload switches the options and the compiled script, the webhook        *)
(* expires and its data is deleted, and the other requests go on. A        *)
(* request reads the options twice, in ingestMiddleware and in middleware, *)
(* and the compiled script a third time.                                   *)
(***************************************************************************)
EXTENDS Integers, Sequences, FiniteSets

CONSTANTS
  Requests,      \* one webhook request each
  OptionSets,    \* configurations that the hot reload may switch to
  Senders,       \* signature headers (see Signature) that senders use
  Channels,      \* alert channels
  Edits,         \* what custom scripts do to an event, see AllEdits
  Null,
  MaxReloads,    \* bound: hot reloads
  MaxFaults      \* bound: rejected or hanging calls

Sig == INSTANCE Signature

Sizes == {"none", "small", "chunked", "streamed"}   \* see Arrive

(* What a script may make of the event: one with other data ("edited"), of *)
(* another webhook ("moved"), without webhookId and with responseHeaders   *)
(* or without ("anonymous", "discarded"), one whose status or header       *)
(* cannot be sent ("unsendable"), or that JSON has no form for             *)
(* ("unserializable").                                                     *)
Kinds == {"edited", "moved", "anonymous", "discarded", "unsendable",
          "unserializable"}

(* A verdict of the program, with the options it was reached under, and    *)
(* what a script has written in the place of one.                          *)
Judgements == [valid: BOOLEAN, under: OptionSets]
Claims     == [valid: BOOLEAN, under: {Null}]

Statuses == {200, 401, 503}

(* The fields that a script has set; a status that is Null was kept. A     *)
(* rewritten body refers to no payload.                                    *)
AllEdits == [kind: Kinds, status: Statuses \cup {Null},
             body: {"kept", "rewritten"},
             signature: {"kept", "deleted", "valid", "invalid"}]

Events ==
  [body: {"raw", "reference", "truncated", "rewritten"},
   signature: Judgements \cup Claims \cup {Null},
   status: Statuses, kind: Kinds \cup {"plain"}]

ASSUME ConstantsAssumption ==
  /\ MaxReloads \in Nat /\ MaxFaults \in Nat /\ IsFiniteSet(Channels)
  /\ Null \notin OptionSets \cup Judgements \cup Claims \cup Events
  /\ Null \notin Statuses /\ Edits \subseteq AllEdits

VARIABLES
  parser,     \* the JSON parser is mounted: enableJSONParsing at the start
  options,    \* #options
  compiled,   \* #compiledScript: "none" or "ok"
  live,       \* webhookManager.isValid
  cleaned,    \* cleanup() has deleted what belongs to the webhook
  stage,      \* where each request is
  req,        \* the request: size of its body, signature headers
  opts,       \* the resolved options that the request goes by
  verdict,    \* req.ingestSignatureResult
  event,      \* the event that is logged
  worker,     \* the worker thread of the custom script
  answers,    \* history: status codes sent to the client
  payloads,   \* requests with an offloaded payload in the key-value store
  emitted,    \* LOG_RECEIVED was emitted and the event broadcast
  stored,     \* in the dataset
  pushing,    \* pushData calls that nobody waits for any more
  forwarded,  \* given to the forwarding service
  alerted,    \* channels that got an alert of the request
  aborted,    \* the AbortController of the background tasks
  wasLive,    \* history: the webhook was live when the body was complete
  reloads, faults

core     == <<stage, req, opts, verdict, event, worker>>
env      == <<parser, options, compiled, live, cleaned, reloads>>
effects  == <<emitted, stored, pushing, forwarded, alerted, aborted>>
vars     == <<core, env, effects, answers, payloads, wasLive, faults>>

Fault == faults < MaxFaults /\ faults' = faults + 1

HasSignature(o) == o.provider # Null /\ o.secret # Null

\* Seeded fault: a script that does not parse is kept.
Compile_Unchecked(script) == script

(* #compileResource: a script that does not parse counts as no script.     *)
Compile(script) == IF script = "ok" THEN "ok" ELSE "none"

(* #getValidator: a schema that does not compile validates nothing.        *)
MaySatisfy(schema) == schema # "broken"

To(r, s) == stage' = [stage EXCEPT ![r] = s]

(* A response; the client gets nothing after the first one.                *)
Answer(r, status) == answers' = [answers EXCEPT ![r] = Append(@, status)]

-----------------------------------------------------------------------------
Init ==
  /\ parser \in BOOLEAN
  /\ options \in OptionSets /\ compiled = Compile(options.script)
  /\ live = TRUE /\ cleaned = FALSE
  /\ stage = [r \in Requests |-> "idle"] /\ req = [r \in Requests |-> Null]
  /\ opts = [r \in Requests |-> Null] /\ verdict = [r \in Requests |-> Null]
  /\ event = [r \in Requests |-> Null] /\ worker = [r \in Requests |-> "none"]
  /\ answers = [r \in Requests |-> <<>>]
  /\ payloads = {} /\ emitted = {} /\ stored = {} /\ pushing = {}
  /\ forwarded = {} /\ alerted = [r \in Requests |-> {}] /\ aborted = {}
  /\ wasLive = [r \in Requests |-> FALSE]
  /\ reloads = 0 /\ faults = 0

(* updateOptions: the script is compiled again only when its source has    *)
(* changed, then the options are switched, in one synchronous stretch.     *)
UpdateOptions(o) ==
  /\ reloads < MaxReloads /\ reloads' = reloads + 1
  /\ o # options
  /\ compiled' = IF o.script # options.script THEN Compile(o.script) ELSE compiled
  /\ options' = o
  /\ UNCHANGED <<core, parser, live, cleaned, effects, answers, payloads,
                 wasLive, faults>>

Expire ==
  /\ live /\ live' = FALSE
  /\ UNCHANGED <<parser, options, compiled, cleaned, reloads, core, effects,
                 answers, payloads, wasLive, faults>>

(* A logged event holds the reference to its payload.                      *)
Refers(r) == r \in emitted /\ event[r].body = "reference"

(* cleanup() finds payloads through the rows of the read model that belong *)
(* to the webhook, which the emitted events have become (or not yet), and  *)
(* deletes them, each for itself, and then the rows.                       *)
Cleanup ==
  /\ ~live /\ ~cleaned /\ cleaned' = TRUE
  /\ \E found \in SUBSET {r \in payloads : Refers(r) /\ event[r].kind # "moved"} :
       payloads' = payloads \ found
  /\ UNCHANGED <<parser, options, compiled, live, reloads, core, effects,
                 answers, wasLive, faults>>

(* The same for the webhook that a script has given an event to.           *)
CleanupElsewhere(r) ==
  /\ r \in payloads /\ Refers(r) /\ event[r].kind = "moved"
  /\ payloads' = payloads \ {r}
  /\ UNCHANGED <<core, env, effects, answers, wasLive, faults>>

-----------------------------------------------------------------------------
\* Seeded fault: a refused request falls through to the next handler.
Refuse_NoReturn(r, from, status) ==
  /\ stage[r] = from
  /\ Answer(r, status) /\ To(r, IF from = "ingest" THEN "parsing" ELSE "done")
  /\ UNCHANGED <<req, opts, verdict, event, worker, env, effects, payloads,
                 wasLive, faults>>

(* `return res.status(status).json(...)` (or sendUnauthorizedResponse).    *)
Refuse(r, from, status) ==
  /\ stage[r] = from
  /\ Answer(r, status) /\ To(r, "done")
  /\ UNCHANGED <<req, opts, verdict, event, worker, env, effects, payloads,
                 wasLive, faults>>

(* The size of the body: "streamed" by its Content-Length, "chunked" above *)
(* the same threshold without that header, "small", or "none": no body, or *)
(* one without a Content-Type, which body-parser does not read.            *)
Arrive(r, size, sender) ==
  /\ stage[r] = "idle"
  /\ req' = [req EXCEPT ![r] = [size |-> size, sender |-> sender]]
  /\ To(r, "ingest")
  /\ UNCHANGED <<opts, verdict, event, worker, env, effects, answers, payloads,
                 wasLive, faults>>

(* The loop, rate-limit (see RateLimiter) and Content-Length checks.       *)
IngestRefuses(r) == \E status \in {422, 429, 413} : Refuse(r, "ingest", status)

(* A body that is not streamed is left to the body parser.                 *)
IngestPasses(r) ==
  /\ stage[r] = "ingest" /\ req[r].size # "streamed"
  /\ To(r, "parsing")
  /\ UNCHANGED <<req, opts, verdict, event, worker, env, effects, answers,
                 payloads, wasLive, faults>>

(* No verifier for this request: 401 before the body is read.              *)
StreamRefuses(r) ==
  /\ req[r] # Null /\ req[r].size = "streamed" /\ HasSignature(options)
  /\ ~Sig!StreamVerifierStarts(options, req[r].sender)
  /\ Refuse(r, "ingest", 401)

(* The body is piped to the key-value store and to the verifier.           *)
StreamBegins(r) ==
  /\ stage[r] = "ingest" /\ req[r].size = "streamed"
  /\ HasSignature(options) => Sig!StreamVerifierStarts(options, req[r].sender)
  /\ opts' = [opts EXCEPT ![r] = options]
  /\ To(r, "streaming")
  /\ UNCHANGED <<req, verdict, event, worker, env, effects, answers, payloads,
                 wasLive, faults>>

\* Seeded fault: the digest of the stream is not compared.
StreamVerdict_NotFinalized(o, sender) == TRUE

(* finalizeStreamVerification *)
StreamVerdict(o, sender) == Sig!MacMatches(o, sender, "raw")

(* offloadToKvs has resolved; the options are those of the beginning.      *)
StreamEnds(r) ==
  /\ stage[r] = "streaming"
  /\ payloads' = payloads \cup {r}
  /\ verdict' = [verdict EXCEPT ![r] =
       IF HasSignature(opts[r])
       THEN [valid |-> StreamVerdict(opts[r], req[r].sender), under |-> opts[r]]
       ELSE Null]
  /\ wasLive' = [wasLive EXCEPT ![r] = live]
  /\ To(r, "parsed")
  /\ UNCHANGED <<req, opts, event, worker, env, effects, answers, faults>>

(* setValue is rejected, perhaps after the record was written: 500.        *)
StreamFails(r) ==
  /\ stage[r] = "streaming" /\ Fault
  /\ payloads' \in {payloads, payloads \cup {r}}
  /\ Answer(r, 500) /\ To(r, "done")
  /\ UNCHANGED <<req, opts, verdict, event, worker, env, effects, wasLive>>

(* A client that goes away leaves its body without an end: pipe() does not *)
(* end the stream that setValue reads, and nothing ever settles.           *)
ClientLeaves(r) ==
  /\ stage[r] = "streaming"
  /\ To(r, "stalled")
  /\ UNCHANGED <<req, opts, verdict, event, worker, env, effects, answers,
                 payloads, wasLive, faults>>

(* body-parser fails (limit, aborted): the error handler answers.          *)
ParserFails(r) ==
  /\ req[r] # Null /\ req[r].size # "none"
  /\ \E status \in {400, 413} : Refuse(r, "parsing", status)

(* The whole body, in a Buffer; jsonParserMiddleware, where it is mounted, *)
(* keeps req.rawBody before it parses (see HeldBody).                      *)
Parse(r) ==
  /\ stage[r] = "parsing"
  /\ wasLive' = [wasLive EXCEPT ![r] = live]
  /\ To(r, "parsed")
  /\ UNCHANGED <<req, opts, verdict, event, worker, env, effects, answers,
                 payloads, faults>>

-----------------------------------------------------------------------------
(* #validateWebhookRequest (in this order: unknown or expired webhook, IP, *)
(* key, size) and the schema of the options.                               *)
Refusals(o) ==
  IF ~live THEN {404}
  ELSE {403, 401, 413} \cup (IF o.schema # "none" THEN {400} ELSE {})

ValidateRefuses(r) == \E status \in Refusals(options) : Refuse(r, "parsed", status)

\* Seeded fault: only ingestMiddleware looks at the webhook, before the body.
Validate_LooksEarly(r) ==
  /\ stage[r] = "parsed" /\ MaySatisfy(options.schema)
  /\ opts' = [opts EXCEPT ![r] = options]
  /\ To(r, "preparing")
  /\ UNCHANGED <<req, verdict, event, worker, env, effects, answers, payloads,
                 wasLive, faults>>

(* The request is accepted under the options of now.                       *)
Validate(r) ==
  /\ stage[r] = "parsed" /\ live /\ MaySatisfy(options.schema)
  /\ opts' = [opts EXCEPT ![r] = options]
  /\ To(r, "preparing")
  /\ UNCHANGED <<req, verdict, event, worker, env, effects, answers, payloads,
                 wasLive, faults>>

\* Seeded fault: the reference is built although the upload failed.
LoggedBody_KeepsReference(r, offloaded) ==
  IF req[r].size \in {"none", "small"} THEN "raw" ELSE "reference"

(* What #prepareRequestData logs: the body, a reference to the offloaded   *)
(* one, or its beginning when the offload was rejected.                    *)
LoggedBody(r, offloaded) ==
  IF req[r].size \in {"none", "small"} THEN "raw"
  ELSE IF offloaded THEN "reference" ELSE "truncated"

(* What verifySignature is given: req.rawBody, which only the JSON parser  *)
(* sets, or JSON.stringify(req.body): of the reference that has replaced   *)
(* an offloaded body, of a Buffer, or of undefined.                        *)
HeldBody(r) ==
  IF req[r].size = "streamed" THEN "reference"
  ELSE IF req[r].size = "none" THEN "nothing"
  ELSE IF parser THEN "raw" ELSE "buffer"

(* verifySignature is called, unless the stream has a result, and throws.  *)
Throws(r) ==
  /\ HasSignature(opts[r]) /\ verdict[r] = Null
  /\ Sig!VerifySignatureThrows(opts[r], req[r].sender, HeldBody(r))

(* Step 3a of middleware: the result of the stream, if there is one.       *)
SignatureOf(r) ==
  LET o == opts[r]
  IN  IF ~HasSignature(o) THEN Null
      ELSE IF verdict[r] # Null THEN verdict[r]
      ELSE [valid |-> Sig!VerifySignature(o, req[r].sender, HeldBody(r)), under |-> o]

(* The event; an invalid signature makes the answer a 401, and the request *)
(* is logged all the same. `forced` is ?status= or the default code.       *)
BuildEvent(r, offloaded, forced) ==
  LET signature == SignatureOf(r)
  IN  event' = [event EXCEPT ![r] =
        [body |-> LoggedBody(r, offloaded), signature |-> signature,
         status |-> IF signature # Null /\ ~signature.valid THEN 401 ELSE forced,
         kind |-> "plain"]]

Prepare(r, forced) ==
  /\ stage[r] = "preparing" /\ ~Throws(r)
  /\ payloads' = IF req[r].size = "chunked" THEN payloads \cup {r} ELSE payloads
  /\ BuildEvent(r, TRUE, forced)
  /\ To(r, "transforming")
  /\ UNCHANGED <<req, opts, verdict, worker, env, effects, answers, wasLive,
                 faults>>

(* The offload is rejected, perhaps after the record was written.          *)
PrepareTruncates(r, forced) ==
  /\ stage[r] = "preparing" /\ ~Throws(r) /\ req[r].size = "chunked" /\ Fault
  /\ payloads' \in {payloads, payloads \cup {r}}
  /\ BuildEvent(r, FALSE, forced)
  /\ To(r, "transforming")
  /\ UNCHANGED <<req, opts, verdict, worker, env, effects, answers, wasLive>>

(* verifySignature throws, after the body was offloaded or was not: the    *)
(* error handler answers and nothing is logged.                            *)
VerificationThrows(r) ==
  /\ stage[r] = "preparing" /\ Throws(r)
  /\ \/ /\ payloads' = IF req[r].size = "chunked" THEN payloads \cup {r} ELSE payloads
        /\ UNCHANGED faults
     \/ req[r].size = "chunked" /\ Fault /\ UNCHANGED payloads
  /\ Answer(r, 500) /\ To(r, "done")
  /\ UNCHANGED <<req, opts, verdict, event, worker, env, effects, wasLive>>

-----------------------------------------------------------------------------
(* #transformRequestData with no compiled script.                          *)
SkipScript(r) ==
  /\ stage[r] = "transforming" /\ compiled = "none"
  /\ To(r, "answering")
  /\ UNCHANGED <<req, opts, verdict, event, worker, env, effects, answers,
                 payloads, wasLive, faults>>

(* executeCustomScript: the script compiled last, whatever opts say.       *)
StartWorker(r) ==
  /\ stage[r] = "transforming" /\ compiled = "ok"
  /\ worker' = [worker EXCEPT ![r] = "running"]
  /\ To(r, "scripting")
  /\ UNCHANGED <<req, opts, verdict, event, env, effects, answers, payloads,
                 wasLive, faults>>

(* restoreSandboxEvent: every field comes back as the script has left it.  *)
Edited(e, edit) ==
  [body |-> IF edit.body = "kept" THEN e.body ELSE "rewritten",
   signature |-> CASE edit.signature = "kept" -> e.signature
                   [] edit.signature = "deleted" -> Null
                   [] OTHER -> [valid |-> edit.signature = "valid", under |-> Null],
   status |-> IF edit.status = Null THEN e.status ELSE edit.status,
   kind |-> edit.kind]

(* The message {ok: true}: the worker is told to terminate, the request    *)
(* does not wait for that.                                                 *)
ScriptSucceeds(r, edit) ==
  /\ stage[r] = "scripting" /\ worker[r] = "running"
  /\ event' = [event EXCEPT ![r] = Edited(@, edit)]
  /\ worker' = [worker EXCEPT ![r] = "stopping"]
  /\ To(r, "answering")
  /\ UNCHANGED <<req, opts, verdict, env, effects, answers, payloads, wasLive,
                 faults>>

(* {ok: false} (an exception, the time limit) or an "error" event: the     *)
(* event stays as it was, once the worker has been terminated.             *)
ScriptFails(r) ==
  /\ stage[r] = "scripting" /\ worker[r] = "running"
  /\ worker' = [worker EXCEPT ![r] = "stopping"]
  /\ To(r, "terminating")
  /\ UNCHANGED <<req, opts, verdict, event, env, effects, answers, payloads,
                 wasLive, faults>>

(* The thread dies of itself with a code other than 0: nothing to await.   *)
WorkerExits(r) ==
  /\ stage[r] = "scripting" /\ worker[r] = "running"
  /\ worker' = [worker EXCEPT ![r] = "gone"]
  /\ To(r, "answering")
  /\ UNCHANGED <<req, opts, verdict, event, env, effects, answers, payloads,
                 wasLive, faults>>

\* Seeded fault: nobody waits for the end of the worker.
WorkerStops_Unheard(r) ==
  /\ worker[r] = "stopping"
  /\ worker' = [worker EXCEPT ![r] = "gone"]
  /\ UNCHANGED <<stage, req, opts, verdict, event, env, effects, answers,
                 payloads, wasLive, faults>>

(* terminate() has resolved.                                               *)
WorkerStops(r) ==
  /\ worker[r] = "stopping"
  /\ worker' = [worker EXCEPT ![r] = "gone"]
  /\ IF stage[r] = "terminating" THEN To(r, "answering") ELSE UNCHANGED stage
  /\ UNCHANGED <<req, opts, verdict, event, env, effects, answers, payloads,
                 wasLive, faults>>

-----------------------------------------------------------------------------
(* #sendResponse throws: the error handler answers, nothing is logged.     *)
SendFails(r) ==
  /\ stage[r] = "answering" /\ event[r].kind = "unsendable"
  /\ Answer(r, 500) /\ To(r, "done")
  /\ UNCHANGED <<req, opts, verdict, event, worker, env, effects, payloads,
                 wasLive, faults>>

Logs(e) == e.kind \notin {"anonymous", "discarded"}

(* The next await of the background tasks, if `forward` is still to come.  *)
Background(r, forward) ==
  IF forward /\ opts[r].forward /\ r \notin aborted THEN "forwarding" ELSE "alerting"

(* #sendResponse after the delay, then #executeBackgroundTasks up to its   *)
(* first await: the event is emitted and broadcast before it is pushed. An *)
(* event that cannot be serialized makes the broadcast throw.              *)
Respond(r) ==
  LET e == event[r]
  IN  /\ stage[r] = "answering" /\ e.kind # "unsendable"
      /\ Answer(r, e.status)
      /\ emitted' = IF Logs(e) THEN emitted \cup {r} ELSE emitted
      /\ To(r, CASE e.kind \in {"discarded", "unserializable"} -> "alerting"
                 [] e.kind = "anonymous" -> Background(r, TRUE)
                 [] OTHER -> "pushing")
      /\ UNCHANGED <<req, opts, verdict, event, worker, env, stored, pushing,
                     forwarded, alerted, aborted, payloads, wasLive, faults>>

PushData(r) ==
  /\ stage[r] = "pushing"
  /\ stored' = stored \cup {r}
  /\ To(r, Background(r, TRUE))
  /\ UNCHANGED <<req, opts, verdict, event, worker, env, emitted, pushing,
                 forwarded, alerted, aborted, answers, payloads, wasLive,
                 faults>>

(* pushData is rejected, or loses the race against its timeout and may     *)
(* still take effect: the catch block leaves out the forwarding.           *)
PushFails(r) ==
  /\ stage[r] = "pushing" /\ Fault
  /\ pushing' \in {pushing, pushing \cup {r}}
  /\ To(r, "alerting")
  /\ UNCHANGED <<req, opts, verdict, event, worker, env, emitted, stored,
                 forwarded, alerted, aborted, answers, payloads, wasLive>>

LatePush(r) ==
  /\ r \in pushing /\ pushing' = pushing \ {r} /\ stored' = stored \cup {r}
  /\ UNCHANGED <<core, env, emitted, forwarded, alerted, aborted, answers,
                 payloads, wasLive, faults>>

(* forwardWebhook (see Forwarding) has come to its end.                    *)
Forward(r) ==
  /\ stage[r] = "forwarding"
  /\ forwarded' = forwarded \cup {r}
  /\ To(r, "alerting")
  /\ UNCHANGED <<req, opts, verdict, event, worker, env, emitted, stored,
                 pushing, alerted, aborted, answers, payloads, wasLive,
                 faults>>

(* The timeout of the background tasks: it aborts, and only that.          *)
Abort(r) ==
  /\ stage[r] \in {"pushing", "forwarding", "alerting"} /\ r \notin aborted
  /\ Fault
  /\ aborted' = aborted \cup {r}
  /\ UNCHANGED <<core, env, emitted, stored, pushing, forwarded, alerted,
                 answers, payloads, wasLive>>

(* The context of middleware has no `error`: "error" and "timeout" never   *)
(* trigger.                                                                *)
ShouldAlert(o, e) ==
  \/ "signature_invalid" \in o.alertOn /\ e.signature # Null /\ ~e.signature.valid
  \/ "4xx" \in o.alertOn /\ e.status \in 400..499
  \/ "5xx" \in o.alertOn /\ e.status >= 500

(* sendAlert: the channels are notified side by side and fail alone; the   *)
(* abort of the background tasks does not keep alerts from being sent.     *)
Alert(r, reached) ==
  /\ stage[r] = "alerting"
  /\ reached \subseteq (IF ShouldAlert(opts[r], event[r]) THEN opts[r].channels ELSE {})
  /\ alerted' = [alerted EXCEPT ![r] = reached]
  /\ To(r, "done")
  /\ UNCHANGED <<req, opts, verdict, event, worker, env, emitted, stored,
                 pushing, forwarded, aborted, answers, payloads, wasLive,
                 faults>>

-----------------------------------------------------------------------------
Server(r) ==
  \/ IngestRefuses(r) \/ IngestPasses(r) \/ StreamRefuses(r) \/ StreamBegins(r)
  \/ StreamFails(r) \/ ParserFails(r) \/ Parse(r)
  \/ ValidateRefuses(r) \/ Validate(r)
  \/ \E forced \in {200, 503} : Prepare(r, forced) \/ PrepareTruncates(r, forced)
  \/ VerificationThrows(r)
  \/ SkipScript(r) \/ StartWorker(r)
  \/ \E edit \in Edits : ScriptSucceeds(r, edit)
  \/ ScriptFails(r) \/ WorkerExits(r) \/ WorkerStops(r)
  \/ SendFails(r) \/ Respond(r) \/ PushData(r) \/ PushFails(r) \/ Forward(r)
  \/ \E reached \in SUBSET Channels : Alert(r, reached)

Next ==
  \/ \E o \in OptionSets : UpdateOptions(o)
  \/ Expire \/ Cleanup
  \/ \E r \in Requests :
       \/ \E size \in Sizes, sender \in Senders : Arrive(r, size, sender)
       \/ Server(r) \/ StreamEnds(r) \/ ClientLeaves(r) \/ LatePush(r) \/ Abort(r)
       \/ CleanupElsewhere(r)

Spec == Init /\ [][Next]_vars

(* Storage, the worker, the alert services and the timers answer in the    *)
(* end, each call with a result or an error; a stream ends or its client   *)
(* leaves. Nothing makes a request arrive, a fault happen or a webhook     *)
(* expire.                                                                 *)
FairSpec ==
  /\ Spec
  /\ \A r \in Requests : WF_vars(Server(r)) /\ WF_vars(StreamEnds(r) \/ ClientLeaves(r))

-----------------------------------------------------------------------------
Stages == {"idle", "ingest", "streaming", "stalled", "parsing", "parsed", "preparing",
           "transforming", "scripting", "terminating", "answering", "pushing",
           "forwarding", "alerting", "done"}

(* Every variable has the shape that the code gives it.                    *)
TypeOK ==
  /\ parser \in BOOLEAN
  /\ options \in OptionSets /\ compiled \in {"none", "ok"}
  /\ live \in BOOLEAN /\ cleaned \in BOOLEAN
  /\ stage \in [Requests -> Stages]
  /\ req \in [Requests -> [size: Sizes, sender: Senders] \cup {Null}]
  /\ opts \in [Requests -> OptionSets \cup {Null}]
  /\ verdict \in [Requests -> Judgements \cup {Null}]
  /\ event \in [Requests -> Events \cup {Null}]
  /\ worker \in [Requests -> {"none", "running", "stopping", "gone"}]
  /\ \A r \in Requests : Len(answers[r]) \in Nat
  /\ payloads \subseteq Requests /\ emitted \subseteq Requests
  /\ stored \subseteq Requests /\ pushing \subseteq Requests
  /\ forwarded \subseteq Requests /\ alerted \in [Requests -> SUBSET Channels]
  /\ aborted \subseteq Requests /\ wasLive \in [Requests -> BOOLEAN]
  /\ reloads \in 0..MaxReloads /\ faults \in 0..MaxFaults

(* A request gets one answer, and one that is refused or fails leaves      *)
(* nothing: whatever is emitted, stored, forwarded or alerted belongs to   *)
(* an event that the client has been answered with the status of. The      *)
(* early returns of both middlewares and the order of sendResponse and the *)
(* background tasks are what this rests on. The worker of a script that    *)
(* failed has ended before the answer.                                     *)
AnsweredOnce ==
  \A r \in Requests :
    /\ Len(answers[r]) <= 1
    /\ stage[r] = "done" => Len(answers[r]) = 1
    /\ answers[r] # <<>> /\ worker[r] \in {"running", "stopping"}
         => event[r].kind # "plain"
    /\ r \in emitted \cup stored \cup pushing \cup forwarded \/ alerted[r] # {}
         => /\ event[r] # Null /\ event[r].kind # "unsendable"
            /\ answers[r] = <<event[r].status>>
    /\ alerted[r] # {} =>
         \/ event[r].status >= 400
         \/ event[r].signature # Null /\ ~event[r].signature.valid

(* The sender has signed for these options, within the tolerance.          *)
Genuine(o, sender) ==
  /\ sender # Null /\ sender.for = o.provider /\ sender.secret = o.secret
  /\ sender.stamp = "stale" => ~Sig!ReadsStamp(o)

(* A request that was accepted under options with a signature carries a    *)
(* verdict until a script takes it away. A valid verdict of the program    *)
(* was earned from the secret of the options it was reached under, also    *)
(* when the hot reload came while the body streamed. The program calls a   *)
(* genuine request invalid only for its format; where no JSON parser was   *)
(* mounted at the start, because the Buffer's JSON was verified; or when   *)
(* it streamed under options without signature and was judged by the       *)
(* reference that had replaced its body. An invalid one is answered 401    *)
(* unless a script or the failure to send says otherwise.                  *)
SignatureHonoured ==
  \A r \in Requests : event[r] # Null =>
    LET s      == event[r].signature
        judged == s # Null /\ s.under # Null
        sender == req[r].sender
    IN  /\ event[r].kind = "plain" => (HasSignature(opts[r]) <=> s # Null)
        /\ event[r].kind = "plain" /\ s # Null => judged
        /\ judged /\ s.valid => Genuine(s.under, sender)
        /\ judged /\ ~s.valid =>
             /\ event[r].kind = "plain" => event[r].status = 401
             /\ \/ ~Genuine(s.under, sender) \/ Sig!ContextError(s.under, sender)
                \/ IF req[r].size = "streamed" THEN verdict[r] = Null ELSE ~parser

(* The payload that a logged event refers to is in the key-value store     *)
(* until the webhook is cleaned up, or the webhook that a script has given *)
(* the event to; a payload that no logged event refers to belongs to a     *)
(* request that is under way, was refused or failed, whose script took the *)
(* event out of the log or rewrote its body, whose event was truncated, or *)
(* whose client left.                                                      *)
PayloadsAccounted ==
  \A r \in Requests :
    /\ Refers(r) => r \in payloads \/ cleaned \/ event[r].kind = "moved"
    /\ r \in payloads /\ stage[r] = "done" /\ ~Refers(r) =>
         \/ answers[r][1] >= 400
         \/ ~Logs(event[r]) \/ event[r].body \in {"truncated", "rewritten"}

(* A request is accepted only for a webhook that was live when its whole   *)
(* body had arrived, however long that took; and what is forwarded is in   *)
(* the dataset, unless a script has made the event anonymous.              *)
EffectsJustified ==
  \A r \in Requests :
    /\ event[r] # Null => wasLive[r]
    /\ r \in forwarded => r \in stored \/ event[r].kind = "anonymous"

(* Every request whose body ends is answered and its background tasks end, *)
(* with whatever script, offload or storage failure.                       *)
EveryRequestSettles ==
  \A r \in Requests :
    stage[r] # "idle" ~> stage[r] \in {"done", "stalled"}
=============================================================================
