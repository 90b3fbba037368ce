--------------------------- MODULE LocalInference ---------------------------
(***************************************************************************)
(* LocalInferenceRuntime of packages/aiai-webllm: the lifecycle of one     *)
(* browser-local model.  JavaScript runs one callback at a time, so a step *)
(* is what a call does between two awaits; `pc[t]` is where the call in    *)
(* slot t waits, `answer[t]` what the host (src/webllm-host.ts) has        *)
(* resolved it with and the runtime has not yet taken.  Other calls run in *)
(* between, which is what the model is about.  The host's createEngine is  *)
(* modelled in its own steps: an engine is known by the worker it runs in. *)
(* The runtime is for one entry of a served catalog (ServedCatalog).       *)
(*                                                                         *)
(* A call that is refused (busy, not_ready, unavailable, invalid_request), *)
(* joins a running load or finds nothing to do changes no state: it is a   *)
(* stuttering step.  Listeners are taken to observe only.                  *)
(***************************************************************************)
EXTENDS ServedCatalog, FiniteSets

CONSTANTS
  Tasks,    \* slots for the calls in flight
  Engines,  \* engines, each with its worker; an identity is free again once released
  None,     \* undefined
  Awaits,   \* the product awaits each lifecycle call before it makes the next one
  Catalogs, \* catalogs a product may write
  Adapters  \* what the WebGPU adapter of a device may offer

\* What a host call settles with when it does not return an engine.
Replies == {"supported", "unsupported", "cached", "uncached", "done", "error"}

ASSUME NoneAssumption ==
  None \notin Tasks /\ None \notin Engines /\ None \notin Adapters /\ None \notin Replies
ASSUME EnginesAssumption == Engines \intersect Replies = {}
ASSUME AwaitsAssumption == Awaits \in BOOLEAN
ASSUME AdaptersAssumption == Adapters \subseteq DeviceCapability

\* A single token in an identifier is true of the library it names.
ASSUME CatalogAssumption ==
  \A models \in Catalogs :
    /\ models \in Seq(ServedModel)
    /\ \A i \in DOMAIN models :
         LET stated == ParseQuantization(models[i].id)
         IN  stated # {} => models[i].half = ("f16" \in stated)

VARIABLES
  state,          \* #state, what the product renders
  engine,         \* #engine
  loadOperation,  \* #loadOperation, the slot of the load in flight
  pc, answer,
  op,             \* the method a slot runs
  previous,       \* #performLoad's `previous`
  aborted,        \* the slot's load controller was aborted
  using,          \* the engine a call captured, or whose worker it started
  live,           \* engines whose worker has not been terminated
  cache,          \* the model's artifacts in browser storage
  setting         \* the catalog, the entry this runtime is for, and the adapter

runtime == <<state, engine, loadOperation>>
calls == <<pc, answer, op, previous, aborted, using>>
world == <<live, cache, setting>>
vars == <<runtime, calls, world>>

-----------------------------------------------------------------------------
Idle == [kind |-> "idle"]
Probing == [kind |-> "probing"]
Unavailable(reason) == [kind |-> "unavailable", reason |-> reason]
Supported(cached) == [kind |-> "supported", cached |-> cached]
Loading(cached) == [kind |-> "loading", cachedBeforeLoad |-> cached]
Ready == [kind |-> "ready"]
Generating == [kind |-> "generating"]
Failed(operation, loaded) ==
  [kind |-> "failed", operation |-> operation, modelLoaded |-> loaded]

States ==
  {Idle, Probing, Ready, Generating}
    \union {Unavailable(r) : r \in {"no_adapter", "device_limits_insufficient",
                                    "model_features_unavailable"}}
    \union {Supported(c) : c \in BOOLEAN} \union {Loading(c) : c \in BOOLEAN}
    \union {Failed("probe", FALSE), Failed("load", FALSE),
            Failed("generate", TRUE), Failed("unload", TRUE)}

\* The entry this runtime is for.
model == setting.models[setting.entry]

\* The host call a slot waits for, by the place in the method that made it.
CapabilityPoints == {"gpu", "cache"}
LoadPoints == {"create", "release", "settle_cache"}
EvictPoints == {"evict", "evict_cache"}
UnloadPoints == {"unload", "unload_cache"}
AwaitPoints == CapabilityPoints \union LoadPoints \union EvictPoints \union UnloadPoints
StreamPoints == {"stream", "yielded"}
Points == AwaitPoints \union StreamPoints \union {"free", "preflight", "settled"}

Lifecycle(t) == pc[t] \notin StreamPoints \union {"free"}
Streaming(t) == pc[t] \in StreamPoints

TypeOK ==
  /\ state \in States
  /\ engine \in Engines \union {None}
  /\ loadOperation \in Tasks \union {None}
  /\ pc \in [Tasks -> Points]
  /\ answer \in [Tasks -> Engines \union Replies \union {None}]
  /\ op \in [Tasks -> {"probe", "load", "evict", "unload", "stream"}]
  /\ previous \in [Tasks -> States]
  /\ aborted \in [Tasks -> BOOLEAN]
  /\ using \in [Tasks -> Engines \union {None}]
  /\ live \subseteq Engines
  /\ cache \in {"none", "partial", "full"}
  /\ setting.models \in Catalogs /\ ValidCatalog(setting.models)
  /\ setting.entry \in DOMAIN setting.models
  /\ setting.adapter \in Adapters \union {None}
  /\ \A t \in Tasks : Streaming(t) \/ pc[t] \in {"release", "unload"}
                        => using[t] \in Engines

-----------------------------------------------------------------------------
(* The product's discipline, and moving a slot on.                         *)

\* A lifecycle call is made when the product has awaited the one before.
InTurn == Awaits => \A t \in Tasks : ~Lifecycle(t)

\* Text is asked for while nothing is being unloaded.
MayStream == Awaits => \A t \in Tasks : pc[t] \notin UnloadPoints

Goto(t, point) == pc' = [pc EXCEPT ![t] = point] /\ answer' = [answer EXCEPT ![t] = None]

\* A settled slot forgets what it ran.
Finish(t) ==
  /\ Goto(t, "free")
  /\ op' = [op EXCEPT ![t] = "probe"]
  /\ previous' = [previous EXCEPT ![t] = Idle]
  /\ aborted' = [aborted EXCEPT ![t] = FALSE]
  /\ using' = [using EXCEPT ![t] = None]

Start(t, method, point) ==
  /\ pc[t] = "free"
  /\ Goto(t, point)
  /\ op' = [op EXCEPT ![t] = method]

Answered(t, point) == pc[t] = point /\ answer[t] # None

\* hasModelInCache's answer as the `cached` flag.
Flag(reply) == reply = "cached"

-----------------------------------------------------------------------------
(* Reading the device: #readCapability, for probe() and for load().        *)

Probe(t) ==
  /\ InTurn
  /\ engine = None /\ loadOperation = None /\ state # Probing
  /\ Start(t, "probe", "gpu")
  /\ state' = Probing
  /\ UNCHANGED <<engine, loadOperation, previous, aborted, using, world>>

\* The verdict is recorded; a load goes on in a later turn of the event loop.
Verdict(t, verdict) ==
  /\ state' = verdict
  /\ UNCHANGED <<engine, loadOperation, world>>
  /\ IF op[t] = "load"
       THEN Goto(t, "preflight") /\ UNCHANGED <<op, previous, aborted, using>>
       ELSE Finish(t)

\* An adapter below the engine's floor, or without what the entry needs, is refused here.
Judge(t, capability) ==
  \/ /\ BelowRuntimeFloor(capability)
     /\ Verdict(t, Unavailable("device_limits_insufficient"))
  \/ /\ ~BelowRuntimeFloor(capability)
     /\ MissingFeatures(capability, EffectiveRequiredFeatures(model)) # {}
     /\ Verdict(t, Unavailable("model_features_unavailable"))
  \/ /\ ~BelowRuntimeFloor(capability)
     /\ MissingFeatures(capability, EffectiveRequiredFeatures(model)) = {}
     /\ Goto(t, "cache")
     /\ UNCHANGED <<runtime, op, previous, aborted, using, world>>

ResumeGpu_ErrorEscapes(t) ==  \* mutant: a rejected probe is not recorded
  /\ Answered(t, "gpu")
  /\ \/ answer[t] = "error" /\ Finish(t) /\ UNCHANGED <<runtime, world>>
     \/ answer[t] = "unsupported" /\ Verdict(t, Unavailable("no_adapter"))
     \/ answer[t] = "supported" /\ Judge(t, setting.adapter)

ResumeGpu(t) ==
  /\ Answered(t, "gpu")
  /\ \/ answer[t] = "error" /\ Verdict(t, Failed("probe", FALSE))
     \/ answer[t] = "unsupported" /\ Verdict(t, Unavailable("no_adapter"))
     \/ answer[t] = "supported" /\ Judge(t, setting.adapter)

ResumeCache(t) ==
  /\ Answered(t, "cache")
  /\ \/ answer[t] = "error" /\ Verdict(t, Failed("probe", FALSE))
     \/ answer[t] # "error" /\ Verdict(t, Supported(Flag(answer[t])))

-----------------------------------------------------------------------------
(* Loading.                                                                *)

BeginCreate(t, cached) ==
  /\ state' = Loading(cached)
  /\ Goto(t, "create")

\* load() with an engine loaded brings a failed lifecycle back to ready.
LoadAgain ==
  /\ InTurn
  /\ engine # None
  /\ state \notin {Ready, Generating}
  /\ state' = Ready
  /\ UNCHANGED <<engine, loadOperation, calls, world>>

Load_Trusting(t) ==  \* mutant: the capability is read by probe() alone
  /\ InTurn
  /\ engine = None /\ loadOperation = None /\ state.kind # "unavailable"
  /\ pc[t] = "free"
  /\ op' = [op EXCEPT ![t] = "load"]
  /\ loadOperation' = t
  /\ previous' = [previous EXCEPT ![t] = state]
  /\ BeginCreate(t, state.kind = "supported" /\ state.cached)
  /\ UNCHANGED <<engine, aborted, using, world>>

\* The load starts: it runs up to its first await before `load` returns.
Load(t) ==
  /\ InTurn
  /\ engine = None /\ loadOperation = None /\ state.kind # "unavailable"
  /\ pc[t] = "free"
  /\ op' = [op EXCEPT ![t] = "load"]
  /\ loadOperation' = t
  /\ previous' = [previous EXCEPT ![t] = state]
  /\ IF state.kind = "supported" THEN BeginCreate(t, state.cached)
                                 ELSE state' = Probing /\ Goto(t, "gpu")
  /\ UNCHANGED <<engine, aborted, using, world>>

\* cancelLoad(), or the signal of any caller of the load.
Cancel ==
  /\ loadOperation # None
  /\ ~aborted[loadOperation]
  /\ aborted' = [aborted EXCEPT ![loadOperation] = TRUE]
  /\ UNCHANGED <<runtime, pc, answer, op, previous, using, world>>

SettleAfterCancel(t) ==
  IF previous[t].kind = "supported"
    THEN Goto(t, "settle_cache") /\ UNCHANGED state
    ELSE Goto(t, "settled") /\ state' = Idle

\* What the preflight reads is the state by then, not the verdict it awaited.
Preflight(t) ==
  /\ pc[t] = "preflight"
  /\ \/ aborted[t] /\ SettleAfterCancel(t) /\ UNCHANGED previous
     \/ /\ ~aborted[t] /\ state.kind # "supported"
        /\ Goto(t, "settled") /\ UNCHANGED <<state, previous>>
     \/ /\ ~aborted[t] /\ state.kind = "supported"
        /\ previous' = [previous EXCEPT ![t] = state]
        /\ BeginCreate(t, state.cached)
  /\ UNCHANGED <<engine, loadOperation, op, aborted, using, world>>

\* A progress report of the worker in which the engine is being created.
Progress(t) ==
  /\ pc[t] = "create" /\ answer[t] = None /\ using[t] # None /\ ~aborted[t]
  /\ state' = Loading(previous[t].cached)
  /\ UNCHANGED <<engine, loadOperation, calls, world>>

LetGo(t) == using' = [using EXCEPT ![t] = None]

ResumeCreate_KeepsNothing(t) ==  \* mutant: a late abort drops the engine unreleased
  /\ Answered(t, "create")
  /\ \/ /\ aborted[t]
        /\ SettleAfterCancel(t) /\ UNCHANGED engine
     \/ /\ answer[t] # "error" /\ ~aborted[t]
        /\ engine' = answer[t] /\ state' = Ready
        /\ Goto(t, "settled")
     \/ /\ answer[t] = "error" /\ ~aborted[t]
        /\ state' = Failed("load", FALSE)
        /\ Goto(t, "settled") /\ UNCHANGED engine
  /\ LetGo(t)
  /\ UNCHANGED <<loadOperation, op, previous, aborted, world>>

ResumeCreate_CancelFails(t) ==  \* mutant: a rejected creation is always a failure
  /\ Answered(t, "create")
  /\ \/ /\ answer[t] = "error"
        /\ state' = Failed("load", FALSE)
        /\ Goto(t, "settled") /\ LetGo(t) /\ UNCHANGED engine
     \/ /\ answer[t] # "error" /\ aborted[t]
        /\ Goto(t, "release") /\ UNCHANGED <<state, engine, using>>
     \/ /\ answer[t] # "error" /\ ~aborted[t]
        /\ engine' = answer[t] /\ state' = Ready
        /\ Goto(t, "settled") /\ LetGo(t)
  /\ UNCHANGED <<loadOperation, op, previous, aborted, world>>

ResumeCreate(t) ==
  /\ Answered(t, "create")
  /\ \/ /\ answer[t] = "error" /\ aborted[t]
        /\ SettleAfterCancel(t) /\ LetGo(t) /\ UNCHANGED engine
     \/ /\ answer[t] = "error" /\ ~aborted[t]
        /\ state' = Failed("load", FALSE)
        /\ Goto(t, "settled") /\ LetGo(t) /\ UNCHANGED engine
     \/ /\ answer[t] # "error" /\ aborted[t]
        /\ Goto(t, "release") /\ UNCHANGED <<state, engine, using>>
     \/ /\ answer[t] # "error" /\ ~aborted[t]
        /\ engine' = answer[t] /\ state' = Ready
        /\ Goto(t, "settled") /\ LetGo(t)
  /\ UNCHANGED <<loadOperation, op, previous, aborted, world>>

\* Whether the release failed or not, the load was cancelled.
ResumeRelease(t) ==
  /\ Answered(t, "release")
  /\ SettleAfterCancel(t)
  /\ UNCHANGED <<engine, loadOperation, op, previous, aborted, using, world>>

ResumeSettle(t) ==
  /\ Answered(t, "settle_cache")
  /\ state' = IF answer[t] = "error" THEN Idle ELSE Supported(Flag(answer[t]))
  /\ Goto(t, "settled")
  /\ UNCHANGED <<engine, loadOperation, op, previous, aborted, using, world>>

\* clearOperation, a turn after the operation settled.
Clear_Forgets(t) ==  \* mutant: the operation is not cleared
  /\ pc[t] = "settled"
  /\ Finish(t)
  /\ UNCHANGED <<runtime, world>>
Clear(t) ==
  /\ pc[t] = "settled"
  /\ loadOperation' = IF loadOperation = t THEN None ELSE loadOperation
  /\ Finish(t)
  /\ UNCHANGED <<state, engine, world>>

-----------------------------------------------------------------------------
(* Evicting and unloading.                                                 *)

Evict(t) ==
  /\ InTurn
  /\ loadOperation = None /\ engine = None
  /\ Start(t, "evict", "evict")
  /\ UNCHANGED <<runtime, previous, aborted, using, world>>

ResumeEvict_NoReread(t) ==  \* mutant: the flag of `supported` is left as it was
  /\ Answered(t, "evict")
  /\ Finish(t)
  /\ UNCHANGED <<runtime, world>>
ResumeEvict(t) ==
  /\ Answered(t, "evict")
  /\ IF answer[t] = "done" /\ state.kind = "supported"
       THEN Goto(t, "evict_cache") /\ UNCHANGED <<op, previous, aborted, using>>
       ELSE Finish(t)
  /\ UNCHANGED <<runtime, world>>

ResumeEvictCache(t) ==
  /\ Answered(t, "evict_cache")
  /\ state' = IF answer[t] = "error" THEN Idle ELSE Supported(Flag(answer[t]))
  /\ Finish(t)
  /\ UNCHANGED <<engine, loadOperation, world>>

Unload_NoEngine(t) ==  \* mutant: without the early return
  /\ InTurn
  /\ loadOperation = None /\ state # Generating
  /\ Start(t, "unload", "unload")
  /\ using' = [using EXCEPT ![t] = engine]
  /\ UNCHANGED <<runtime, previous, aborted, world>>

Unload_WhileGenerating(t) ==  \* mutant: without the generation guard
  /\ InTurn
  /\ loadOperation = None /\ engine # None
  /\ Start(t, "unload", "unload")
  /\ using' = [using EXCEPT ![t] = engine]
  /\ UNCHANGED <<runtime, previous, aborted, world>>

Unload(t) ==
  /\ InTurn
  /\ loadOperation = None /\ engine # None /\ state # Generating
  /\ Start(t, "unload", "unload")
  /\ using' = [using EXCEPT ![t] = engine]
  /\ UNCHANGED <<runtime, previous, aborted, world>>

\* The engine is forgotten before the cache is read, the state changes after.
ResumeUnload(t) ==
  /\ Answered(t, "unload")
  /\ \/ /\ answer[t] = "error"
        /\ state' = Failed("unload", TRUE)
        /\ Finish(t) /\ UNCHANGED engine
     \/ /\ answer[t] = "done"
        /\ engine' = None
        /\ Goto(t, "unload_cache") /\ UNCHANGED <<state, op, previous, aborted, using>>
  /\ UNCHANGED <<loadOperation, world>>

ResumeUnloadCache(t) ==
  /\ Answered(t, "unload_cache")
  /\ state' = IF answer[t] = "error" THEN Failed("unload", TRUE)
                                     ELSE Supported(Flag(answer[t]))
  /\ Finish(t)
  /\ UNCHANGED <<engine, loadOperation, world>>

-----------------------------------------------------------------------------
(* Generating.                                                             *)

\* The generator's body, from the consumer's first pull to its first await.
Stream(t) ==
  /\ MayStream
  /\ engine # None /\ state = Ready
  /\ Start(t, "stream", "stream")
  /\ using' = [using EXCEPT ![t] = engine]
  /\ state' = Generating
  /\ UNCHANGED <<engine, loadOperation, previous, aborted, world>>

\* A chunk reaches the consumer, or the consumer pulls the next one.
Chunk(t) ==
  /\ \/ pc[t] = "stream" /\ using[t] \in live /\ Goto(t, "yielded")
     \/ pc[t] = "yielded" /\ Goto(t, "stream")
  /\ UNCHANGED <<runtime, op, previous, aborted, using, world>>

StreamEnds_SkipsFinally(t) ==  \* mutant: leaving early skips the `finally` block
  /\ \/ pc[t] = "stream" /\ using[t] \in live /\ state' = Ready
     \/ pc[t] = "yielded" /\ UNCHANGED state
  /\ Finish(t)
  /\ UNCHANGED <<engine, loadOperation, world>>

\* The text ends, or the consumer leaves early at a chunk (interrupting the engine).
StreamEnds(t) ==
  /\ \/ pc[t] = "stream" /\ using[t] \in live
     \/ pc[t] = "yielded"
  /\ state' = Ready
  /\ Finish(t)
  /\ UNCHANGED <<engine, loadOperation, world>>

StreamFails(t) ==
  /\ pc[t] = "stream"
  /\ state' = Failed("generate", TRUE)
  /\ Finish(t)
  /\ UNCHANGED <<engine, loadOperation, world>>

-----------------------------------------------------------------------------
(* The host.  Any call of it may reject.                                   *)

Reply(t, reply) ==
  /\ pc[t] \in AwaitPoints /\ answer[t] = None
  /\ answer' = [answer EXCEPT ![t] = reply]
  /\ UNCHANGED <<runtime, pc, op, previous, aborted, using>>

\* probeWebGpu and hasModelInCache.
HostReads(t) ==
  /\ \/ /\ pc[t] = "gpu"
        /\ \E reply \in {IF setting.adapter = None THEN "unsupported" ELSE "supported",
                         "error"} : Reply(t, reply)
     \/ /\ pc[t] \in {"cache", "settle_cache", "evict_cache", "unload_cache"}
        /\ \E reply \in {IF cache = "full" THEN "cached" ELSE "uncached", "error"} :
             Reply(t, reply)
  /\ UNCHANGED world

\* Engines nothing refers to.
FreshEngines == Engines \ (live \union {engine} \union {using[t] : t \in Tasks})

\* createEngine up to its first await: a load that was aborted by then, or a worker
\* factory that throws, starts nothing.
HostStarts(t) ==
  /\ pc[t] = "create" /\ answer[t] = None /\ using[t] = None
  /\ \/ Reply(t, "error") /\ UNCHANGED live
     \/ /\ ~aborted[t]
        /\ \E worker \in FreshEngines :
             using' = [using EXCEPT ![t] = worker] /\ live' = live \union {worker}
        /\ UNCHANGED <<runtime, pc, answer, op, previous, aborted>>
  /\ UNCHANGED <<cache, setting>>

\* The engine is created before any abort, and wins the race.
HostCreates(t) ==
  /\ pc[t] = "create" /\ using[t] # None /\ ~aborted[t]
  /\ EngineStarts(model, setting.adapter)
  /\ Reply(t, using[t])
  /\ cache' = "full"
  /\ UNCHANGED <<live, setting>>

\* The abort wins the race or the creation rejects: the worker is terminated, and with
\* it the download, wherever it had got to.
HostGivesUp(t) ==
  /\ pc[t] = "create" /\ using[t] # None
  /\ Reply(t, "error")
  /\ live' = live \ {using[t]}
  /\ cache' \in {cache, IF cache = "none" THEN "partial" ELSE cache, "full"}
  /\ UNCHANGED setting

\* The worker is terminated whether or not the engine unloaded.
HostUnloads(t) ==
  /\ pc[t] \in {"release", "unload"}
  /\ \E reply \in {"done", "error"} : Reply(t, reply)
  /\ live' = live \ {using[t]}
  /\ UNCHANGED <<cache, setting>>

HostEvicts(t) ==
  /\ pc[t] = "evict"
  /\ \/ Reply(t, "done") /\ cache' = "none"
     \/ Reply(t, "error") /\ cache' \in {cache, IF cache = "full" THEN "partial" ELSE cache}
  /\ UNCHANGED <<live, setting>>

-----------------------------------------------------------------------------
\* The constructors refuse an invalid catalog; a device without WebGPU, or one whose
\* adapter the page cannot get, has none.
Init ==
  /\ state = Idle
  /\ engine = None
  /\ loadOperation = None
  /\ pc = [t \in Tasks |-> "free"]
  /\ answer = [t \in Tasks |-> None]
  /\ op = [t \in Tasks |-> "probe"]
  /\ previous = [t \in Tasks |-> Idle]
  /\ aborted = [t \in Tasks |-> FALSE]
  /\ using = [t \in Tasks |-> None]
  /\ live = {}
  /\ cache \in {"none", "partial", "full"}
  /\ \E models \in {m \in Catalogs : ValidCatalog(m)}, adapter \in Adapters \union {None} :
       \E entry \in DOMAIN models :
         setting = [models |-> models, entry |-> entry, adapter |-> adapter]

Call(t) == Probe(t) \/ Load(t) \/ Evict(t) \/ Unload(t) \/ Stream(t)

Resume(t) ==
  \/ ResumeGpu(t) \/ ResumeCache(t) \/ Preflight(t)
  \/ ResumeCreate(t) \/ ResumeRelease(t) \/ ResumeSettle(t) \/ Clear(t)
  \/ ResumeEvict(t) \/ ResumeEvictCache(t) \/ ResumeUnload(t) \/ ResumeUnloadCache(t)

Host(t) ==
  \/ HostReads(t) \/ HostUnloads(t) \/ HostEvicts(t)
  \/ HostStarts(t) \/ HostCreates(t) \/ HostGivesUp(t)

Next ==
  \/ LoadAgain
  \/ Cancel
  \/ \E t \in Tasks : \/ Call(t) \/ Resume(t) \/ Host(t) \/ Progress(t)
                      \/ Chunk(t) \/ StreamEnds(t) \/ StreamFails(t)

Spec == Init /\ [][Next]_vars

\* The event loop runs what is resolved, and the host settles every call but a
\* download, which settles once it is aborted (webllm-host.ts races the two).
Fairness ==
  \A t \in Tasks :
    /\ WF_vars(Resume(t))
    /\ WF_vars(HostReads(t) \/ HostUnloads(t) \/ HostEvicts(t) \/ HostStarts(t))
    /\ WF_vars(aborted[t] /\ HostGivesUp(t))

FairSpec == Spec /\ Fairness
-----------------------------------------------------------------------------
(* Properties.                                                             *)

\* Every worker that may hold a GPU is the runtime's engine, or is in the hands of a
\* creation, a release or an unload in flight: whichever of the creation, the abort
\* and a failure comes first, none is stranded (webllm-host.ts createEngine,
\* runtime.ts #performLoad).
NoStrandedEngine ==
  \A e \in live :
    e = engine \/ \E t \in Tasks : pc[t] \in {"create", "release", "unload"} /\ using[t] = e

\* No path leads to a download that the engine is bound to refuse, probed first or not:
\* not without an adapter, below the engine's floor, without a feature the entry needs
\* or its identifier implies, nor with windows that contradict each other (runtime.ts
\* #performLoad's preflight, catalog.ts, quantization.ts, webllm-host.ts).  Of an
\* identifier that states no quantisation only the declared features are known.
Startable ==
  /\ setting.adapter # None
  /\ EngineStarts([model EXCEPT !.half = @ /\ ParseQuantization(model.id) # {}],
                  setting.adapter)

NoDoomedDownload == ~Startable => live = {} /\ \A t \in Tasks : pc[t] # "create"

\* Selection and the runtime's own probe judge a device alike: the entry a catalog is
\* served by is never found unavailable, the entries passed over never get past the
\* probe, and when none is served the runtime gives the same reason (selection.ts "the
\* same values LocalInferenceState carries").
PastProbe == state.kind \in {"supported", "loading", "ready", "generating"}

SelectionAgrees ==
  setting.adapter # None =>
    LET choice == SelectServedModel(setting.models, setting.adapter)
    IN  /\ choice.entry = setting.entry => state.kind # "unavailable"
        /\ ~choice.selected \/ setting.entry < choice.entry => ~PastProbe
        /\ ~choice.selected /\ state.kind = "unavailable" => state.reason = choice.reason

\* What is rendered as operational has an engine behind it except while that engine
\* is being unloaded, and `generating` is shown exactly while one stream runs: a
\* stream never outlives its engine and two never run at once (runtime.ts stream,
\* unload).
OperationalHasEngine ==
  state \in {Ready, Generating} =>
    engine # None \/ \E t \in Tasks : pc[t] = "unload_cache"

OneGeneration == Cardinality({t \in Tasks : Streaming(t)}) =< 1

GeneratingIsStreaming ==
  OneGeneration /\ (state = Generating <=> \E t \in Tasks : Streaming(t))

\* With nothing in flight the `cached` flag never says downloaded after a deletion
\* that succeeded, nor not downloaded when everything is there (runtime.ts evict,
\* unload, #settleAfterCancel re-read it).
CacheFlagHonest ==
  (\A t \in Tasks : pc[t] = "free") =>
    /\ state = Supported(TRUE) => cache # "none"
    /\ state = Supported(FALSE) => cache # "full"

\* A load settles cancelled as idle or supported and without an engine, never as a
\* failure (runtime.ts #performLoad, "a cancelled download is not a failed one").
CancelledNeverFails ==
  [][\A t \in Tasks :
       aborted[t] /\ pc[t] # "settled" /\ pc'[t] = "settled" =>
         state'.kind \in {"idle", "supported"} /\ engine' = None]_vars

\* A cancelled load lets go of the lifecycle, even if its download would never end.
CancelSettles ==
  \A t \in Tasks : (loadOperation = t /\ aborted[t]) ~> (loadOperation # t)

\* `probing` is left, whatever the host answers.
ProbingEnds == (state = Probing) ~> (state # Probing)

\* Claim (contracts.ts:189-190, "Only `ready` and `generating` mean that
\* computation is available on this device").
OperationalMeansEngine == state \in {Ready, Generating} => engine # None

\* The same claim with nothing in flight: the engine's worker is alive.
RestsOperational ==
  (\A t \in Tasks : pc[t] = "free") /\ state = Ready => engine \in live
=============================================================================
