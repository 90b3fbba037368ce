# A verification of the aiaiaiai foundation

This directory holds TLA+ models of the `artificial-intelligence` repository, the TLC
configurations that check them on small instances, and TLAPS proofs of the properties that
should hold for every instance. `PROJECT.json` lists the components, the runs, the lines
every definition models, the mutants every checked property catches, the hazards and the
theorems.

## 1. The system

The repository is a foundation, not a product: Rust crates for a *session kernel*, a
*signal boundary* and the *contract* both are written in, TypeScript packages for a host's
side of that contract and for a browser-local model, and the scripts that release them.

| Part | State it keeps | Operations | Talks to | What is hard |
|---|---|---|---|---|
| `aiai-runtime` `RuntimeSession` | binding, scope, activation, sequence and revision counters, pending proposals | `apply_activation`, `ensure_activation`, `rebind`, `wake`, `propose`, `propose_candidates`, `admit`, `dispatch`, `turn_ok`, `snapshot`, `into_snapshot`, `restore` | ports (clock, identifiers, inference, authority) given per call; the product that stores snapshots and holds `Admitted` values | orders of calls nobody tested, a batch that fails half-way, a decision at a counter ceiling, restart from an old snapshot, permission that outlives the state that granted it |
| `aiai-webllm` `LocalInferenceRuntime` | state shown to the product, engine, load in flight with its abort controller | `probe`, `load`, `cancelLoad`, `evict`, `stream`, `interrupt`, `unload`, `subscribe` | the host, asynchronously | state read before an `await` and used after it, a cancellation racing a result, one of several steps failing, something that must end |
| `aiai-webllm` `WebLlmBrowserHost` | a worker per engine being built | `probeWebGpu`, `hasModelInCache`, `createEngine`, `evictModel`; engine `stream`, `interrupt`, `unload` | WebGPU, web worker, cache storage | creation racing an abort; a worker that must be owned or terminated |
| `aiai-webllm` catalog, quantisation, selection | none | validate a served catalog, derive features, choose a model for a device | `LocalInferenceRuntime`, host | boundaries of a context window, tie-breaking, a refusal that must name its cause |
| `aiai-signal` | a schema registry on each side | `transform` (client), `validate` (server) | each other, through an untrusted client | lossy generalisation that must land inside the domain, registries that differ |
| `aiai-contracts` (Rust) and `@aiaiaiai/contracts` (TypeScript) | none in the code; what a deployment keeps of it is the claim a process accepted, documents in flight, failure rows | version negotiation, failure constructors and decoding, turn envelopes, canonical JSON, activation resolution | each other, over the wire | two implementations of one vocabulary, each upgraded on its own; documents and rows that outlive the build that wrote them |
| ports (`ports.rs`) | none (traits) | what a product implements | `RuntimeSession` | every one may fail |
| release (`publish_packages.sh`, `release.yml`) | what registries hold | guard, pack once, publish to each registry, rerun | npm registries | a rerun after a partial failure |
| repository checks, probe page, worker entry | none that outlives a run | | | |

What makes each part correct:

* **Session.** Nothing becomes an effect without an authority's answer about that proposal
  and a capability in scope; a proposal is executed at most once and lost never; emission
  numbers order history; a refused call changes nothing; the revision names the state; the
  subject never changes; a stored session can be seated again.
* **Local inference.** No download the engine is bound to refuse; a cancelled
  load is neither a failure nor a stranded engine; what is shown as operational has an
  engine; one generation at a time; the cached flag is not stale; everything that starts
  ends.
* **Host.** Every worker is terminated or owned by an engine that was returned.
* **Signal.** What `transform` emits `validate` accepts, under one schema; nothing outside
  the declared domains enters; the transform is idempotent.
* **Contract.** A claim that was accepted means that whatever its maker sends is understood;
  no decoder invents anything; the host accepts nothing the kernel would not; a stored row
  stays readable.
* **Selection.** The chosen model is one the runtime's own probe accepts on that device, and
  those ranked higher are not.
* **Release.** What a registry holds under a version is the tarball this release packed.

## 2. The modules

| Module | Role |
|---|---|
| `RuntimeSession` | the session kernel: state, actions, properties |
| `ProposalLifecycle` | abstract: the stages a proposal number may pass through |
| `SessionLifecycle` | refinement mapping from the kernel to `ProposalLifecycle` |
| `RuntimeSessionProofs` | types and snapshots, proved |
| `SessionOrderProofs` | order, uniqueness, retention and authority, proved |
| `SessionFailureProofs` | what failures leave behind, permissions, subject, revision, and the refinement, proved |
| `FailureTaxonomy` | the closed failure vocabulary and its kinds, used by the kernel and by the wire |
| `ContractWire` | the contract boundary: versions, failures, turn documents, rows, both decoders |
| `ContractWireProofs` | accepted claims, faithful decoding, readable rows, proved |
| `SignalBoundary` | the signal crate: two registries, transform, validate, what is between them |
| `SignalProofs` | what the validator decides and what the transform makes, proved |
| `PublishPackages` | the release: workflow runs, jobs, what registries hold |
| `ReleaseLedger` | abstract: how a registry may be filled and what a run may report of it |
| `PublishProofs` | green means published, and the release implements the ledger, proved |
| `ServedCatalog` | catalog, quantisation, selection, and the record an entry becomes (no state) |
| `LocalInference` | the browser-local lifecycle with every `await` a step, and the host it calls; extends `ServedCatalog` |
| `ShownLifecycle` | abstract: the lifecycle of a local model a product is told of |
| `LocalLifecycle` | refinement mapping from `LocalInference` to `ShownLifecycle` |
| `LocalInferenceProofs` | types, doomed downloads, cancellation and selection, proved for any product |
| `LocalAwaitedProofs` | engines, workers, streams and the cached flag, proved of any product that avoids one overlap each; the refinement, of one that awaits |
| `MCRuntimeSession`, `MCContractWire`, `MCLocalInference`, `MCSignalBoundary`, `MCPublishPackages` | symmetry sets, views and instances for TLC |

Operators named `X_Something` just before a definition `X`, marked `mutant`, are plausible
faulty versions of it; no specification uses them. Each shows that a property can fail.

### RuntimeSession

One session of one product. Every Rust method takes `&mut self`, so an action is a whole
call, and calls interleave only in their order. `durable` is the struct's fields.
`held` is the set of `Admitted` values the caller owns; `stored` the snapshot the product
keeps; `running` whether a session is seated. `proposed`, `admitted`, `effects` and
`decisions` are history: what the seated session and those it continues emitted and were
answered. The ports' answers are the actions' parameters: `PortDown` is
`PortError`, `Withhold` a refusal, and `granted_capability` may be any capability,
inside the scope or not. Identifiers may repeat: the port's promise of uniqueness is not
assumed. The payload and requested capability of a candidate are one value, `content`,
which the kernel only copies; `origin` and `admission`, the numbers an admission and an
effect come from, are history and not fields of the envelopes.

`DecimalU64` counters have ceilings `MaxSequence` and `MaxRevision` in place of 2^64 - 1,
and reach them in every run. `MaxBatch` bounds the candidates of one round. The ceiling is
part of the code's behaviour, not a cut-off of the model.

A restart is `IntoSnapshot` (or, with `MaxCrashes > 0`, a snapshot taken while the session
goes on), the end of the process (`ProcessExit`, `Crash`: `Admitted` values are gone), and
`Restore`. With `MaxCrashes = 0` restarts lose nothing; with more, what is seated may be
arbitrarily old. A session seated on a snapshot taken before the crash knows nothing of what
came after, so its history is cut back to the snapshot (`RollBack`): what was emitted later
is dropped, and an answer about a proposal that is pending again. The properties then speak
of the history that the seated session continues. What they do not say is that an effect
requested between the snapshot and the crash is never requested again: it may be, and
`docs/architecture.md` 163-175 leaves that to the product that chose the snapshot.

### SessionLifecycle and ProposalLifecycle

The abstract specification knows only numbers: absent, pending, released, admitted,
dispatched or discarded, each proposal number moving along those stages and never back,
except in a recovery from a crash (`Recover`, enabled only by `Recovers`), which finds no
permission alive. `SessionLifecycle` reads the stage of each number off the kernel's variables and states
that the kernel implements it.

### FailureTaxonomy and ContractWire

`FailureTaxonomy` is the failure vocabulary of contract line 0.2.0 and the kind of each code
(unavailable, withheld, gated, exhausted, rejected). The kernel's `outcome` is one of its
codes, so that what a kind means to a consumer can be checked against what the call did
(`FailuresMeanTheirKind`).

`ContractWire` puts processes that decode with the Rust crate (`Kernels`) and with the
TypeScript package (`Hosts`) on the two sides of a wire. `build[p]` is the version a process
runs, replaced at any time by `Deploy`; `accepted[p]` the claim it accepted last; `wire` the
documents in flight, read or lost in any order; `table` the failure rows a product
keeps. `AcceptsProvider` and `RequireCompatible` are the version check, `Constructed` every
failure a constructor of `FoundationError` can make with the words its build knows,
`KernelReads` and `HostReads` the two decoders, `Report`, `Record` and `Handshake` what a
process does with them. A JSON object is its members; a member is absent, `null`, of the
wrong shape, or a value. Where one occurs twice the object shows the last occurrence, which
is what `JSON.parse` keeps, and `repeated` names the member of the document that holds the
repetition: the derived `Deserialize` refuses it there. `text` is what the parsers make of a
document before any member is looked at: canonical; with a numeric token, which the host
refuses; or lenient, which the host's parser takes and `serde_json` does not (a byte-order
mark, half of a surrogate pair, nesting beyond serde's limit). `Foreign` are documents no
build of the contract wrote. `sent` is history: what the sender meant.

What a build may change is the assumption `VocabularyAssumption`, taken from
`docs/consuming.md` 49-53: below 1.0 all patches of a minor have one vocabulary, and from
1.0 on a later minor only adds words.

Left out: the version inside a decoded `TurnOk` (neither decoder checks it), which request a
refusal answers, a host's own encoding of failure records, and version components above
2^53, which the host refuses and the kernel takes.

### ServedCatalog

Pure operators. An identifier is its quantisation tokens and a name; URLs, revisions and
hashes are one word (pinned, moving, malformed); a window is absent, positive, zero or
improper. `ValidCatalog` is what the constructors accept, `SelectServedModel` the first entry
a device can run, `Judge` (in `LocalInference`) the runtime's own verdict. A bare identifier
is an entry that declares nothing. `half`, whether a library computes in half precision, is
known to no code: an identifier with one token is taken to tell the truth, and of one
without, only the declared features are known. `EngineStarts` is the pinned engine as
`webllm-host.ts` describes it (external): it refuses two positive windows, a device below its
floor or without a feature of the record. The model's own chat configuration is taken to have
a positive context window (`webllm-host.ts` 74-76); one with a sliding window of its own,
under an entry with a fixed one, would meet two, and is not modelled.

### LocalInference

`state`, `engine`, `loadOperation` are the private fields. A call in flight occupies a slot
`t \in Tasks`: `pc[t]` is the `await` it waits at, `answer[t]` what the host has resolved
that call with. The host resolves in one step and the method goes on in a later one, as the
event loop does, so any other step may come between. `preflight` and `settled` are the two
places where the code returns through a promise of its own before it goes on
(`#readCapability` into `#performLoad`, the load into `clearOperation`). An abort sets
`aborted[t]` of the load in flight, at any time.

`setting` is the catalog, the entry the runtime is for and the device's adapter (or `None`),
chosen in the first state and fixed: each instance checks every entry of every valid catalog
on every adapter. The cache is `none`, `partial` or `full`, and `hasModelInCache` answers
whether it is full. Every host call may reject.

`createEngine` is modelled in its own steps. `HostStarts` runs up to its first await: nothing
is started if the load was aborted by then or the worker factory throws, else a worker lives,
and `using[t]` names it. `HostCreates` is the engine winning the race of engine, abort and
failing worker, possible only where `EngineStarts`; `HostGivesUp` every other end of it, which
terminates the worker wherever the download had got to. An engine is known by its worker.
`HostUnloads` removes it from `live` even when it rejects, because `WebLlmTextEngine.unload`
terminates the worker in `finally`.

`Awaits` is the product's discipline: with `TRUE`, it awaits `probe`, `load`, `evict` and
`unload` before it makes the next such call, and streams while no unload is in flight;
cancelling and joining a load, streaming and leaving a stream are free. With `FALSE` calls
overlap in any way. Refused calls, joined loads, `interrupt` and `subscribe` change no
modelled state. Listeners observe only: one that calls `load()` from inside a state change
is a listed hazard and not modelled.

### LocalLifecycle and ShownLifecycle

The abstract specification knows what a product can see: the state it is shown, whether a
model is loaded, and whether a load is asked for or cancelled. Its actions are the moves
`docs/browser-local-inference.md` ("Lifecycle") tells a product to expect: what may follow
which state, that a model becomes loaded only out of `loading` by a load nobody cancelled, that
a cancelled load gives up as `idle` or `supported`, that a load is over only with an outcome,
that text comes from `ready` and a failure is left by an explicit call. `LocalLifecycle` reads
them off the runtime's fields: a model counts as loaded until the unload that took its engine
has reported.

### SignalBoundary

`client` and `server` are the two `SchemaRegistry` values, replaced at any time by
`RegisterClient` and `RegisterServer` (`with_archetype`). `Transform`, `Validate`, `Check`
and `Generalize` are the functions of those names; a result is a record, and a panic of
`u64::clamp` is one of the results. `Observe` transforms and sends, `SendUntransformed` is
the client the crate's documentation warns of, `Receive` validates and admits to `corpus`.
The transport and the corpus are external: the crate has none. A signal received stays in
flight until it is dropped, so it may arrive again after the registries have changed.
`wire` remembers the declaration a signal was made under (`made`), `returned` what the last
call returned; both are history.

`Conforms` says what a declaration denotes without the code's order of checks: the
properties compare the code with it. Field names are numbers in the order of the
`BTreeMap`s. A sequence's items are tokens or measures, not sequences. `Disjoint` is what
the types of a schema do not enforce: no field both required and optional.

### PublishPackages

All runs are of one release: one tag, and the versions the manifests name at it. A package
has a version of its own, which a release leaves alone when its contents did not change
(`docs/releasing.md` 14-16 and 22; today the contracts are at 0.2.0 and the WebLLM package at
0.1.0). So what registries hold at the start is any of the archives, a later one without the
earlier, and with any bytes. Meanwhile nobody else publishes: a run of another release that
carries the same package is left out.

`packed[run]` is the artifact a run uploaded, `job[run][g]` where its job for registry `g` is
in the loop of `publish_packages.sh`, `held[g]` what the registry has. `npm view` may find the version, answer 404 (also when it has not heard of a
publication yet) or fail; `npm publish` may succeed, succeed and lose the answer, or fail;
a runner that dies is a job that fails. A finished run may be repeated in full, packing
anew with any bytes; or, on the same artifact, its failed jobs or any one job, a green one
too. The checks of the tagged commit in `prepare` are one outcome: `Prepare` or
`PrepareFails`.

`ReleaseLedger` is the promise without jobs: runs offer packings, a registry takes an archive
of an offered packing that it does not have, once it has all the earlier ones with the bytes
offered, and a run reports success at a registry that holds all of its packing. Nothing held
is ever replaced. The mapping (`Ledger`) reads the reports off the jobs that are green.

The ledger does not promise that what a registry holds of a release comes from one packing.
A package carried over and packed to other bytes stops the job only when the loop comes to
it, and the packages before it are published by then: the run is red and the registry holds a
part of the release. From a registry that holds none of the archives it follows from the
ledger that they appear in order.

## 3. The runs

| Run | Question | Bounds |
|---|---|---|
| `session` | authority, uniqueness, order, failures and permissions, with restarts that lose nothing | 2 identifiers, 2 candidates, 2 capabilities, 2 subjects, 2 computations, sequence to 4, revision to 5, batches of up to 2 |
| `session_crash` | is anything executed twice, lost, or reported under a reused revision, when old snapshots are seated? | 2 identifiers, 2 candidates, 1 capability, sequence to 4, revision to 5, batches of 1, 2 crashes |
| `session_exhaustion` | does a call that reports exhaustion leave the session alone? **No.** | as `session`, batches of 1 |
| `session_dormant_dispatch` | does a dormant session finish nothing? **No.** | 1 identifier, revision to 7 |
| `local_inference` | types, engines, workers, streams, the cached flag, selection and the lifecycle shown, for a product that awaits its calls | 3 slots, 2 engines; 8 catalogs (4 valid), 6 adapters or none |
| `local_inference_unawaited` | what holds when calls overlap in any way: no doomed download, cancelled loads; liveness | 2 slots, 2 engines; 2 catalogs (1 valid), 2 adapters or none |
| `local_ready_without_engine` | does `ready` mean an engine? **Not while unloading.** | as above |
| `local_dead_engine` | with nothing in flight, does `ready` mean a live worker? **Not after a failed unload.** | as above |
| `local_two_generations` | one generation at a time when calls overlap? **No.** | as above |
| `signal` | do transform and validator agree with what a declaration denotes, and with each other, while registries move? | 5 declarations, 109 observations, 74 payloads, 1 signal in flight, 1 admitted |
| `contract_wire` | what do an accepted claim, a decoder and a stored row promise while either side is replaced? | 1 kernel, 1 host, 5 builds, 1 document in flight or row kept |
| `publish` | is what a run adds in order, after its own bytes only and never over anything, and is the release really there when green? | 2 runs, 2 registries, 2 packages of 2 possible bytes, each registry holding anything at first |

**Why the bounds are enough.** In `session`, two identifiers let a round repeat one within a
batch and against the pending map; a sequence to 4 lets two proposals, an admission and an
effect be numbered and then runs out; a revision to 5 runs out first in some behaviours and
last in others. Identifiers, contents, capabilities, subjects and computations are only
compared, so the sets are symmetric. The view leaves out `outcome`, which no action reads
and no property reads unprimed, and `stored` while the session runs without crashes, which
nothing reads until the next snapshot overwrites it. In `session_crash` the second crash can
come after a session already rolled back has gone on and been stored or not; snapshots are
taken at any point before and between. One capability is enough there, as scope and grants
never change between restarts (`session` has two). In `local_inference` three slots hold a
lifecycle call and two streams, and a slot is used again once it is free, so behaviours are
unbounded in length; two engines let a new one exist beside one being released. The valid catalogs hold an entry
of each kind the checks tell apart: half precision with a sliding window before its
full-precision fallback, one that states nothing and declares a feature of its own, one whose
two tokens contradict each other, one with a fixed window; the refused ones break one rule
each (both windows, a sink without a window, one identifier twice, artifacts behind a branch).
The adapters are every set of two features above the floor, one below it and one that reports
no limits.
In `contract_wire` no step reads two documents or rows, so one at a time is enough; it goes
through any number of upgrades and rollbacks of both sides. The five builds are 0.2.0, a patch
of it, another line below 1.0 and two minors of a released line. Only 0.2.0 exists; the other
vocabularies are invented, differing from their neighbours as the assumption allows. A few
words of each enumeration stand for all. Every combination of a turn, a failure and what
stands in their place is forged with every set of repeated members, and as lenient text.
In `signal` the declarations differ in step (with the minimum and the maximum off the step),
version, optional fields and joint rules; one has its bounds the wrong way round, one
declares a field twice; fields run below, between, on and above the bounds, and over the
length. One signal in flight is enough, since no call reads two. In `publish` two packages
let a job fail between them, two runs of different bytes meet at either, and an earlier
release leave the second without the first.

**Deadlock** is checked for `LocalInference`, `SignalBoundary` and `PublishPackages`. A
`RuntimeSession` may stop (nothing obliges a product to call), and with the ceilings reached
and nothing held it does; nothing obliges the two sides of a `ContractWire` to send: these
runs do not check deadlock.

**Fairness.** The kernel has no threads and is called by a product that owes it nothing: no
fairness is assumed and no liveness claimed. `LocalInference` assumes that the event loop
runs a continuation whose promise has settled, that host calls settle, and that a download
settles *once it was aborted* (`HostGivesUp`), which `createEngine` ensures by racing it with
the abort signal. Nothing is assumed of a download nobody aborts, of the product, or of a stream.

## 4. What the runs show of the code

The invariants and action properties hold as stated in the modules, each above the code
behaviour it is about. Five statements of the repository do not hold:

1. *Exhaustion fails closed* (`error.rs:106`). `apply_activation`, `rebind` and `dispatch`
   assign before the revision is bumped; at the ceiling they report a failure and have
   changed the session under an unchanged revision. `propose_candidates`, `admit` and
   `release_decided` reserve first and do not.
2. *Dormant finishes nothing* (`activation.rs:14`). `dispatch` consults no gate.
3. *`ready` means computation is available* (`contracts.ts:189`): `unload` forgets the
   engine one await before it leaves `ready`.
4. The same, at rest: a rejected `engine.unload()` has terminated the worker but keeps the
   engine, and `load()` then answers `ready` without a download.
5. *One generation at a time* (`browser-local-inference.md:441`): nothing refuses a stream
   while an unload is in flight.

The model shows as well that, for a product that does not await its calls, `cached` can be
stale after an eviction and a second overlapping `unload()` can forget an engine that was
loaded in between (section 5 says which overlap each property has to be kept from); the runs
above state what holds regardless (`NoDoomedDownload`, no
cancelled load that fails, cancelled loads and probes that end).

What is shown of the contract rests on the assumption about vocabularies, which the code
cannot check. Met while modelling, and no property's business:

* `docs/consuming.md` 50-52 and the comment in `version.rs` 120-125 call a line below 1.0
  compatible across every patch of the same minor; `accepts_provider` also asks that the
  provider's patch be at least the required one. A product rolled back by a patch refuses the
  rows and snapshots the later patch wrote. The wire stays sound.
* Where a document carries both a turn and a failure, the kernel reads the turn and the host
  refuses (`docs/host-contract.md` says so). An optional member that is `null` is absent to
  the kernel and refused by the host.
* Where a member occurs twice it is the other way round: the host keeps the last one
  (`canonical.ts` 91-93 and the same page say so) and the kernel refuses, except that a
  repeated `ok` beside a failure makes it read the failure. Nothing says that the host's
  parser also takes text `serde_json` refuses. `HostLaxerOnlyInText` is the rule behind all of
  this: of what has been parsed the host accepts no more than the kernel and reads it alike;
  of the text it takes more, and the kernel then refuses and never reads something else.

## 5. What is proved

For every value of the constants, from the named assumptions on them only:

* The session's theorems hold for any number of crashes and any snapshot seated after them.
  `TypeCorrect`: `TypeOK` is inductive. The counters stay within their ceilings because a
  step that would pass one is refused.
* `SnapshotsSeat`: needs `SnapshotInv`, that what *would* be stored now is restorable as
  well as what is: no pending number above the counter, no identifier twice
  (`VerdictMeans`). Only a committed round adds to `pending`; `StagedFresh` says its numbers
  are above the counter and its identifiers new.
* `OneEffect`, `ProposalsKept` and `NumbersIncrease` rest on two invariants proved together
  (`Ordered`). `OrderInv` is about the session as it is: all numbers in use are at or below
  the counter, numbers determine what they number, what is pending was proposed and is not
  admitted, what is held was admitted and not dispatched; before any crash an unseated
  session *is* the stored one. It is not inductive alone: a restore puts back a `pending`
  of long ago. `LineInv` is what makes the stored snapshot fit the history cut back to it:
  its pending proposals were proposed, nothing admitted at or below its counter came from
  them, and every proposal up to its counter is in it or was answered about by then.
* `Authorised`: `EffectsAreAuthorised` with `scope` the same in every snapshot ever stored
  (`AuthorityInv`). A restore that drops answers must not drop one an admission rests on;
  that needs `LineInv` (`AuthoritySeat`).
* `FailuresMean`, `PermissionsEnd`, `SubjectKept` and `RevisionNames` are action properties.
  `FailuresMean` needs `SnapshotInv`, without which a decision against one proposal could
  take two of one identifier; `PermissionsEnd` needs `OrderInv`; `SubjectKept` needs
  `KeptInv`, that the stored snapshot has the session's subject and scope; `RevisionNames`
  needs `RevisionInv`, that the stored revision is not above the session's, and where it is
  equal the stored report is the session's.
* `Implements`: the kernel implements `ProposalLifecycle` under the mapping of
  `SessionLifecycle`. Two rounds propose two things that can be told apart only because
  numbers are new (`OrderInv`), and an effect leads back to a proposal only because every
  admission has a proposal's number and content (`Descended`). `CommitMints`,
  `DecideMoves`, `DispatchMoves` and `ExitLoses` map the steps that move the abstract state;
  a restore is a `Recover` (`SeatRecovers`) or, where nothing was lost, a stutter
  (`SeatStays`); all others stutter (`StageMoves`).
* `Exact` and `Admissions` rest on `WireInv`, that registries keep declarations under their
  own names and that what is in flight has the shape its type gives it, and on
  `ValidateExact`, a lemma about the pure function: `ScalarExact`, `CheckExact` and
  `CombinationsExact` take it apart. They assume no more of declarations than their types
  do (`SchemasAssumption`).
* `Outputs` rests on `GeneralizeCarried`: whatever `generalize` does not refuse lies in the
  domain, with `FloorCarried` for the arithmetic. It needs `Disjoint` and nothing about the
  order of the bounds. `Fixed` adds the converse (`Unchanged`, `TransformKeeps`): what the
  domain carries already comes out as it went in.
* `Blame` rests on `ValidateBlames`, which goes through the early returns of `validate` and
  uses of each that the earlier ones did not happen. `Honest` combines `Outputs` with
  `ValidateExact` and with `OneInFlight`; `TypeCorrect` adds the bound on the corpus.
* `ContractWireProofs`: `TypeCorrect`, `Agreed`, `Faithful`, `LaxerOnlyInText` and `Readable`, for
  all builds, any foreign documents and any number in flight. That a document decodes is not
  inductive: the invariant `WireInv` adds that what was sent uses words its writer's build
  knew (`SentGenuine`), that rows do so of the version stamped on them (`RowsLegible`), and
  that the build that accepted a claim still runs (`ClaimsHold`). `Grows` is where
  `VocabularyAssumption` meets the version check.
* `GreenJobs` and `LedgerKept` share `PublishInv`, whatever registries held at first: a job
  that has come to an archive found or put every earlier one there with its own bytes
  (`Passed`), which stays so because nothing held is replaced (`OthersKept`). `LedgerKept` is
  the refinement of `ReleaseLedger`: an archive that is published comes after all of its
  run's packing before it (`PublicationTakes`), a job turns green over a complete registry
  (`FoundReports`), and jobs that start again withdraw what they reported. `TypeCorrect`
  is a part of it. `GreenRelease` adds `NotAllSkipped`: no run skips every registry, since
  `prepare` fails when none can be reached (`RegistriesAssumption`: there is one).
* `LocalInferenceProofs` holds for any product, awaiting or not: `TypeCorrect`, `NoDoomed`,
  `Cancelled`, `Agreement`. `LocalInv` goes slot by slot: what a call holds (`Holds`), which
  answers its await can have (`Answers`), that a load in flight is `loadOperation` and meets
  no engine until it settles (`Owns`), and that no call gets past the verdict where the entry
  cannot run (`Stopped`); and, shared, that there no worker lives (`Untouched`) and
  that every verdict shown is one the adapter gives (`Verdicts`). `Agreement` then compares
  `Judge` with selection: the entry chosen is a least element of those that fit
  (`NatLessThanWellFounded`).
* `LocalAwaitedProofs` first says which overlap is to blame for what. Each of four theorems
  leaves the product free to overlap its calls but for one condition, stated of the behaviour:

  | Condition | Theorem | Without it |
  |---|---|---|
  | `UnloadsApart`: one unload at a time | `StrandsNone`: `NoStrandedEngine` | the second unload forgets an engine loaded since |
  | `StreamsApart`: beside a stream only a load that has settled | `ShowsEngine`: `OperationalHasEngine`; `ShowsStream`: `GeneratingIsStreaming` | an unload takes a stream's engine, an old verdict is shown over it |
  | `ReadsApart`: no creation or deletion while the cache is read | `ReadsHonest`: `CacheFlagHonest` | an answer from before the deletion is shown after it |

  The invariants are `WorkersInv`, `ShownInv` and `FlagInv`. Each adds to the property what a
  call can rely on while it waits: that an unload still has the engine it captured and a
  worker that was let go of is not alive (`Sound`), that a stream has its engine and is shown
  (`Supplied`), that an answer about the cache is still true (`Told`); `Flagged` says where
  the flag may be wrong in between. `EngineMoves` and `WorldMoves` list the actions that touch
  the engine, the workers and the cache at all. Each condition was tried with TLC too, on
  three overlapping slots: with it the invariant holds, without it the property fails.

  Then `Awaits` is assumed. `KeptApart` shows that such a product meets all three conditions,
  by `AwaitedInv`: lifecycle calls exclude each other (`Apart`), and but for a load at its end
  and an unload there is no engine while one is at work (`Vacant`). `NoWorkerLost`,
  `Operational`, `OneStream` and `FlagHonest` follow. `Follows` is the refinement of
  `ShownLifecycle`, one lemma per group of actions (`CallLeads` to `TextLeads`). It needs
  `LifecycleInv`: what is shown while a call is where it is (`Displays`: a read device means
  `probing`, a load that settles has left `loading`), that `probing` and `loading` have a call
  at work (`Busy`), and that an engine is never shown as anything but ready, generating or
  failed (`Laden`). The three conditions together do not replace `Awaits`
  here: a load that begins while a probe reads the device is a step the lifecycle does not
  have.

Only model-checked: the liveness properties `CancelSettles` and `ProbingEnds`. Liveness under
fairness, `ENABLED` and what a recursive definition computes for every input are beyond the
prover and stay with TLC; every invariant and every other action property of a passing run
has a theorem.

## 6. Plan

What is left, in order:

1. `PublishPackages`: the guard's checks, with a master that moves and CI runs that are
   repeated.
2. Two sessions and the `Admitted` values exchanged between them; re-entrant listeners.

## 7. Not modelled

* Text syntax (identifiers, capability names, tokens, decimal strings, version strings, URLs
  and hashes), payloads and error wording: each is one outcome, accepted or refused.
* `DelegationScope::narrow` and `SubjectBinding::classify`: pure functions that no method of
  a session calls.
* A `SchemaRegistry` that was deserialised: its keys need not be the names of the schemas
  under them (`schema.rs` 108-112), while the registries of `SignalBoundary` and its theorems
  are those `with_archetype` builds.
* A run of another release that publishes a package this release carries, at the same time.
* The activation mirror and the readers of the other envelopes in `@aiaiaiai/contracts`.
* The list of what each refused entry misses in a selection's answer; a product's own
  WebLLM app configuration, which the host passes through unchecked.
* WebGPU, the WebLLM engine and cache storage beyond what their calls answer.
* Repository checks, the probe page and the worker entry: nothing in them outlives a run.
