------------------------ MODULE LocalInferenceProofs ------------------------
(***************************************************************************)
(* Theorems about LocalInference for any product, whether or not it awaits *)
(* its calls, and for any number of calls, engines, catalogs and devices.  *)
(***************************************************************************)
EXTENDS LocalInference, WellFoundedInduction, TLAPS

-----------------------------------------------------------------------------
(* Types, slot by slot, and what tells the states apart.                   *)

\* The types of what belongs to the slots, and of the rest.
SlotTypes ==
  /\ pc \in [Tasks -> Points]
  /\ answer \in [Tasks -> Engines \union Replies \union {None}]
  /\ op \in [Tasks -> {"probe", "load", "evict", "unload", "stream"}]
  /\ previous \in [Tasks -> States]
  /\ aborted \in [Tasks -> BOOLEAN]
  /\ using \in [Tasks -> Engines \union {None}]

SharedTypes ==
  /\ state \in States
  /\ engine \in Engines \union {None}
  /\ loadOperation \in Tasks \union {None}
  /\ live \subseteq Engines
  /\ cache \in {"none", "partial", "full"}
  /\ setting.models \in Catalogs /\ ValidCatalog(setting.models)
  /\ setting.entry \in DOMAIN setting.models
  /\ setting.adapter \in Adapters \union {None}

\* A call that streams or lets go of an engine has one.
Holds(t) == Streaming(t) \/ pc[t] \in {"release", "unload"} => using[t] \in Engines

LEMMA TypeParts == TypeOK <=> (SlotTypes /\ SharedTypes /\ \A t \in Tasks : Holds(t))
BY DEF TypeOK, SlotTypes, SharedTypes, Holds

\* What a step of another call does to the call in slot u.
Stays(u) ==
  /\ pc'[u] = pc[u] /\ answer'[u] = answer[u] /\ op'[u] = op[u]
  /\ previous'[u] = previous[u] /\ aborted'[u] = aborted[u] /\ using'[u] = using[u]

Others(t) == \A u \in Tasks \ {t} : Stays(u)

LEMMA Fixed ==
  /\ Idle \in States /\ Idle.kind = "idle"
  /\ Probing \in States /\ Probing.kind = "probing"
  /\ Ready \in States /\ Ready.kind = "ready"
  /\ Generating \in States /\ Generating.kind = "generating"
BY DEF States, Idle, Probing, Ready, Generating

LEMMA Reasons ==
  \A r \in {"no_adapter", "device_limits_insufficient", "model_features_unavailable"} :
    /\ Unavailable(r) \in States
    /\ Unavailable(r).kind = "unavailable" /\ Unavailable(r).reason = r
BY DEF States, Unavailable

LEMMA Failures ==
  \A f \in {Failed("probe", FALSE), Failed("load", FALSE),
           Failed("generate", TRUE), Failed("unload", TRUE)} :
    f \in States /\ f.kind = "failed"
BY DEF States, Failed

LEMMA Kinds ==
  \A c : /\ Supported(c).kind = "supported" /\ Supported(c).cached = c
         /\ Loading(c).kind = "loading"
BY DEF Supported, Loading

LEMMA Flags ==
  /\ \A c \in BOOLEAN : Supported(c) \in States /\ Loading(c) \in States
  /\ \A reply : Supported(Flag(reply)) \in States
<1>1. \A c \in BOOLEAN : Supported(c) \in States /\ Loading(c) \in States
  BY DEF Supported, Loading, States
<1>2. \A reply : Flag(reply) \in BOOLEAN
  BY DEF Flag
<1> QED
  BY <1>1, <1>2

LEMMA Cached == \A s \in States : s.kind = "supported" => Loading(s.cached) \in States
<1>1. \A s \in States : s.kind = "supported" => s.cached \in BOOLEAN
  BY DEF States, Idle, Probing, Ready, Generating, Unavailable, Failed, Supported, Loading
<1> QED
  BY <1>1, Flags

LEMMA AllPoints ==
  Points = {"gpu", "cache", "create", "release", "settle_cache", "evict", "evict_cache",
            "unload", "unload_cache", "stream", "yielded", "free", "preflight", "settled"}
BY DEF Points, AwaitPoints, CapabilityPoints, LoadPoints, EvictPoints, UnloadPoints,
   StreamPoints

-----------------------------------------------------------------------------
(* A step moves one call and leaves the others where they wait.            *)

LEMMA GotoMoves ==
  ASSUME SlotTypes, NEW t \in Tasks, NEW point \in Points, Goto(t, point)
  PROVE  /\ pc' \in [Tasks -> Points] /\ pc'[t] = point
         /\ answer' \in [Tasks -> Engines \union Replies \union {None}] /\ answer'[t] = None
         /\ \A u \in Tasks \ {t} : pc'[u] = pc[u] /\ answer'[u] = answer[u]
BY DEF SlotTypes, Goto

LEMMA FinishMoves ==
  ASSUME SlotTypes, NEW t \in Tasks, Finish(t)
  PROVE  /\ SlotTypes' /\ Others(t)
         /\ pc'[t] = "free" /\ answer'[t] = None /\ op'[t] = "probe" /\ previous'[t] = Idle
         /\ aborted'[t] = FALSE /\ using'[t] = None
<1>1. "free" \in Points
  BY DEF Points
<1> QED
  BY <1>1, Fixed DEF SlotTypes, Others, Stays, Finish, Goto

LEMMA ReplyMoves ==
  ASSUME SlotTypes, NEW t \in Tasks, NEW reply \in Engines \union Replies \union {None},
         Reply(t, reply)
  PROVE  /\ answer' \in [Tasks -> Engines \union Replies \union {None}]
         /\ answer'[t] = reply /\ answer[t] = None
         /\ \A u \in Tasks \ {t} : answer'[u] = answer[u]
         /\ UNCHANGED <<runtime, pc, op, previous, aborted, using>>
BY DEF SlotTypes, Reply

LEMMA VerdictMoves ==
  ASSUME SlotTypes, NEW t \in Tasks, NEW verdict, Verdict(t, verdict)
  PROVE  /\ SlotTypes' /\ Others(t)
         /\ state' = verdict /\ UNCHANGED <<engine, loadOperation, world>>
         /\ \/ /\ pc'[t] = "preflight" /\ op[t] = "load" /\ op'[t] = op[t]
               /\ previous'[t] = previous[t] /\ aborted'[t] = aborted[t] /\ using'[t] = using[t]
            \/ pc'[t] = "free" /\ op[t] # "load" /\ aborted'[t] = FALSE
BY FinishMoves, GotoMoves, AllPoints DEF SlotTypes, Verdict, Others, Stays

LEMMA CallMoves ==
  ASSUME SlotTypes, SharedTypes, NEW t \in Tasks, Call(t)
  PROVE  SlotTypes' /\ Others(t)
<1> USE AllPoints DEF SlotTypes, Others, Stays, Start, Goto
<1>1. CASE Probe(t)
  BY <1>1 DEF Probe
<1>2. CASE Load(t)
  BY <1>2 DEF SharedTypes, Load, BeginCreate
<1>3. CASE Evict(t)
  BY <1>3 DEF Evict
<1>4. CASE Unload(t)
  BY <1>4 DEF SharedTypes, Unload
<1>5. CASE Stream(t)
  BY <1>5 DEF SharedTypes, Stream
<1> QED
  BY <1>1, <1>2, <1>3, <1>4, <1>5 DEF Call

LEMMA ResumeMoves ==
  ASSUME SlotTypes, SharedTypes, NEW t \in Tasks, Resume(t)
  PROVE  SlotTypes' /\ Others(t)
<1> USE AllPoints DEF SlotTypes, Others, Stays, Goto
<1>1. CASE ResumeGpu(t)
  <2>1. ASSUME NEW verdict, Verdict(t, verdict) PROVE SlotTypes' /\ Others(t)
    BY <2>1, VerdictMoves
  <2>2. ASSUME Goto(t, "cache"), UNCHANGED <<op, previous, aborted, using>>
        PROVE  SlotTypes' /\ Others(t)
    BY <2>2
  <2> QED
    BY <1>1, <2>1, <2>2 DEF ResumeGpu, Judge
<1>2. CASE ResumeCache(t)
  BY <1>2, VerdictMoves DEF ResumeCache
<1>3. CASE Preflight(t)
  BY <1>3 DEF SharedTypes, Preflight, BeginCreate, SettleAfterCancel
<1>4. CASE ResumeCreate(t)
  BY <1>4 DEF ResumeCreate, SettleAfterCancel, LetGo
<1>5. CASE ResumeRelease(t)
  BY <1>5 DEF ResumeRelease, SettleAfterCancel
<1>6. CASE ResumeSettle(t)
  BY <1>6 DEF ResumeSettle
<1>7. CASE Clear(t)
  BY <1>7, FinishMoves DEF Clear
<1>8. CASE ResumeEvict(t)
  BY <1>8, FinishMoves DEF ResumeEvict
<1>9. CASE ResumeEvictCache(t)
  BY <1>9, FinishMoves DEF ResumeEvictCache
<1>10. CASE ResumeUnload(t)
  BY <1>10, FinishMoves DEF ResumeUnload
<1>11. CASE ResumeUnloadCache(t)
  BY <1>11, FinishMoves DEF ResumeUnloadCache
<1> QED
  BY <1>1, <1>2, <1>3, <1>4, <1>5, <1>6, <1>7, <1>8, <1>9, <1>10, <1>11 DEF Resume

LEMMA HostMoves ==
  ASSUME SlotTypes, SharedTypes, NEW t \in Tasks, Host(t)
  PROVE  SlotTypes' /\ Others(t)
<1>1. ASSUME NEW reply \in Engines \union Replies \union {None}, Reply(t, reply)
      PROVE  SlotTypes' /\ Others(t)
  BY <1>1, ReplyMoves DEF SlotTypes, Others, Stays
<1>2. CASE HostReads(t)
  BY <1>1, <1>2 DEF HostReads, Replies
<1>3. CASE HostUnloads(t)
  BY <1>1, <1>3 DEF HostUnloads, Replies
<1>4. CASE HostEvicts(t)
  BY <1>1, <1>4 DEF HostEvicts, Replies
<1>5. CASE HostStarts(t)
  <2>1. CASE Reply(t, "error")
    BY <1>1, <2>1 DEF Replies
  <2>2. ASSUME NEW worker \in Engines, using' = [using EXCEPT ![t] = worker],
               UNCHANGED <<pc, answer, op, previous, aborted>>
        PROVE  SlotTypes' /\ Others(t)
    BY <2>2 DEF SlotTypes, Others, Stays
  <2> QED
    BY <1>5, <2>1, <2>2 DEF HostStarts, FreshEngines
<1>6. CASE HostCreates(t)
  BY <1>1, <1>6 DEF HostCreates, SlotTypes
<1>7. CASE HostGivesUp(t)
  BY <1>1, <1>7 DEF HostGivesUp, Replies
<1> QED
  BY <1>2, <1>3, <1>4, <1>5, <1>6, <1>7 DEF Host

LEMMA TextMoves ==
  ASSUME SlotTypes, NEW t \in Tasks,
         Progress(t) \/ Chunk(t) \/ StreamEnds(t) \/ StreamFails(t)
  PROVE  SlotTypes' /\ Others(t)
<1>1. CASE Progress(t)
  BY <1>1 DEF Progress, calls, SlotTypes, Others, Stays
<1>2. CASE Chunk(t)
  BY <1>2, AllPoints DEF Chunk, Goto, SlotTypes, Others, Stays
<1>3. CASE StreamEnds(t)
  BY <1>3, FinishMoves DEF StreamEnds
<1>4. CASE StreamFails(t)
  BY <1>4, FinishMoves DEF StreamFails
<1> QED
  BY <1>1, <1>2, <1>3, <1>4

LEMMA CancelMoves ==
  ASSUME SlotTypes, SharedTypes, Cancel
  PROVE  /\ SlotTypes' /\ UNCHANGED <<runtime, pc, answer, op, previous, using, world>>
         /\ \A u \in Tasks : aborted'[u] => aborted[u] \/ u = loadOperation
BY DEF Cancel, SlotTypes, SharedTypes

-----------------------------------------------------------------------------
(* The inductive invariant, slot by slot.                                  *)

\* What selection asks of a device is what the runtime's own probe asks.
Runnable ==
  /\ setting.adapter # None
  /\ ~BelowRuntimeFloor(setting.adapter)
  /\ MissingFeatures(setting.adapter, EffectiveRequiredFeatures(model)) = {}

\* What a call may find answered where it waits.
Answers(t) ==
  /\ pc[t] = "gpu" => /\ answer[t] = "supported" => setting.adapter # None
                      /\ answer[t] = "unsupported" => setting.adapter = None
  /\ pc[t] = "create" =>
       /\ previous[t].kind = "supported"
       /\ answer[t] \in {None, "error"} \/ (using[t] \in Engines /\ answer[t] = using[t])

\* The load in flight is the one operation, until it settles without an engine.
Loads(t) ==
  pc[t] \in LoadPoints \union {"preflight", "settled"}
    \/ (pc[t] \in CapabilityPoints /\ op[t] = "load")

Owns(t) ==
  /\ Loads(t) \/ aborted[t] => loadOperation = t
  /\ loadOperation = t /\ pc[t] # "settled" => engine = None

\* On a device that lacks something no call gets past the verdict.
Stopped(t) ==
  ~Runnable => /\ pc[t] \in {"free", "gpu", "preflight", "evict", "settled"}
               /\ previous[t].kind # "supported"

SlotInv(t) == Holds(t) /\ Answers(t) /\ Owns(t) /\ Stopped(t)

Untouched ==
  ~Runnable => /\ state.kind \in {"idle", "probing", "unavailable", "failed"}
               /\ engine = None /\ live = {}

Verdicts ==
  state.kind = "unavailable" /\ setting.adapter # None =>
    /\ ~Runnable
    /\ state.reason = IF BelowRuntimeFloor(setting.adapter)
                        THEN "device_limits_insufficient" ELSE "model_features_unavailable"

SharedInv == SharedTypes /\ Untouched /\ Verdicts

LocalInv == SlotTypes /\ SharedInv /\ \A t \in Tasks : SlotInv(t)

\* What a step of the call in slot t may do to the rest.
Keeps(t) ==
  /\ setting' = setting
  /\ \/ loadOperation' = loadOperation
     \/ loadOperation = None /\ loadOperation' = t
     \/ loadOperation = t /\ loadOperation' = None
  /\ engine' \in {engine, None} \/ loadOperation = t

LEMMA SameDevice == setting' = setting => (Runnable' <=> Runnable)
BY DEF Runnable, model

\* A step of another call does not disturb what holds of a slot.
LEMMA OthersKept ==
  ASSUME LocalInv, NEW t \in Tasks, Keeps(t), NEW u \in Tasks \ {t}, Stays(u)
  PROVE  SlotInv(u)'
<1>1. SlotInv(u)
  BY DEF LocalInv
<1>2. Holds(u)' /\ Answers(u)'
  BY <1>1 DEF SlotInv, Stays, Keeps, Holds, Answers, Streaming
<1>3. Owns(u)'
  BY <1>1, NoneAssumption DEF SlotInv, Stays, Keeps, Owns, Loads
<1>4. Stopped(u)'
  BY <1>1, SameDevice DEF SlotInv, Stays, Keeps, Stopped
<1> QED
  BY <1>2, <1>3, <1>4 DEF SlotInv

-----------------------------------------------------------------------------
(* One step.                                                               *)

\* What becomes of the operation, the engine and the device.
LEMMA CallKeeps == ASSUME NEW t \in Tasks, Call(t) PROVE Keeps(t)
<1> USE DEF Keeps, runtime, world
<1>1. CASE Probe(t) \/ Load(t)
  BY <1>1 DEF Probe, Load, BeginCreate
<1>2. CASE Evict(t) \/ Unload(t) \/ Stream(t)
  BY <1>2 DEF Evict, Unload, Stream
<1> QED
  BY <1>1, <1>2 DEF Call

LEMMA ResumeKeeps == ASSUME LocalInv, NEW t \in Tasks, Resume(t) PROVE Keeps(t)
<1> USE DEF Keeps, runtime, world
<1>1. CASE ResumeGpu(t) \/ ResumeCache(t)
  BY <1>1 DEF ResumeGpu, Judge, ResumeCache, Verdict
<1>2. CASE Preflight(t) \/ ResumeRelease(t) \/ ResumeSettle(t)
  BY <1>2 DEF Preflight, ResumeRelease, ResumeSettle, SettleAfterCancel
<1>3. CASE ResumeCreate(t)
  BY <1>3 DEF ResumeCreate, Answered, LocalInv, SlotInv, Owns, Loads, LoadPoints
<1>4. CASE Clear(t)
  BY <1>4 DEF Clear
<1>5. CASE ResumeEvict(t) \/ ResumeEvictCache(t)
  BY <1>5 DEF ResumeEvict, ResumeEvictCache
<1>6. CASE ResumeUnload(t) \/ ResumeUnloadCache(t)
  BY <1>6 DEF ResumeUnload, ResumeUnloadCache
<1> QED
  BY <1>1, <1>2, <1>3, <1>4, <1>5, <1>6 DEF Resume

LEMMA HostKeeps == ASSUME NEW t \in Tasks, Host(t) PROVE Keeps(t) /\ UNCHANGED runtime
BY DEF Host, HostReads, HostUnloads, HostEvicts, HostStarts, HostCreates, HostGivesUp,
   Reply, Keeps, runtime, world

LEMMA TextKeeps ==
  ASSUME NEW t \in Tasks, Progress(t) \/ Chunk(t) \/ StreamEnds(t) \/ StreamFails(t)
  PROVE  Keeps(t)
BY DEF Progress, Chunk, StreamEnds, StreamFails, Keeps, runtime, world

\* What becomes of what the product sees and what the device holds.
LEMMA CallShares == ASSUME LocalInv, NEW t \in Tasks, Call(t) PROVE SharedInv'
<1>1. setting' = setting
  BY CallKeeps DEF Keeps
<1> USE <1>1, NoneAssumption, Fixed, SameDevice
    DEF LocalInv, SharedInv, SharedTypes, Untouched, Verdicts, runtime, world
<1>2. CASE Probe(t)
  BY <1>2 DEF Probe
<1>3. CASE Load(t)
  BY <1>3, Cached, Kinds DEF Load, BeginCreate
<1>4. CASE Evict(t) \/ Unload(t)
  BY <1>4 DEF Evict, Unload
<1>5. CASE Stream(t)
  BY <1>5 DEF Stream
<1> QED
  BY <1>2, <1>3, <1>4, <1>5, Zenon DEF Call

LEMMA ResumeShares == ASSUME LocalInv, NEW t \in Tasks, Resume(t) PROVE SharedInv'
<1>1. setting' = setting
  BY ResumeKeeps DEF Keeps
<1>2. CASE ResumeGpu(t)
  <2>1. state' = state \/ (state' \in States /\ state'.kind \in {"failed", "unavailable"})
    BY <1>2, Failures, Reasons DEF ResumeGpu, Judge, Verdict, runtime
  <2>2. Verdicts'
    BY <1>1, <1>2, SameDevice, Failures, Reasons
       DEF ResumeGpu, Judge, Verdict, runtime, Runnable, LocalInv, SharedInv, Verdicts,
       SlotInv, Answers, Answered
  <2>3. SharedTypes' /\ Untouched'
    BY <1>1, <1>2, <2>1, SameDevice
       DEF ResumeGpu, Judge, Verdict, runtime, world, LocalInv, SharedInv, SharedTypes,
       Untouched
  <2> QED
    BY <2>2, <2>3 DEF SharedInv
<1>3. CASE ResumeCache(t)
  <2>1. state' \in States /\ state'.kind \in {"failed", "supported"}
    BY <1>3, Failures, Flags, Kinds DEF ResumeCache, Verdict
  <2> QED
    BY <1>1, <1>3, <2>1, SameDevice
       DEF ResumeCache, Answered, Verdict, world, LocalInv, SharedInv, SharedTypes,
       Untouched, Verdicts, SlotInv, Stopped
<1>4. CASE Preflight(t)
  <2>1. \/ state' = state \/ state' = Idle
        \/ state.kind = "supported" /\ state' = Loading(state.cached)
    BY <1>4 DEF Preflight, SettleAfterCancel, BeginCreate
  <2>2. state' = state \/ (state' \in States /\ state'.kind \in {"idle", "loading"})
    BY <2>1, Fixed, Cached, Kinds DEF LocalInv, SharedInv, SharedTypes
  <2> QED
    BY <1>1, <1>4, <2>1, <2>2, Fixed, SameDevice
       DEF Preflight, world, LocalInv, SharedInv, SharedTypes, Untouched, Verdicts
<1>5. CASE ResumeCreate(t)
  <2>1. state' = state \/ (state' \in States /\ state'.kind \in {"idle", "ready", "failed"})
    BY <1>5, Fixed, Failures DEF ResumeCreate, SettleAfterCancel
  <2>2. Runnable /\ engine' \in Engines \union {None}
    BY <1>5
       DEF ResumeCreate, Answered, LocalInv, SharedInv, SharedTypes, SlotInv, Answers,
       Stopped
  <2> QED
    BY <1>1, <1>5, <2>1, <2>2, SameDevice
       DEF ResumeCreate, world, LocalInv, SharedInv, SharedTypes, Untouched, Verdicts
<1>6. CASE ResumeRelease(t) \/ ResumeSettle(t)
  <2>1. state' = state \/ (state' \in States /\ state'.kind \in {"idle", "supported"})
    BY <1>6, Fixed, Flags, Kinds DEF ResumeRelease, ResumeSettle, SettleAfterCancel
  <2>2. Runnable
    BY <1>6 DEF ResumeRelease, ResumeSettle, Answered, LocalInv, SlotInv, Stopped
  <2> QED
    BY <1>1, <1>6, <2>1, <2>2, SameDevice
       DEF ResumeRelease, ResumeSettle, world, LocalInv, SharedInv, SharedTypes,
       Untouched, Verdicts
<1>7. CASE Clear(t) \/ ResumeEvict(t)
  BY <1>1, <1>7, SameDevice
     DEF Clear, ResumeEvict, runtime, world, LocalInv, SharedInv, SharedTypes, Untouched,
     Verdicts
<1>8. CASE ResumeEvictCache(t) \/ ResumeUnload(t) \/ ResumeUnloadCache(t)
  <2>1. state' = state \/ (state' \in States /\ state'.kind \in {"idle", "supported", "failed"})
    BY <1>8, Fixed, Flags, Kinds, Failures
       DEF ResumeEvictCache, ResumeUnload, ResumeUnloadCache
  <2>2. Runnable
    BY <1>8
       DEF ResumeEvictCache, ResumeUnload, ResumeUnloadCache, Answered, LocalInv, SlotInv,
       Stopped
  <2> QED
    BY <1>1, <1>8, <2>1, <2>2, SameDevice
       DEF ResumeEvictCache, ResumeUnload, ResumeUnloadCache, world, LocalInv, SharedInv,
       SharedTypes, Untouched, Verdicts
<1> QED
  BY <1>2, <1>3, <1>4, <1>5, <1>6, <1>7, <1>8, Zenon DEF Resume

LEMMA HostShares == ASSUME LocalInv, NEW t \in Tasks, Host(t) PROVE SharedInv'
<1>1. setting' = setting /\ UNCHANGED runtime
  BY HostKeeps DEF Keeps
<1>2. cache' \in {"none", "partial", "full"}
  BY DEF Host, HostReads, HostUnloads, HostEvicts, HostStarts, HostCreates, HostGivesUp,
     world, LocalInv, SharedInv, SharedTypes
<1>3. live' \subseteq Engines /\ (live' # {} => live # {} \/ Runnable)
  <2>1. CASE HostStarts(t)
    BY <2>1
       DEF HostStarts, FreshEngines, LocalInv, SharedInv, SharedTypes, SlotInv, Stopped
  <2>2. CASE \/ HostReads(t) \/ HostUnloads(t) \/ HostEvicts(t)
             \/ HostCreates(t) \/ HostGivesUp(t)
    BY <2>2
       DEF HostReads, HostUnloads, HostEvicts, HostCreates, HostGivesUp, world, LocalInv,
       SharedInv, SharedTypes
  <2> QED
    BY <2>1, <2>2 DEF Host
<1> QED
  BY <1>1, <1>2, <1>3, SameDevice
     DEF runtime, LocalInv, SharedInv, SharedTypes, Untouched, Verdicts

LEMMA TextShares ==
  ASSUME LocalInv, NEW t \in Tasks,
         Progress(t) \/ Chunk(t) \/ StreamEnds(t) \/ StreamFails(t)
  PROVE  SharedInv'
<1>1. UNCHANGED <<engine, loadOperation, world>>
  BY DEF Progress, Chunk, StreamEnds, StreamFails, runtime
<1>2. Runnable
  BY DEF Progress, Chunk, StreamEnds, StreamFails, LocalInv, SlotInv, Stopped
<1>3. CASE Progress(t)
  <2>1. state' \in States /\ state'.kind = "loading"
    BY <1>3, Cached, Kinds DEF Progress, LocalInv, SlotTypes, SlotInv, Answers
  <2> QED
    BY <1>1, <1>2, <2>1, SameDevice
       DEF world, LocalInv, SharedInv, SharedTypes, Untouched, Verdicts
<1>4. CASE Chunk(t) \/ StreamEnds(t) \/ StreamFails(t)
  <2>1. state' = state \/ (state' \in States /\ state'.kind \in {"ready", "failed"})
    BY <1>4, Fixed, Failures DEF Chunk, StreamEnds, StreamFails, runtime
  <2> QED
    BY <1>1, <1>2, <2>1, SameDevice
       DEF world, LocalInv, SharedInv, SharedTypes, Untouched, Verdicts
<1> QED
  BY <1>3, <1>4

\* What becomes of the slot that takes the step.
LEMMA CallSlot == ASSUME LocalInv, NEW t \in Tasks, Call(t), SlotTypes' PROVE SlotInv(t)'
<1>1. setting' = setting
  BY CallKeeps DEF Keeps
<1> USE <1>1, NoneAssumption, SameDevice
    DEF LocalInv, SharedInv, SharedTypes, Untouched, SlotTypes, SlotInv, Holds, Answers,
    Owns, Loads, Stopped, LoadPoints, CapabilityPoints, Streaming, StreamPoints, Start,
    Goto
<1>2. CASE Probe(t)
  BY <1>2 DEF Probe, Replies
<1>3. CASE Load(t)
  BY <1>3 DEF Load, BeginCreate, Replies
<1>4. CASE Evict(t)
  BY <1>4 DEF Evict, runtime
<1>5. CASE Unload(t)
  BY <1>5 DEF Unload, runtime
<1>6. CASE Stream(t)
  BY <1>6 DEF Stream
<1> QED
  BY <1>2, <1>3, <1>4, <1>5, <1>6, Zenon DEF Call

LEMMA FreedSlot ==
  ASSUME LocalInv, NEW t \in Tasks, Finish(t), setting' = setting,
         loadOperation' # t \/ engine' = None
  PROVE  SlotInv(t)'
<1>1. /\ pc'[t] = "free" /\ aborted'[t] = FALSE /\ previous'[t] = Idle
  BY FinishMoves DEF LocalInv
<1> QED
  BY <1>1, Fixed, SameDevice
     DEF SlotInv, Holds, Answers, Owns, Loads, Stopped, LoadPoints, CapabilityPoints,
     Streaming, StreamPoints

LEMMA VerdictSlot ==
  ASSUME LocalInv, NEW t \in Tasks, Answered(t, "gpu") \/ Answered(t, "cache"),
         NEW verdict, Verdict(t, verdict), setting' = setting
  PROVE  SlotInv(t)'
<1>1. CASE op[t] = "load"
  BY <1>1, SameDevice, GotoMoves, AllPoints
     DEF Verdict, Answered, LocalInv, SlotInv, Holds, Answers, Owns, Loads, Stopped,
     LoadPoints, CapabilityPoints, Streaming, StreamPoints
<1>2. CASE op[t] # "load"
  <2>1. loadOperation' # t \/ engine' = None
    BY <1>2 DEF Verdict, Answered, LocalInv, SlotInv, Owns
  <2> QED
    BY <1>2, <2>1, FreedSlot DEF Verdict
<1> QED
  BY <1>1, <1>2

LEMMA ResumeSlot ==
  ASSUME LocalInv, NEW t \in Tasks, Resume(t), SlotTypes'
  PROVE  SlotInv(t)'
<1>1. setting' = setting
  BY ResumeKeeps DEF Keeps
<1>2. CASE ResumeGpu(t)
  <2>1. ASSUME NEW verdict, Verdict(t, verdict) PROVE SlotInv(t)'
    BY <1>1, <1>2, <2>1, VerdictSlot DEF ResumeGpu
  <2>2. CASE /\ answer[t] = "supported" /\ Judge(t, setting.adapter)
             /\ ~\E verdict : Verdict(t, verdict)
    <3>1. Runnable
      BY <1>2, <2>2 DEF ResumeGpu, Answered, Judge, Runnable, LocalInv, SlotInv, Answers
    <3>2. /\ pc[t] = "gpu" /\ Goto(t, "cache")
          /\ UNCHANGED <<runtime, op, previous, aborted, using>>
      BY <1>2, <2>2 DEF ResumeGpu, Answered, Judge
    <3> QED
      BY <1>1, <3>1, <3>2, SameDevice, GotoMoves, AllPoints
         DEF LocalInv, runtime, SlotInv, Holds, Answers, Owns, Loads, Stopped, LoadPoints,
         CapabilityPoints, Streaming, StreamPoints
  <2> QED
    BY <1>2, <2>1, <2>2 DEF ResumeGpu
<1>3. CASE ResumeCache(t)
  BY <1>1, <1>3, VerdictSlot DEF ResumeCache
<1>4. CASE Preflight(t)
  BY <1>1, <1>4, NoneAssumption, SameDevice
     DEF Preflight, BeginCreate, SettleAfterCancel, LocalInv, SharedInv, Untouched,
     SlotTypes, SlotInv, Holds, Answers, Owns, Loads, Stopped, LoadPoints,
     CapabilityPoints, Streaming, StreamPoints, Goto
<1>5. CASE ResumeCreate(t)
  <2>1. /\ pc'[t] \in {"settle_cache", "settled", "release"}
        /\ pc'[t] # "settled" => engine' = engine
        /\ pc'[t] = "release" => using'[t] = using[t] /\ answer[t] # "error"
    BY <1>5 DEF ResumeCreate, SettleAfterCancel, LetGo, LocalInv, SlotTypes, Goto
  <2>2. pc[t] = "create" /\ answer[t] # None /\ UNCHANGED <<loadOperation, previous, aborted>>
    BY <1>5 DEF ResumeCreate, Answered
  <2> QED
    BY <1>1, <2>1, <2>2, SameDevice
       DEF LocalInv, SlotInv, Holds, Answers, Owns, Loads, Stopped, LoadPoints,
       CapabilityPoints, Streaming, StreamPoints
<1>6. CASE ResumeRelease(t) \/ ResumeSettle(t)
  BY <1>1, <1>6, SameDevice
     DEF ResumeRelease, ResumeSettle, Answered, SettleAfterCancel, LocalInv, SlotTypes,
     SlotInv, Holds, Answers, Owns, Loads, Stopped, LoadPoints, CapabilityPoints,
     Streaming, StreamPoints, Goto
<1>7. CASE Clear(t)
  <2>1. loadOperation' # t
    BY <1>7, NoneAssumption DEF Clear
  <2> QED
    BY <1>1, <1>7, <2>1, FreedSlot DEF Clear
<1>8. CASE ResumeEvict(t)
  <2>1. pc[t] = "evict" /\ (loadOperation' # t \/ engine' = None)
    BY <1>8 DEF ResumeEvict, Answered, runtime, LocalInv, SlotInv, Owns
  <2>2. CASE Finish(t)
    BY <1>1, <2>1, <2>2, FreedSlot
  <2>3. CASE /\ Goto(t, "evict_cache") /\ UNCHANGED <<op, previous, aborted, using>>
             /\ state.kind = "supported"
    BY <1>1, <1>8, <2>1, <2>3, SameDevice, GotoMoves, AllPoints
       DEF ResumeEvict, runtime, LocalInv, SharedInv, Untouched, SlotInv, Holds, Answers,
       Owns, Loads, Stopped, LoadPoints, CapabilityPoints, Streaming, StreamPoints
  <2> QED
    BY <1>8, <2>2, <2>3 DEF ResumeEvict
<1>9. CASE ResumeEvictCache(t) \/ ResumeUnloadCache(t)
  <2>1. loadOperation' # t \/ engine' = None
    BY <1>9 DEF ResumeEvictCache, ResumeUnloadCache, Answered, LocalInv, SlotInv, Owns
  <2> QED
    BY <1>1, <1>9, <2>1, FreedSlot DEF ResumeEvictCache, ResumeUnloadCache
<1>10. CASE ResumeUnload(t)
  <2>1. pc[t] = "unload" /\ (loadOperation' # t \/ engine' = None)
    BY <1>10 DEF ResumeUnload, Answered, LocalInv, SlotInv, Owns
  <2>2. CASE Finish(t)
    BY <1>1, <2>1, <2>2, FreedSlot
  <2>3. CASE Goto(t, "unload_cache") /\ UNCHANGED <<op, previous, aborted, using>>
    BY <1>1, <1>10, <2>1, <2>3, SameDevice, GotoMoves, AllPoints
       DEF ResumeUnload, LocalInv, SlotInv, Holds, Answers, Owns, Loads, Stopped,
       LoadPoints, CapabilityPoints, Streaming, StreamPoints
  <2> QED
    BY <1>10, <2>2, <2>3 DEF ResumeUnload
<1> QED
  BY <1>2, <1>3, <1>4, <1>5, <1>6, <1>7, <1>8, <1>9, <1>10, Zenon DEF Resume

LEMMA HostSlot == ASSUME LocalInv, NEW t \in Tasks, Host(t), SlotTypes' PROVE SlotInv(t)'
<1>1. setting' = setting /\ UNCHANGED <<engine, loadOperation>>
  BY HostKeeps DEF Keeps, runtime
<1> USE <1>1, NoneAssumption, EnginesAssumption, SameDevice
    DEF LocalInv, SlotTypes, SlotInv, Holds, Answers, Owns, Loads, Stopped, LoadPoints,
    CapabilityPoints, Streaming, StreamPoints, Replies, Reply
<1>2. CASE HostReads(t)
  BY <1>2 DEF HostReads
<1>3. CASE HostUnloads(t) \/ HostEvicts(t)
  BY <1>3 DEF HostUnloads, HostEvicts
<1>4. CASE HostStarts(t)
  BY <1>4 DEF HostStarts, FreshEngines
<1>5. CASE HostCreates(t) \/ HostGivesUp(t)
  BY <1>5 DEF HostCreates, HostGivesUp
<1> QED
  BY <1>2, <1>3, <1>4, <1>5, Zenon DEF Host

LEMMA TextSlot ==
  ASSUME LocalInv, NEW t \in Tasks, SlotTypes',
         Progress(t) \/ Chunk(t) \/ StreamEnds(t) \/ StreamFails(t)
  PROVE  SlotInv(t)'
<1>1. setting' = setting /\ UNCHANGED <<engine, loadOperation>>
  BY DEF Progress, Chunk, StreamEnds, StreamFails, runtime, world
<1>2. CASE Progress(t)
  BY <1>1, <1>2, SameDevice
     DEF Progress, calls, LocalInv, SlotInv, Holds, Answers, Owns, Loads, Stopped,
     Streaming
<1>3. CASE Chunk(t)
  BY <1>1, <1>3, SameDevice
     DEF Chunk, LocalInv, SlotTypes, SlotInv, Holds, Answers, Owns, Loads, Stopped,
     LoadPoints, CapabilityPoints, Streaming, StreamPoints, Goto
<1>4. CASE StreamEnds(t) \/ StreamFails(t)
  <2>1. loadOperation' # t \/ engine' = None
    BY <1>1, <1>4 DEF StreamEnds, StreamFails, LocalInv, SlotInv, Owns
  <2> QED
    BY <1>1, <1>4, <2>1, FreedSlot DEF StreamEnds, StreamFails
<1> QED
  BY <1>2, <1>3, <1>4

-----------------------------------------------------------------------------
(* The theorems.                                                           *)

LEMMA LocalInit == Init => LocalInv
BY AllPoints, Fixed, NoneAssumption
   DEF Init, LocalInv, SlotTypes, SharedInv, SharedTypes, Untouched, Verdicts, SlotInv,
   Holds, Answers, Owns, Loads, Stopped, LoadPoints, CapabilityPoints, Streaming,
   StreamPoints

\* A step of one call, which every other call looks on.
Step(t) ==
  \/ Call(t) \/ Resume(t) \/ Host(t)
  \/ Progress(t) \/ Chunk(t) \/ StreamEnds(t) \/ StreamFails(t)

LEMMA StepKept ==
  ASSUME LocalInv, NEW t \in Tasks, Step(t)
  PROVE  LocalInv' /\ Others(t) /\ Keeps(t)
<1>1. SlotTypes /\ SharedTypes
  BY DEF LocalInv, SharedInv
<1>2. SlotTypes' /\ Others(t)
  BY <1>1, CallMoves, ResumeMoves, HostMoves, TextMoves DEF Step
<1>3. Keeps(t)
  BY CallKeeps, ResumeKeeps, HostKeeps, TextKeeps DEF Step
<1>4. SharedInv'
  BY CallShares, ResumeShares, HostShares, TextShares DEF Step
<1>5. SlotInv(t)'
  BY <1>2, CallSlot, ResumeSlot, HostSlot, TextSlot DEF Step
<1>6. \A u \in Tasks \ {t} : SlotInv(u)'
  BY <1>2, <1>3, OthersKept DEF Others
<1> QED
  BY <1>2, <1>3, <1>4, <1>5, <1>6 DEF LocalInv

LEMMA LocalStep == LocalInv /\ [Next]_vars => LocalInv'
<1> SUFFICES ASSUME LocalInv, [Next]_vars PROVE LocalInv'
  OBVIOUS
<1>1. CASE LoadAgain
  BY <1>1, Fixed, SameDevice
     DEF LoadAgain, calls, world, LocalInv, SlotTypes, SharedInv, SharedTypes, Untouched,
     Verdicts, SlotInv, Holds, Answers, Owns, Loads, Stopped, Streaming
<1>2. CASE Cancel
  <2>1. SlotTypes'
    BY <1>2, CancelMoves DEF LocalInv, SharedInv
  <2>2. SharedInv'
    BY <1>2, CancelMoves, SameDevice
       DEF LocalInv, SharedInv, SharedTypes, Untouched, Verdicts, runtime, world
  <2>3. \A u \in Tasks : SlotInv(u)'
    BY <1>2, CancelMoves, SameDevice
       DEF LocalInv, SharedInv, SlotInv, Holds, Answers, Owns, Loads, Stopped, Streaming,
       runtime, world
  <2> QED
    BY <2>1, <2>2, <2>3 DEF LocalInv
<1>3. ASSUME NEW t \in Tasks, Step(t) PROVE LocalInv'
  BY <1>3, StepKept
<1>4. CASE UNCHANGED vars
  BY <1>4, SameDevice
     DEF vars, runtime, calls, world, LocalInv, SlotTypes, SharedInv, SharedTypes,
     Untouched, Verdicts, SlotInv, Holds, Answers, Owns, Loads, Stopped, Streaming
<1> QED
  BY <1>1, <1>2, <1>3, <1>4, Zenon DEF Next, Step

\* The invariant the theorems below rest on: an answer fits the place it is awaited at, the
\* load in flight is the one operation and has no engine yet, and on a device that lacks
\* something nothing gets past the verdict.
THEOREM LocalInvariant == Spec => []LocalInv
BY LocalInit, LocalStep, PTL DEF Spec

\* Every value stays in the set the module's head gives it, and a call that
\* streams or lets go of an engine has captured one (runtime.ts).
THEOREM TypeCorrect == Spec => []TypeOK
<1>1. LocalInv => TypeOK
  BY TypeParts DEF LocalInv, SharedInv, SlotInv
<1> QED
  BY <1>1, LocalInvariant, PTL

\* A device that has what the probe asks for is one the engine starts on.
LEMMA RunnableStarts == SharedTypes /\ Runnable => Startable
<1> SUFFICES ASSUME SharedTypes, Runnable PROVE Startable
  OBVIOUS
<1> DEFINE stated == ParseQuantization(model.id)
           judged == [model EXCEPT !.half = @ /\ stated # {}]
<1>1. model \in ServedModel /\ (stated # {} => model.half = ("f16" \in stated))
  <2>1. /\ setting.models \in Seq(ServedModel) /\ setting.entry \in DOMAIN setting.models
        /\ LET told == ParseQuantization(setting.models[setting.entry].id)
           IN  told # {} => setting.models[setting.entry].half = ("f16" \in told)
    BY CatalogAssumption DEF SharedTypes
  <2> QED
    BY <2>1 DEF model
<1>2. /\ judged.id = model.id /\ judged.requiredFeatures = model.requiredFeatures
      /\ judged.context = model.context /\ judged.sliding = model.sliding
      /\ judged.half = (model.half /\ stated # {})
  BY <1>1 DEF ServedModel
<1>3. judged.half => "f16" \in stated
  BY <1>1, <1>2
<1>4. EffectiveRequiredFeatures(judged) = EffectiveRequiredFeatures(model)
  BY <1>2 DEF EffectiveRequiredFeatures
<1>5. EffectiveRequiredFeatures(model) \subseteq setting.adapter.features
  BY DEF Runnable, MissingFeatures
<1>6. judged.half => ShaderF16 \in setting.adapter.features
  BY <1>3, <1>5 DEF EffectiveRequiredFeatures, RequiredFeaturesFor
<1>7. EngineStarts(judged, setting.adapter)
  BY <1>2, <1>4, <1>5, <1>6
     DEF Runnable, EngineStarts, ToModelRecord, ToChatOverrides, ContextWindow
<1> QED
  BY <1>7 DEF Startable, Runnable

\* No download on a device the engine refuses (runtime.ts #performLoad's preflight).
THEOREM NoDoomed == Spec => []NoDoomedDownload
<1>1. LocalInv => NoDoomedDownload
  BY RunnableStarts DEF LocalInv, SharedInv, Untouched, SlotInv, Stopped, NoDoomedDownload
<1> QED
  BY <1>1, LocalInvariant, PTL

\* A call comes to `settled` from the four places where a load ends.
LEMMA Settles ==
  ASSUME LocalInv, NEW t \in Tasks, Step(t), pc[t] # "settled", pc'[t] = "settled"
  PROVE  Preflight(t) \/ ResumeCreate(t) \/ ResumeRelease(t) \/ ResumeSettle(t)
<1> USE DEF LocalInv, SlotTypes, Goto, Finish
<1>1. ~Call(t)
  BY DEF Call, Probe, Load, BeginCreate, Evict, Unload, Stream, Start
<1>2. ~Host(t)
  BY DEF Host, HostReads, HostUnloads, HostEvicts, HostStarts, HostCreates, HostGivesUp,
     Reply
<1>3. ~(Progress(t) \/ Chunk(t) \/ StreamEnds(t) \/ StreamFails(t))
  BY DEF Progress, Chunk, StreamEnds, StreamFails, calls
<1>4. ~(ResumeGpu(t) \/ ResumeCache(t))
  BY DEF ResumeGpu, Judge, ResumeCache, Verdict
<1>5. ~(Clear(t) \/ ResumeEvict(t) \/ ResumeEvictCache(t))
  BY DEF Clear, ResumeEvict, ResumeEvictCache
<1>6. ~(ResumeUnload(t) \/ ResumeUnloadCache(t))
  BY DEF ResumeUnload, ResumeUnloadCache
<1> QED
  BY <1>1, <1>2, <1>3, <1>4, <1>5, <1>6, Zenon DEF Step, Resume

\* A cancelled load settles as idle or supported and without an engine (runtime.ts
\* #performLoad).
THEOREM Cancelled == Spec => CancelledNeverFails
<1> DEFINE Fails(t) == aborted[t] /\ pc[t] # "settled" /\ pc'[t] = "settled"
           Gentle == \A t \in Tasks :
             Fails(t) => state'.kind \in {"idle", "supported"} /\ engine' = None
<1>1. LocalInv /\ [Next]_vars => [Gentle]_vars
  <2> SUFFICES ASSUME LocalInv, Next, NEW t \in Tasks, Fails(t)
               PROVE  state'.kind \in {"idle", "supported"} /\ engine' = None
    BY DEF Gentle
  <2>1. Step(t)
    <3>1. CASE LoadAgain
      BY <3>1 DEF LoadAgain, calls
    <3>2. CASE Cancel
      BY <3>2 DEF Cancel
    <3>3. ASSUME NEW u \in Tasks, Step(u), u # t PROVE FALSE
      BY <3>3, StepKept DEF Others, Stays
    <3> QED
      BY <3>1, <3>2, <3>3 DEF Next, Step
  <2>2. loadOperation = t /\ engine = None
    BY DEF LocalInv, SlotInv, Owns
  <2>3. Preflight(t) \/ ResumeCreate(t) \/ ResumeRelease(t) \/ ResumeSettle(t)
    BY <2>1, Settles
  <2>4. CASE Preflight(t) \/ ResumeCreate(t) \/ ResumeRelease(t)
    BY <2>2, <2>4, Fixed
       DEF Preflight, ResumeCreate, ResumeRelease, SettleAfterCancel, Goto, LocalInv,
       SlotTypes
  <2>5. CASE ResumeSettle(t)
    BY <2>2, <2>5, Fixed, Kinds DEF ResumeSettle
  <2> QED
    BY <2>3, <2>4, <2>5
<1> QED
  BY <1>1, LocalInvariant, PTL DEF Spec, CancelledNeverFails

-----------------------------------------------------------------------------
(* Selection and the runtime.                                              *)

Below == {pair \in Nat \X Nat : pair[1] < pair[2]}

\* A set of numbers that is not empty has a least one.
LEMMA Least ==
  ASSUME NEW S, S \subseteq Nat, S # {}
  PROVE  \E i \in S : \A j \in S : ~(j < i)
<1>1. IsWellFoundedOn(Below, Nat)
  BY NatLessThanWellFounded DEF OpToRel, Below
<1>2. \E i \in S : \A j \in S : <<j, i>> \notin Below
  BY <1>1, WFMin
<1> QED
  BY <1>2 DEF Below

Fits(models, capability, i) ==
  MissingFeatures(capability, EffectiveRequiredFeatures(models[i])) = {}

\* Selection returns the first entry the device can run, and none only if there is none.
LEMMA SelectionMeans ==
  ASSUME NEW models \in Seq(ServedModel), NEW capability
  PROVE  LET choice == SelectServedModel(models, capability)
         IN  /\ choice.selected =>
                  /\ ~BelowRuntimeFloor(capability)
                  /\ choice.entry \in DOMAIN models /\ Fits(models, capability, choice.entry)
                  /\ \A j \in 1 .. choice.entry - 1 : ~Fits(models, capability, j)
             /\ ~choice.selected =>
                  /\ choice.entry = 0
                  /\ \/ BelowRuntimeFloor(capability)
                     \/ \A i \in DOMAIN models : ~Fits(models, capability, i)
                  /\ choice.reason = IF BelowRuntimeFloor(capability)
                                       THEN "device_limits_insufficient"
                                       ELSE "model_features_unavailable"
<1> DEFINE fits(i) == MissingFeatures(capability, EffectiveRequiredFeatures(models[i])) = {}
           first == CHOOSE i \in DOMAIN models : fits(i) /\ \A j \in 1 .. i - 1 : ~fits(j)
<1>1. \A i : fits(i) <=> Fits(models, capability, i)
  BY DEF Fits
<1>2. CASE BelowRuntimeFloor(capability)
  BY <1>2 DEF SelectServedModel, NoneSelected
<1>3. CASE ~BelowRuntimeFloor(capability) /\ \A i \in DOMAIN models : ~fits(i)
  BY <1>1, <1>3 DEF SelectServedModel, NoneSelected
<1>4. CASE ~BelowRuntimeFloor(capability) /\ \E i \in DOMAIN models : fits(i)
  <2>1. \E i \in DOMAIN models : fits(i) /\ \A j \in 1 .. i - 1 : ~fits(j)
    <3> DEFINE able == {i \in DOMAIN models : fits(i)}
    <3>1. DOMAIN models = 1 .. Len(models) /\ Len(models) \in Nat
      OBVIOUS
    <3>2. able \subseteq Nat /\ able # {}
      BY <1>4, <3>1
    <3>3. PICK i \in able : \A j \in able : ~(j < i)
      BY <3>2, Least
    <3>4. \A j \in 1 .. i - 1 : j \in DOMAIN models /\ j < i
      BY <3>1, <3>3
    <3> QED
      BY <3>3, <3>4
  <2>2. first \in DOMAIN models /\ fits(first) /\ \A j \in 1 .. first - 1 : ~fits(j)
    BY <2>1
  <2>3. SelectServedModel(models, capability) = Selected(first)
    BY <1>4 DEF SelectServedModel
  <2>4. Selected(first).selected /\ Selected(first).entry = first
    BY DEF Selected
  <2>5. /\ Fits(models, capability, first)
        /\ \A j \in 1 .. first - 1 : ~Fits(models, capability, j)
    BY <2>2 DEF Fits
  <2> HIDE DEF first
  <2> QED
    BY <1>4, <2>2, <2>3, <2>4, <2>5
<1> QED
  BY <1>2, <1>3, <1>4

\* Selection and the runtime's own probe judge a device alike (selection.ts, runtime.ts
\* #readCapability).
THEOREM Agreement == Spec => []SelectionAgrees
<1>1. LocalInv => SelectionAgrees
  <2> SUFFICES ASSUME LocalInv, setting.adapter # None PROVE SelectionAgrees
    BY DEF SelectionAgrees
  <2> DEFINE choice == SelectServedModel(setting.models, setting.adapter)
  <2>1. setting.models \in Seq(ServedModel) /\ setting.entry \in DOMAIN setting.models
    BY CatalogAssumption DEF LocalInv, SharedInv, SharedTypes
  <2>2. setting.entry \in Nat /\ setting.entry >= 1
    BY <2>1
  <2>3. Runnable <=> /\ ~BelowRuntimeFloor(setting.adapter)
                     /\ Fits(setting.models, setting.adapter, setting.entry)
    BY DEF Runnable, Fits, model
  <2>4. choice.entry = setting.entry => Runnable
    BY <2>1, <2>2, <2>3, SelectionMeans
  <2>5. ~choice.selected \/ setting.entry < choice.entry => ~Runnable
    BY <2>1, <2>2, <2>3, SelectionMeans
  <2>6. ~Runnable => ~PastProbe
    BY DEF LocalInv, SharedInv, Untouched, PastProbe
  <2>7. ~choice.selected /\ state.kind = "unavailable" => state.reason = choice.reason
    BY <2>1, SelectionMeans DEF LocalInv, SharedInv, Verdicts
  <2>8. state.kind = "unavailable" => ~Runnable
    BY DEF LocalInv, SharedInv, Verdicts
  <2> QED
    BY <2>4, <2>5, <2>6, <2>7, <2>8 DEF SelectionAgrees
<1> QED
  BY <1>1, LocalInvariant, PTL
=============================================================================
