------------------------- MODULE LocalAwaitedProofs -------------------------
(***************************************************************************)
(* Theorems about LocalInference for a product that keeps some of its      *)
(* calls apart: first which overlap is to be kept from for what is shown   *)
(* to agree with the engine, the workers and the cache; then, for a        *)
(* product that awaits each lifecycle call before it makes the next one,   *)
(* that none of these overlaps happens and what lifecycle it is led        *)
(* through.                                                                *)
(***************************************************************************)
EXTENDS LocalInferenceProofs, LocalLifecycle, FiniteSetTheorems

Reading(t) == pc[t] \in {"cache", "settle_cache", "evict_cache", "unload_cache"}

\* One unload at a time.
UnloadsApart ==
  \A t, u \in Tasks : pc[t] \in UnloadPoints /\ pc[u] \in UnloadPoints => t = u

\* Beside a stream no lifecycle call but a load that has settled.
StreamsApart == \A t, u \in Tasks : Streaming(t) /\ Lifecycle(u) => pc[u] = "settled"

\* No creation and no deletion while the cache is being read.
ReadsApart == \A t, u \in Tasks : Reading(t) => pc[u] \notin {"create", "evict"}

LEMMA Apiece == Ready # Generating /\ Ready.kind = "ready" /\ Generating.kind = "generating"
BY Fixed

LEMMA StatesDiffer ==
  /\ Ready # Generating /\ Idle # Generating /\ Probing # Generating
  /\ Idle # Ready /\ Probing # Ready
BY Fixed

\* The engine is set by a creation and forgotten by an unload.
LEMMA EngineMoves ==
  ASSUME NEW t \in Tasks, Step(t)
  PROVE  \/ engine' = engine
         \/ ResumeCreate(t) /\ answer[t] # "error" /\ engine' = answer[t]
         \/ ResumeUnload(t) /\ answer[t] = "done" /\ engine' = None
<1>1. CASE Call(t)
  BY <1>1 DEF Call, Probe, Load, Evict, Unload, Stream, runtime
<1>2. CASE Host(t)
  BY <1>2, HostKeeps DEF runtime
<1>3. CASE Progress(t) \/ Chunk(t) \/ StreamEnds(t) \/ StreamFails(t)
  BY <1>3 DEF Progress, Chunk, StreamEnds, StreamFails, runtime
<1>4. CASE \/ ResumeGpu(t) \/ ResumeCache(t)
           \/ Preflight(t) \/ ResumeRelease(t) \/ ResumeSettle(t)
  BY <1>4 DEF ResumeGpu, Judge, ResumeCache, Verdict, Preflight, ResumeRelease,
     ResumeSettle, runtime
<1>5. CASE Clear(t) \/ ResumeEvict(t) \/ ResumeEvictCache(t) \/ ResumeUnloadCache(t)
  BY <1>5 DEF Clear, ResumeEvict, ResumeEvictCache, ResumeUnloadCache, runtime
<1>6. CASE ResumeCreate(t) \/ ResumeUnload(t)
  BY <1>6 DEF ResumeCreate, ResumeUnload
<1> QED
  BY <1>1, <1>2, <1>3, <1>4, <1>5, <1>6, Zenon DEF Step, Resume

\* Only the host starts and terminates workers, and writes and deletes what is cached.
LEMMA WorldMoves ==
  ASSUME NEW t \in Tasks, Step(t)
  PROVE  /\ \A e \in live' : e \in live \/ e \in FreshEngines
         /\ cache' = cache \/ pc[t] \in {"create", "evict"}
<1>1. CASE Call(t)
  BY <1>1 DEF Call, Probe, Load, Evict, Unload, Stream, world
<1>2. CASE HostReads(t) \/ HostUnloads(t) \/ HostEvicts(t)
  BY <1>2 DEF HostReads, HostUnloads, HostEvicts, world
<1>3. CASE HostStarts(t)
  BY <1>3 DEF HostStarts
<1>4. CASE HostCreates(t) \/ HostGivesUp(t)
  BY <1>4 DEF HostCreates, HostGivesUp
<1>5. CASE Progress(t) \/ Chunk(t) \/ StreamEnds(t) \/ StreamFails(t)
  BY <1>5 DEF Progress, Chunk, StreamEnds, StreamFails, world
<1>6. CASE \/ ResumeGpu(t) \/ ResumeCache(t) \/ Preflight(t) \/ ResumeCreate(t)
           \/ ResumeRelease(t) \/ ResumeSettle(t)
  BY <1>6 DEF ResumeGpu, Judge, ResumeCache, Verdict, Preflight, ResumeCreate,
     ResumeRelease, ResumeSettle, world
<1>7. CASE \/ Clear(t) \/ ResumeEvict(t) \/ ResumeEvictCache(t)
           \/ ResumeUnload(t) \/ ResumeUnloadCache(t)
  BY <1>7 DEF Clear, ResumeEvict, ResumeEvictCache, ResumeUnload, ResumeUnloadCache, world
<1> QED
  BY <1>1, <1>2, <1>3, <1>4, <1>5, <1>6, <1>7, Zenon DEF Step, Resume, Host

-----------------------------------------------------------------------------
(* Workers, for a product whose unloads do not overlap.                    *)

\* What a call can rely on about the worker in its hands.
Keeper(t, e) == pc[t] \in {"create", "release", "unload"} /\ using[t] = e

Sound(t) ==
  /\ pc[t] = "unload" => using[t] = engine
  /\ pc[t] \in {"release", "unload"} /\ answer[t] # None => using[t] \notin live
  /\ pc[t] = "create" /\ answer[t] = "error" => using[t] \notin live

WorkersInv == LocalInv /\ NoStrandedEngine /\ \A t \in Tasks : Sound(t)

LEMMA WorkersInit == Init => WorkersInv
BY LocalInit DEF Init, WorkersInv, NoStrandedEngine, Sound

\* What is captured outlasts the steps of the others: a worker is no one else's to start,
\* and the engine is no one else's to unload.
LEMMA OthersSound ==
  ASSUME WorkersInv, UnloadsApart, NEW t \in Tasks, Step(t), NEW u \in Tasks \ {t}
  PROVE  Sound(u)'
<1>1. Stays(u) /\ SharedTypes'
  BY StepKept DEF WorkersInv, Others, LocalInv, SharedInv
<1>2. using[u] \notin live => using[u] \notin live'
  BY WorldMoves DEF FreshEngines
<1>3. pc[u] = "unload" => engine' = engine
  <2>1. pc[u] = "unload" => pc[t] # "unload"
    BY DEF UnloadsApart, UnloadPoints
  <2>2. pc[u] = "unload" => engine # None
    BY NoneAssumption DEF WorkersInv, LocalInv, SlotInv, Holds, Sound
  <2>3. pc[t] = "create" => engine = None
    BY DEF WorkersInv, LocalInv, SlotInv, Owns, Loads, LoadPoints
  <2> QED
    BY <2>1, <2>2, <2>3, EngineMoves DEF ResumeCreate, ResumeUnload, Answered
<1> QED
  BY <1>1, <1>2, <1>3 DEF WorkersInv, Stays, Sound

\* The call that takes the step.
LEMMA StepSound == ASSUME WorkersInv, NEW t \in Tasks, Step(t) PROVE Sound(t)'
<1>0. SlotTypes /\ SharedTypes /\ Sound(t) /\ Answers(t)
  BY DEF WorkersInv, LocalInv, SharedInv, SlotInv
<1>a. ASSUME pc'[t] # "unload", answer'[t] = None PROVE Sound(t)'
  BY <1>a, NoneAssumption DEF Sound, Replies
<1> USE <1>0, NoneAssumption, EnginesAssumption
    DEF SlotTypes, SharedTypes, Sound, Answers, Goto, Finish, Answered
<1>1. CASE Call(t)
  <2>1. CASE Unload(t)
    BY <2>1 DEF Unload, Start, runtime
  <2>2. CASE Probe(t) \/ Load(t) \/ Evict(t) \/ Stream(t)
    <3>1. \E point \in {"gpu", "create", "evict", "stream"} : Goto(t, point)
      BY <2>2, Zenon DEF Probe, Load, BeginCreate, Evict, Stream, Start
    <3> QED
      BY <1>a, <3>1
  <2> QED
    BY <1>1, <2>1, <2>2 DEF Call
<1>2. CASE ResumeGpu(t) \/ ResumeCache(t)
  <2>1. \E point \in {"cache", "preflight", "free"} : Goto(t, point)
    BY <1>2, Zenon DEF ResumeGpu, Judge, ResumeCache, Verdict, Finish
  <2> QED
    BY <1>a, <2>1
<1>3. CASE Preflight(t) \/ ResumeRelease(t) \/ ResumeSettle(t) \/ Clear(t)
  <2>1. \E point \in {"create", "settle_cache", "settled", "free"} : Goto(t, point)
    BY <1>3
       DEF Preflight, BeginCreate, ResumeRelease, ResumeSettle, Clear, SettleAfterCancel
  <2> QED
    BY <1>a, <2>1
<1>4. CASE ResumeCreate(t)
  BY <1>4 DEF ResumeCreate, SettleAfterCancel
<1>5. CASE ResumeEvict(t) \/ ResumeEvictCache(t) \/ ResumeUnload(t) \/ ResumeUnloadCache(t)
  BY <1>5 DEF ResumeEvict, ResumeEvictCache, ResumeUnload, ResumeUnloadCache
<1>6. CASE HostReads(t) \/ HostUnloads(t) \/ HostEvicts(t)
  BY <1>6 DEF HostReads, HostUnloads, HostEvicts, Reply, Replies, runtime
<1>7. CASE HostStarts(t)
  <2>1. CASE Reply(t, "error") /\ UNCHANGED live
    BY <1>7, <2>1 DEF HostStarts, Reply
  <2>2. CASE UNCHANGED <<pc, answer>>
    BY <1>7, <2>2 DEF HostStarts, Replies
  <2> QED
    BY <1>7, <2>1, <2>2 DEF HostStarts
<1>8. CASE HostCreates(t) \/ HostGivesUp(t)
  BY <1>8 DEF HostCreates, HostGivesUp, Reply, Replies, runtime
<1>9. CASE Progress(t) \/ Chunk(t)
  BY <1>9 DEF Progress, Chunk, StreamPoints, calls, world, runtime
<1>10. CASE StreamEnds(t) \/ StreamFails(t)
  BY <1>10 DEF StreamEnds, StreamFails
<1> QED
  BY <1>1, <1>2, <1>3, <1>4, <1>5, <1>6, <1>7, <1>8, <1>9, <1>10, Zenon
     DEF Step, Resume, Host

\* Whatever worker is the engine's, is new, or is in the hands of the call in slot t,
\* has a place after its step.
Placed(t) ==
  \A e \in live' :
    e = engine \/ e \notin live \/ Keeper(t, e) => e = engine' \/ Keeper(t, e)'

\* A worker stays in the same hands unless the call that has it takes the step.
LEMMA OthersStrand ==
  ASSUME WorkersInv, NEW t \in Tasks, Step(t), Placed(t)
  PROVE  NoStrandedEngine'
<1>1. Others(t)
  BY StepKept DEF WorkersInv
<1> SUFFICES ASSUME NEW e \in live' PROVE e = engine' \/ \E u \in Tasks : Keeper(u, e)'
  BY DEF NoStrandedEngine, Keeper
<1>2. CASE e \in live /\ e # engine
  <2>1. PICK u \in Tasks : Keeper(u, e)
    BY <1>2 DEF WorkersInv, NoStrandedEngine, Keeper
  <2>2. CASE u # t
    BY <1>1, <2>1, <2>2 DEF Others, Stays, Keeper
  <2>3. CASE u = t
    BY <2>1, <2>3 DEF Placed
  <2> QED
    BY <2>2, <2>3
<1> QED
  BY <1>2 DEF Placed

LEMMA NoneStranded == ASSUME WorkersInv, NEW t \in Tasks, Step(t) PROVE NoStrandedEngine'
<1> SUFFICES Placed(t)
  BY OthersStrand
<1>0. None \notin live /\ SlotTypes /\ Answers(t) /\ Sound(t)
  BY NoneAssumption DEF WorkersInv, LocalInv, SharedInv, SharedTypes, SlotInv
<1> USE <1>0 DEF SlotTypes, Sound, Keeper, Placed
<1>1. CASE Call(t)
  BY <1>1
     DEF Call, Probe, Load, BeginCreate, Evict, Unload, Stream, Start, Goto, world,
     runtime
<1>2. CASE HostReads(t) \/ HostEvicts(t)
  BY <1>2 DEF HostReads, HostEvicts, Reply, world, runtime
<1>3. CASE HostUnloads(t)
  BY <1>3 DEF HostUnloads, Reply, runtime
<1>4. CASE HostStarts(t)
  BY <1>4 DEF HostStarts, Reply, runtime
<1>5. CASE HostCreates(t) \/ HostGivesUp(t)
  BY <1>5 DEF HostCreates, HostGivesUp, Reply, runtime
<1>6. CASE ResumeGpu(t) \/ ResumeCache(t)
  BY <1>6 DEF ResumeGpu, Judge, ResumeCache, Verdict, Answered, world, runtime
<1>7. CASE Preflight(t) \/ ResumeSettle(t) \/ Clear(t)
  BY <1>7
     DEF Preflight, BeginCreate, SettleAfterCancel, ResumeSettle, Clear, Answered, world
<1>8. CASE ResumeCreate(t)
  <2>1. pc[t] = "create" /\ answer[t] # None /\ live' = live
    BY <1>8 DEF ResumeCreate, Answered, world
  <2>2. \/ answer[t] = "error"
        \/ pc'[t] = "release" /\ using'[t] = using[t]
        \/ answer[t] # "error" /\ engine' = answer[t]
    BY <1>8 DEF ResumeCreate, Goto
  <2>3. engine = None /\ (answer[t] # "error" => answer[t] = using[t])
    BY <2>1 DEF Answers, WorkersInv, LocalInv, SlotInv, Owns, Loads, LoadPoints
  <2> QED
    BY <2>1, <2>2, <2>3
<1>9. CASE ResumeRelease(t)
  BY <1>9 DEF ResumeRelease, Answered, world
<1>10. CASE ResumeEvict(t) \/ ResumeEvictCache(t)
  BY <1>10 DEF ResumeEvict, ResumeEvictCache, Answered, world, runtime
<1>11. CASE ResumeUnload(t) \/ ResumeUnloadCache(t)
  <2>1. live' = live /\ answer[t] # None
    BY <1>11 DEF ResumeUnload, ResumeUnloadCache, Answered, world
  <2>2. pc[t] = "unload" \/ (pc[t] = "unload_cache" /\ engine' = engine)
    BY <1>11 DEF ResumeUnload, ResumeUnloadCache, Answered, world
  <2> QED
    BY <2>1, <2>2
<1>12. CASE Progress(t) \/ Chunk(t) \/ StreamEnds(t) \/ StreamFails(t)
  BY <1>12 DEF Progress, Chunk, StreamEnds, StreamFails, calls, world, runtime
<1> QED
  BY <1>1, <1>2, <1>3, <1>4, <1>5, <1>6, <1>7, <1>8, <1>9, <1>10, <1>11, <1>12, Zenon
     DEF Step, Host, Resume

LEMMA WorkersStep == UnloadsApart /\ WorkersInv /\ [Next]_vars => WorkersInv'
<1> SUFFICES ASSUME UnloadsApart, WorkersInv, [Next]_vars PROVE WorkersInv'
  OBVIOUS
<1>1. LocalInv'
  BY LocalStep DEF WorkersInv
<1>2. CASE LoadAgain \/ Cancel \/ UNCHANGED vars
  BY <1>1, <1>2
     DEF LoadAgain, Cancel, vars, runtime, calls, world, WorkersInv, NoStrandedEngine, Sound
<1>3. ASSUME NEW t \in Tasks, Step(t) PROVE WorkersInv'
  <2>1. \A u \in Tasks : Sound(u)'
    BY <1>3, OthersSound, StepSound
  <2> QED
    BY <1>1, <1>3, <2>1, NoneStranded DEF WorkersInv
<1> QED
  BY <1>2, <1>3, Zenon DEF Next, Step

\* Nothing but a second unload during an unload can strand a worker: the creation, the
\* abort and a failure may come in any order (webllm-host.ts createEngine, runtime.ts
\* #performLoad, unload).
THEOREM StrandsNone == Spec /\ []UnloadsApart => []NoStrandedEngine
<1>1. WorkersInv => NoStrandedEngine
  BY DEF WorkersInv
<1> QED
  BY <1>1, WorkersInit, WorkersStep, PTL DEF Spec

-----------------------------------------------------------------------------
(* What is shown, for a product that streams while no other call is at     *)
(* work.                                                                   *)

\* A stream has an engine, and is shown.
Supplied(t) == Streaming(t) => engine # None /\ state = Generating

Shown == state = Generating => \E t \in Tasks : Streaming(t)

OneStreams == \A t, u \in Tasks : Streaming(t) /\ Streaming(u) => t = u

ShownInv ==
  LocalInv /\ OperationalHasEngine /\ Shown /\ OneStreams /\ \A t \in Tasks : Supplied(t)

LEMMA ShownInit == Init => ShownInv
BY LocalInit, StatesDiffer
   DEF Init, ShownInv, OperationalHasEngine, Shown, OneStreams, Supplied, Streaming,
   StreamPoints

\* `generating` is entered by a stream, `ready` with an engine.
LEMMA Entered ==
  ASSUME ShownInv, NEW t \in Tasks, Step(t), state' \in {Ready, Generating}
  PROVE  \/ state' = state /\ pc[t] # "unload_cache" /\ (Streaming(t) => Chunk(t))
         \/ state' = state /\ HostReads(t)
         \/ Stream(t)
         \/ state' = Ready /\ engine' # None
<1>0. Supplied(t)
  BY DEF ShownInv
<1>1. CASE Call(t)
  BY <1>1, Apiece, Fixed, Kinds
     DEF Call, Probe, Load, BeginCreate, Evict, Unload, Stream, Start, Streaming,
     StreamPoints, runtime
<1>2. CASE ResumeGpu(t) \/ ResumeCache(t)
  BY <1>2, Apiece, Failures, Reasons, Kinds
     DEF ResumeGpu, Judge, ResumeCache, Verdict, Answered, Streaming, StreamPoints,
     runtime
<1>3. CASE Preflight(t) \/ ResumeRelease(t) \/ ResumeSettle(t) \/ Clear(t)
  BY <1>3, Apiece, Fixed, Kinds
     DEF Preflight, BeginCreate, ResumeRelease, ResumeSettle, Clear, SettleAfterCancel,
     Answered, Streaming, StreamPoints
<1>4. CASE ResumeCreate(t)
  BY <1>4, Apiece, Fixed, Failures
     DEF ResumeCreate, SettleAfterCancel, Answered, Streaming, StreamPoints
<1>5. CASE ResumeEvict(t) \/ ResumeEvictCache(t)
  BY <1>5, Apiece, Fixed, Kinds
     DEF ResumeEvict, ResumeEvictCache, Answered, Streaming, StreamPoints, runtime
<1>6. CASE ResumeUnload(t) \/ ResumeUnloadCache(t)
  BY <1>6, Apiece, Failures, Kinds
     DEF ResumeUnload, ResumeUnloadCache, Answered, Streaming, StreamPoints
<1>7. CASE HostReads(t)
  BY <1>7 DEF HostReads, Reply, runtime
<1>8. CASE \/ HostUnloads(t) \/ HostEvicts(t) \/ HostStarts(t)
           \/ HostCreates(t) \/ HostGivesUp(t)
  BY <1>8
     DEF HostUnloads, HostEvicts, HostStarts, HostCreates, HostGivesUp, Reply, runtime,
     Streaming, StreamPoints
<1>9. CASE Progress(t) \/ StreamFails(t)
  BY <1>9, Apiece, Failures, Kinds DEF Progress, StreamFails
<1>10. CASE Chunk(t)
  BY <1>10 DEF Chunk, runtime
<1>11. CASE StreamEnds(t)
  BY <1>0, <1>11 DEF StreamEnds, Supplied, Streaming, StreamPoints
<1> QED
  BY <1>1, <1>2, <1>3, <1>4, <1>5, <1>6, <1>7, <1>8, <1>9, <1>10, <1>11, Zenon
     DEF Step, Resume, Host

\* `generating` is shown for as long as a stream runs.
LEMMA StayShown == ASSUME ShownInv, NEW t \in Tasks, Step(t) PROVE Shown'
<1> SUFFICES ASSUME state' = Generating PROVE \E u \in Tasks : Streaming(u)'
  BY DEF Shown
<1>1. Others(t) /\ SlotTypes
  BY StepKept DEF ShownInv, LocalInv
<1>2. CASE Stream(t) \/ Chunk(t)
  BY <1>1, <1>2 DEF Stream, Chunk, Start, Goto, Streaming, StreamPoints, SlotTypes
<1>3. CASE state = Generating /\ ~Streaming(t)
  <2>1. PICK u \in Tasks \ {t} : Streaming(u)
    BY <1>3 DEF ShownInv, Shown
  <2> QED
    BY <1>1, <2>1 DEF Others, Stays, Streaming
<1>4. HostReads(t) => ~Streaming(t)
  BY DEF HostReads, Streaming, StreamPoints
<1> QED
  BY <1>2, <1>3, <1>4, Entered, Apiece

LEMMA StayOperational ==
  ASSUME ShownInv, NEW t \in Tasks, Step(t)
  PROVE  OperationalHasEngine'
<1> SUFFICES ASSUME state' \in {Ready, Generating}, engine' = None
             PROVE  \E u \in Tasks : pc'[u] = "unload_cache"
  BY DEF OperationalHasEngine
<1>1. Others(t) /\ SlotTypes
  BY StepKept DEF ShownInv, LocalInv
<1>2. state' = state
  BY Entered DEF Stream
<1>3. CASE engine # None
  <2>1. ResumeUnload(t) /\ answer[t] = "done"
    BY <1>3, EngineMoves DEF ResumeCreate, Answered
  <2> QED
    BY <1>1, <1>3, <2>1 DEF ResumeUnload, Goto, SlotTypes
<1>4. CASE engine = None
  <2>1. PICK u \in Tasks : pc[u] = "unload_cache"
    BY <1>2, <1>4 DEF ShownInv, OperationalHasEngine
  <2>2. CASE u # t
    BY <1>1, <2>1, <2>2 DEF Others, Stays
  <2>3. CASE u = t
    <3>1. HostReads(t)
      BY <1>4, <2>1, <2>3, Entered DEF Stream
    <3> QED
      BY <2>1, <2>3, <3>1 DEF HostReads, Reply
  <2> QED
    BY <2>2, <2>3
<1> QED
  BY <1>3, <1>4

\* A stream sees nothing of the others but the end of a load.
LEMMA StreamBeside ==
  ASSUME ShownInv, StreamsApart, NEW t \in Tasks, Step(t),
         NEW u \in Tasks \ {t}, Streaming(u)
  PROVE  Clear(t)
<1>1. engine # None /\ state = Generating /\ ~Streaming(t)
  BY DEF ShownInv, Supplied, OneStreams
<1>2. pc[t] \in {"free", "settled"}
  BY <1>1 DEF StreamsApart, Lifecycle, Streaming
<1>3. ~Call(t)
  BY <1>1, StatesDiffer DEF Call, Probe, Load, Evict, Unload, Stream
<1> QED
  BY <1>2, <1>3
     DEF Step, Resume, Host, Progress, Chunk, StreamEnds, StreamFails, ResumeGpu,
     ResumeCache, Preflight, ResumeCreate, ResumeRelease, ResumeSettle, ResumeEvict,
     ResumeEvictCache, ResumeUnload, ResumeUnloadCache, Answered, HostReads, HostUnloads,
     HostEvicts, HostStarts, HostCreates, HostGivesUp

LEMMA OthersSupplied ==
  ASSUME ShownInv, StreamsApart, NEW t \in Tasks, Step(t), NEW u \in Tasks \ {t}
  PROVE  /\ Supplied(u)'
         /\ ~(Streaming(u)' /\ Streaming(t)')
<1>1. Stays(u) /\ (Streaming(u)' <=> Streaming(u))
  BY StepKept DEF ShownInv, Others, Stays, Streaming
<1>2. Streaming(u) => UNCHANGED <<state, engine>> /\ pc'[t] = "free"
  BY StreamBeside, FinishMoves DEF Clear, ShownInv, LocalInv
<1> QED
  BY <1>1, <1>2 DEF ShownInv, Supplied, Streaming, StreamPoints

\* A call streams when it starts to, and while text comes.
LEMMA StartsStreaming ==
  ASSUME SlotTypes, NEW t \in Tasks, Step(t), Streaming(t)'
  PROVE  Stream(t) \/ Chunk(t)
<1> USE AllPoints DEF SlotTypes, Streaming, StreamPoints, Goto, Finish
<1>1. ~(Probe(t) \/ Load(t) \/ Evict(t) \/ Unload(t))
  BY DEF Probe, Load, BeginCreate, Evict, Unload, Start
<1>2. ~Host(t)
  BY DEF Host, HostReads, HostUnloads, HostEvicts, HostStarts, HostCreates, HostGivesUp,
     Reply, AwaitPoints, CapabilityPoints, LoadPoints, EvictPoints, UnloadPoints
<1>3. ~(Progress(t) \/ StreamEnds(t) \/ StreamFails(t))
  BY DEF Progress, StreamEnds, StreamFails, calls
<1>4. ~(ResumeGpu(t) \/ ResumeCache(t) \/ Preflight(t))
  BY DEF ResumeGpu, Judge, ResumeCache, Verdict, Preflight, BeginCreate,
     SettleAfterCancel, Answered
<1>5. ~(ResumeCreate(t) \/ ResumeRelease(t) \/ ResumeSettle(t) \/ Clear(t))
  BY DEF ResumeCreate, ResumeRelease, ResumeSettle, Clear, SettleAfterCancel
<1>6. ~(ResumeEvict(t) \/ ResumeEvictCache(t) \/ ResumeUnload(t) \/ ResumeUnloadCache(t))
  BY DEF ResumeEvict, ResumeEvictCache, ResumeUnload, ResumeUnloadCache, Answered
<1> QED
  BY <1>1, <1>2, <1>3, <1>4, <1>5, <1>6, Zenon DEF Step, Call, Resume

LEMMA StepSupplied == ASSUME ShownInv, NEW t \in Tasks, Step(t) PROVE Supplied(t)'
<1>0. SlotTypes /\ Supplied(t)
  BY DEF ShownInv, LocalInv
<1> SUFFICES ASSUME Streaming(t)' PROVE engine' # None /\ state' = Generating
  BY DEF Supplied
<1>1. Stream(t) \/ Chunk(t)
  BY <1>0, StartsStreaming
<1> QED
  BY <1>0, <1>1 DEF Stream, Chunk, Supplied, Streaming, StreamPoints, runtime

LEMMA ShownStep == StreamsApart /\ ShownInv /\ [Next]_vars => ShownInv'
<1> SUFFICES ASSUME StreamsApart, ShownInv, [Next]_vars PROVE ShownInv'
  OBVIOUS
<1>1. LocalInv'
  BY LocalStep DEF ShownInv
<1>2. CASE LoadAgain
  <2>1. UNCHANGED pc /\ engine' # None /\ state' = Ready /\ state # Generating
    BY <1>2 DEF LoadAgain, calls
  <2> QED
    BY <1>1, <2>1, StatesDiffer
       DEF ShownInv, OperationalHasEngine, Shown, OneStreams, Supplied, Streaming
<1>3. CASE Cancel \/ UNCHANGED vars
  <2>1. UNCHANGED <<pc, engine, state>>
    BY <1>3 DEF Cancel, vars, runtime, calls
  <2> QED
    BY <1>1, <2>1
       DEF ShownInv, OperationalHasEngine, Shown, OneStreams, Supplied, Streaming, Ready,
       Generating
<1>4. ASSUME NEW t \in Tasks, Step(t) PROVE ShownInv'
  <2>1. \A u \in Tasks : Supplied(u)'
    BY <1>4, OthersSupplied, StepSupplied
  <2>2. Others(t)
    BY <1>4, StepKept DEF ShownInv
  <2>3. ASSUME NEW u \in Tasks, NEW v \in Tasks, Streaming(u)', Streaming(v)', u # v
        PROVE  FALSE
    <3>1. u # t /\ v # t
      BY <1>4, <2>3, OthersSupplied
    <3> QED
      BY <2>2, <2>3, <3>1 DEF Others, Stays, Streaming, ShownInv, OneStreams
  <2>4. OneStreams'
    BY <2>3 DEF OneStreams
  <2> QED
    BY <1>1, <1>4, <2>1, <2>4, StayOperational, StayShown DEF ShownInv
<1> QED
  BY <1>2, <1>3, <1>4, Zenon DEF Next, Step

\* What is shown as operational has its engine as long as no other call is at work beside a
\* stream, whatever else overlaps (runtime.ts stream, unload).
THEOREM ShowsEngine == Spec /\ []StreamsApart => []OperationalHasEngine
<1>1. ShownInv => OperationalHasEngine
  BY DEF ShownInv
<1> QED
  BY <1>1, ShownInit, ShownStep, PTL DEF Spec

\* Then, too, one stream runs at a time, and `generating` is shown exactly while it does.
THEOREM ShowsStream == Spec /\ []StreamsApart => []GeneratingIsStreaming
<1>1. ShownInv => GeneratingIsStreaming
  <2> SUFFICES ASSUME ShownInv PROVE GeneratingIsStreaming
    OBVIOUS
  <2> DEFINE streams == {t \in Tasks : Streaming(t)}
  <2>1. Cardinality(streams) <= 1
    <3>1. CASE streams = {}
      BY <3>1, FS_EmptySet
    <3>2. ASSUME NEW t \in streams PROVE streams = {t}
      BY DEF ShownInv, OneStreams
    <3> HIDE DEF streams
    <3>3. ASSUME NEW t \in streams PROVE Cardinality(streams) = 1
      BY <3>2, FS_Singleton
    <3> QED
      BY <3>1, <3>3
  <2> QED
    BY <2>1 DEF GeneratingIsStreaming, OneGeneration, ShownInv, Supplied, Shown
<1> QED
  BY <1>1, ShownInit, ShownStep, PTL DEF Spec

-----------------------------------------------------------------------------

(* The cached flag, for a product that neither creates an engine nor       *)
(* deletes while the cache is being read.                                  *)

\* What the cache answered is still so, and a creation is not shown as `supported`.
Told(t) ==
  /\ pc[t] = "create" => state.kind # "supported"
  /\ Reading(t) =>
       answer[t] \in {None, "error", IF cache = "full" THEN "cached" ELSE "uncached"}

\* The flag is right except between a deletion and the read that follows it.
Right == IF state.cached THEN cache # "none" ELSE cache # "full"
Rereads(t) == pc[t] = "evict_cache" \/ (pc[t] = "evict" /\ answer[t] = "done")
Flagged == state.kind = "supported" => Right \/ \E t \in Tasks : Rereads(t)

FlagInv == LocalInv /\ Flagged /\ \A t \in Tasks : Told(t)

LEMMA FlagInit == Init => FlagInv
BY LocalInit, Fixed DEF Init, FlagInv, Flagged, Told, Reading

\* Where a step leaves `supported` alone, or finds it, it does so with the right flag.
LEMMA FlagKept ==
  ASSUME FlagInv, NEW t \in Tasks, Step(t), state'.kind = "supported",
         \/ Right'
         \/ Rereads(t)'
         \/ state' = state /\ (Right => Right') /\ ~Rereads(t)
  PROVE  Right' \/ \E u \in Tasks : Rereads(u)'
<1>1. Others(t)
  BY StepKept DEF FlagInv
<1>2. CASE state' = state /\ (Right => Right') /\ ~Rereads(t)
  <2>1. Right \/ \E u \in Tasks : Rereads(u)
    BY <1>2 DEF FlagInv, Flagged, Rereads
  <2>2. \A u \in Tasks \ {t} : Rereads(u) => Rereads(u)'
    BY <1>1 DEF Others, Stays, Rereads
  <2> QED
    BY <1>2, <2>1, <2>2
<1> QED
  BY <1>2

\* What the cache answered while nothing was written or deleted.
LEMMA FlagRead ==
  ASSUME FlagInv, NEW t \in Tasks, Reading(t), answer[t] # None, answer[t] # "error",
         state' = Supported(Flag(answer[t])), cache' = cache
  PROVE  Right'
<1>1. answer[t] = IF cache = "full" THEN "cached" ELSE "uncached"
  BY DEF FlagInv, Told
<1>2. state'.cached = (answer[t] = "cached")
  BY Kinds DEF Flag
<1>3. CASE cache = "full"
  BY <1>1, <1>2, <1>3 DEF Right
<1>4. CASE cache # "full"
  BY <1>1, <1>2, <1>4 DEF Right
<1> QED
  BY <1>3, <1>4

LEMMA StayFlagged == ASSUME FlagInv, NEW t \in Tasks, Step(t) PROVE Flagged'
<1> DEFINE Goal == \/ Right'
                   \/ Rereads(t)'
                   \/ state' = state /\ (Right => Right') /\ ~Rereads(t)
<1> SUFFICES ASSUME state'.kind = "supported" PROVE Goal
  BY FlagKept DEF Flagged, Right, Rereads
<1>0. SlotTypes /\ SharedTypes /\ Told(t) /\ Answers(t)
  BY DEF FlagInv, LocalInv, SharedInv, SlotInv
<1>1. CASE Call(t)
  BY <1>1, Fixed, Kinds
     DEF Call, Probe, Load, BeginCreate, Evict, Unload, Stream, Start, Right, Rereads,
     runtime, world
<1>2. CASE ResumeGpu(t)
  BY <1>2, Failures, Reasons
     DEF ResumeGpu, Judge, Verdict, Answered, Right, Rereads, runtime, world
<1>3. CASE ResumeCache(t)
  <2>1. /\ state' = Supported(Flag(answer[t])) /\ answer[t] # "error"
        /\ Answered(t, "cache") /\ cache' = cache
    BY <1>3, Failures DEF ResumeCache, Verdict, world
  <2> QED
    BY <2>1, FlagRead DEF Reading, Answered
<1>4. CASE Preflight(t) \/ ResumeRelease(t) \/ Clear(t)
  BY <1>4, Fixed, Kinds
     DEF Preflight, BeginCreate, ResumeRelease, Clear, SettleAfterCancel, Answered, Right,
     Rereads, world
<1>5. CASE ResumeCreate(t)
  BY <1>5, Fixed, Failures
     DEF ResumeCreate, SettleAfterCancel, Answered, Right, Rereads, world
<1>6. CASE ResumeSettle(t) \/ ResumeEvictCache(t) \/ ResumeUnloadCache(t)
  <2>1. /\ state' = Supported(Flag(answer[t])) /\ answer[t] # "error"
        /\ answer[t] # None /\ Reading(t) /\ cache' = cache
    BY <1>6, Fixed, Failures
       DEF ResumeSettle, ResumeEvictCache, ResumeUnloadCache, Answered, Reading, world
  <2> QED
    BY <2>1, FlagRead
<1>7. CASE ResumeEvict(t)
  <2>1. state' = state /\ cache' = cache
    BY <1>7 DEF ResumeEvict, runtime, world
  <2>2. pc[t] = "evict" /\ (answer[t] = "done" => pc'[t] = "evict_cache")
    BY <1>0, <1>7, <2>1 DEF ResumeEvict, Answered, Goto, SlotTypes
  <2> QED
    BY <2>1, <2>2 DEF Right, Rereads
<1>8. CASE ResumeUnload(t)
  BY <1>8, Failures DEF ResumeUnload, Answered, Right, Rereads, world
<1>9. CASE HostReads(t) \/ HostUnloads(t) \/ HostStarts(t)
  BY <1>0, <1>9
     DEF HostReads, HostUnloads, HostStarts, Reply, Right, Rereads, runtime, world
<1>10. CASE HostCreates(t) \/ HostGivesUp(t)
  BY <1>0, <1>10 DEF HostCreates, HostGivesUp, Reply, Told, runtime
<1>11. CASE HostEvicts(t)
  <2>1. state' = state /\ pc[t] = "evict" /\ pc' = pc /\ answer[t] = None
    BY <1>11 DEF HostEvicts, Reply, runtime
  <2>2. CASE Reply(t, "done")
    BY <1>0, <2>1, <2>2 DEF Reply, Rereads, SlotTypes
  <2>3. CASE cache' \in {cache, IF cache = "full" THEN "partial" ELSE cache}
    BY <2>1, <2>3, NoneAssumption DEF Right, Rereads, Replies
  <2> QED
    BY <1>11, <2>2, <2>3 DEF HostEvicts
<1>12. CASE Progress(t) \/ StreamEnds(t) \/ StreamFails(t)
  BY <1>12, Fixed, Failures, Kinds DEF Progress, StreamEnds, StreamFails
<1>13. CASE Chunk(t)
  BY <1>13 DEF Chunk, Right, Rereads, runtime, world
<1> QED
  BY <1>1, <1>2, <1>3, <1>4, <1>5, <1>6, <1>7, <1>8, <1>9, <1>10, <1>11, <1>12, <1>13,
     Zenon DEF Step, Resume, Host

\* `supported` is shown anew only by a call that has read the cache.
LEMMA ShowsSupported ==
  ASSUME NEW t \in Tasks, Step(t), state'.kind = "supported"
  PROVE  state' = state \/ Reading(t)
<1>1. CASE Call(t)
  BY <1>1, Fixed, Kinds DEF Call, Probe, Load, BeginCreate, Evict, Unload, Stream, runtime
<1>2. CASE Host(t)
  BY <1>2, HostKeeps DEF runtime
<1>3. CASE ResumeGpu(t) \/ ResumeCache(t)
  BY <1>3, Failures, Reasons
     DEF ResumeGpu, Judge, ResumeCache, Verdict, Answered, Reading, runtime
<1>4. CASE Preflight(t) \/ ResumeRelease(t) \/ ResumeSettle(t) \/ Clear(t)
  BY <1>4, Fixed, Kinds
     DEF Preflight, BeginCreate, ResumeRelease, ResumeSettle, Clear, SettleAfterCancel,
     Answered, Reading
<1>5. CASE ResumeCreate(t)
  BY <1>5, Fixed, Failures DEF ResumeCreate, SettleAfterCancel
<1>6. CASE ResumeEvict(t) \/ ResumeEvictCache(t)
  BY <1>6 DEF ResumeEvict, ResumeEvictCache, Answered, Reading, runtime
<1>7. CASE ResumeUnload(t) \/ ResumeUnloadCache(t)
  BY <1>7, Failures DEF ResumeUnload, ResumeUnloadCache, Answered, Reading
<1>8. CASE Progress(t) \/ Chunk(t) \/ StreamEnds(t) \/ StreamFails(t)
  BY <1>8, Fixed, Failures, Kinds DEF Progress, Chunk, StreamEnds, StreamFails, runtime
<1> QED
  BY <1>1, <1>2, <1>3, <1>4, <1>5, <1>6, <1>7, <1>8, Zenon DEF Step, Resume

LEMMA OthersTold ==
  ASSUME FlagInv, ReadsApart, NEW t \in Tasks, Step(t), NEW u \in Tasks \ {t}
  PROVE  Told(u)'
<1>1. Stays(u) /\ Told(u)
  BY StepKept DEF FlagInv, Others
<1>2. pc[u] = "create" => state'.kind # "supported"
  BY <1>1, ShowsSupported DEF ReadsApart, Told
<1>3. Reading(u) => cache' = cache
  BY WorldMoves DEF ReadsApart
<1> QED
  BY <1>1, <1>2, <1>3 DEF Stays, Told, Reading

\* The call that takes the step: it begins a creation as `loading`, and is answered with
\* what the cache holds.
LEMMA StepTold == ASSUME FlagInv, NEW t \in Tasks, Step(t) PROVE Told(t)'
<1>0. SlotTypes /\ Told(t)
  BY DEF FlagInv, LocalInv
<1>a. ASSUME NEW point, Goto(t, point), point = "create" => state'.kind # "supported"
      PROVE  Told(t)'
  BY <1>0, <1>a DEF Goto, SlotTypes, Told, Reading
<1>b. ASSUME Finish(t) PROVE Told(t)'
  BY <1>a, <1>b DEF Finish
<1>1. CASE Call(t)
  <2>1. \E point : Goto(t, point) /\ (point = "create" => state'.kind # "supported")
    BY <1>1, Kinds DEF Call, Probe, Load, BeginCreate, Evict, Unload, Stream, Start
  <2> QED
    BY <1>a, <2>1
<1>2. CASE ResumeGpu(t) \/ ResumeCache(t)
  <2>1. Goto(t, "cache") \/ Goto(t, "preflight") \/ Finish(t)
    BY <1>2, Zenon DEF ResumeGpu, Judge, ResumeCache, Verdict
  <2> QED
    BY <1>a, <1>b, <2>1
<1>3. CASE Preflight(t)
  <2>1. \/ Goto(t, "settle_cache") \/ Goto(t, "settled")
        \/ Goto(t, "create") /\ state' = Loading(state.cached)
    BY <1>3, Zenon DEF Preflight, BeginCreate, SettleAfterCancel
  <2> QED
    BY <1>a, <2>1, Kinds
<1>4. CASE ResumeCreate(t) \/ ResumeRelease(t) \/ ResumeSettle(t)
  <2>1. Goto(t, "settle_cache") \/ Goto(t, "settled") \/ Goto(t, "release")
    BY <1>4 DEF ResumeCreate, ResumeRelease, ResumeSettle, SettleAfterCancel
  <2> QED
    BY <1>a, <2>1
<1>5. CASE \/ Clear(t) \/ ResumeEvict(t) \/ ResumeEvictCache(t)
           \/ ResumeUnload(t) \/ ResumeUnloadCache(t)
  <2>1. Goto(t, "evict_cache") \/ Goto(t, "unload_cache") \/ Finish(t)
    BY <1>5 DEF Clear, ResumeEvict, ResumeEvictCache, ResumeUnload, ResumeUnloadCache
  <2> QED
    BY <1>a, <1>b, <2>1
<1>6. CASE HostReads(t)
  <2>1. UNCHANGED <<state, pc, cache>> /\ pc[t] # "create"
    BY <1>6 DEF HostReads, Reply, runtime, world
  <2>2. Reading(t) =>
          answer'[t] \in {IF cache = "full" THEN "cached" ELSE "uncached", "error"}
    BY <1>0, <1>6 DEF HostReads, Reply, Reading, SlotTypes
  <2> QED
    BY <2>1, <2>2 DEF Told, Reading
<1>7. CASE \/ HostUnloads(t) \/ HostEvicts(t) \/ HostStarts(t)
           \/ HostCreates(t) \/ HostGivesUp(t)
  <2>1. UNCHANGED <<state, pc>> /\ ~Reading(t)
    BY <1>7
       DEF HostUnloads, HostEvicts, HostStarts, HostCreates, HostGivesUp, Reply, runtime,
       Reading
  <2> QED
    BY <1>0, <2>1 DEF Told, Reading
<1>8. CASE Progress(t)
  BY <1>8, Kinds DEF Progress, calls, Told, Reading
<1>9. CASE Chunk(t)
  BY <1>a, <1>9 DEF Chunk
<1>10. CASE StreamEnds(t) \/ StreamFails(t)
  BY <1>b, <1>10 DEF StreamEnds, StreamFails
<1> QED
  BY <1>1, <1>2, <1>3, <1>4, <1>5, <1>6, <1>7, <1>8, <1>9, <1>10, Zenon
     DEF Step, Resume, Host

LEMMA FlagStep == ReadsApart /\ FlagInv /\ [Next]_vars => FlagInv'
<1> SUFFICES ASSUME ReadsApart, FlagInv, [Next]_vars PROVE FlagInv'
  OBVIOUS
<1>1. LocalInv'
  BY LocalStep DEF FlagInv
<1>2. CASE LoadAgain
  <2>1. UNCHANGED <<pc, answer, cache>> /\ state' = Ready
    BY <1>2 DEF LoadAgain, calls, world
  <2> QED
    BY <1>1, <2>1, Fixed DEF FlagInv, Flagged, Told, Reading
<1>3. CASE Cancel \/ UNCHANGED vars
  <2>1. UNCHANGED <<pc, answer, cache, state>>
    BY <1>3 DEF Cancel, vars, runtime, calls, world
  <2> QED
    BY <1>1, <2>1 DEF FlagInv, Flagged, Right, Rereads, Told, Reading
<1>4. ASSUME NEW t \in Tasks, Step(t) PROVE FlagInv'
  <2>1. \A u \in Tasks : Told(u)'
    BY <1>4, OthersTold, StepTold
  <2> QED
    BY <1>1, <1>4, <2>1, StayFlagged DEF FlagInv
<1> QED
  BY <1>2, <1>3, <1>4, Zenon DEF Next, Step

\* At rest the `cached` flag agrees with the browser storage as long as the cache is not
\* read while a creation or a deletion is at work on it, whatever else overlaps (runtime.ts
\* evict, unload, #settleAfterCancel).
THEOREM ReadsHonest == Spec /\ []ReadsApart => []CacheFlagHonest
<1>1. FlagInv => CacheFlagHonest
  <2> SUFFICES ASSUME FlagInv, \A t \in Tasks : pc[t] = "free"
               PROVE  /\ state = Supported(TRUE) => cache # "none"
                      /\ state = Supported(FALSE) => cache # "full"
    BY DEF CacheFlagHonest
  <2>1. state.kind = "supported" => Right
    BY DEF FlagInv, Flagged, Rereads
  <2> QED
    BY <2>1, Kinds DEF Right
<1> QED
  BY <1>1, FlagInit, FlagStep, PTL DEF Spec

-----------------------------------------------------------------------------

(* A product that awaits each lifecycle call before it makes the next one, *)
(* and streams while nothing is being unloaded.                            *)

\* One lifecycle call at a time, and beside a stream only a load that has settled.
Apart ==
  /\ \A t, u \in Tasks : Lifecycle(t) /\ Lifecycle(u) => t = u
  /\ StreamsApart

\* While a call is at work there is no engine, but for a load at its end and an unload.
Vacant(t) == Lifecycle(t) /\ pc[t] \notin {"settled", "unload"} => engine = None

AwaitedInv ==
  WorkersInv /\ ShownInv /\ FlagInv /\ Apart /\ \A t \in Tasks : Vacant(t)

LEMMA AwaitedInit == Init => AwaitedInv
BY WorkersInit, ShownInit, FlagInit
   DEF Init, AwaitedInv, Apart, StreamsApart, Vacant, Lifecycle, Streaming, StreamPoints

\* What the theorems above ask for.
LEMMA ApartMeans == Apart => UnloadsApart /\ StreamsApart /\ ReadsApart
<1> SUFFICES ASSUME Apart PROVE UnloadsApart /\ ReadsApart
  BY DEF Apart
<1>1. UnloadsApart
  BY DEF Apart, UnloadsApart, UnloadPoints, Lifecycle, StreamPoints
<1>2. ReadsApart
  BY DEF Apart, ReadsApart, Reading, Lifecycle, StreamPoints
<1> QED
  BY <1>1, <1>2

\* The four ways a call takes a step.
LEMMA FourWays ==
  ASSUME AwaitedInv, NEW t \in Tasks, Step(t)
  PROVE  \/ Lifecycle(t) /\ ~Streaming(t) /\ ~Streaming(t)'
         \/ pc[t] = "free" /\ InTurn /\ Lifecycle(t)' /\ ~Streaming(t)'
         \/ Stream(t)
         \/ Streaming(t) /\ ~Lifecycle(t)'
<1> USE AllPoints
    DEF AwaitedInv, WorkersInv, LocalInv, SlotTypes, Lifecycle, Streaming, StreamPoints,
    Goto
<1>1. CASE Call(t)
  BY <1>1 DEF Call, Probe, Load, BeginCreate, Evict, Unload, Stream, Start
<1>2. CASE Progress(t)
  BY <1>2 DEF Progress, calls
<1>3. CASE Chunk(t) \/ StreamEnds(t) \/ StreamFails(t)
  BY <1>3 DEF Chunk, StreamEnds, StreamFails, Finish, runtime, world
<1>4. CASE Host(t)
  BY <1>4
     DEF Host, HostReads, HostUnloads, HostEvicts, HostStarts, HostCreates, HostGivesUp,
     Reply, AwaitPoints, CapabilityPoints, LoadPoints, EvictPoints, UnloadPoints
<1>5. CASE ResumeGpu(t) \/ ResumeCache(t) \/ Preflight(t)
  BY <1>5
     DEF ResumeGpu, Judge, ResumeCache, Preflight, BeginCreate, SettleAfterCancel,
     Verdict, Finish, Answered
<1>6. CASE ResumeCreate(t) \/ ResumeRelease(t) \/ ResumeSettle(t) \/ Clear(t)
  BY <1>6
     DEF ResumeCreate, ResumeRelease, ResumeSettle, Clear, SettleAfterCancel, Finish,
     Answered
<1>7. CASE ResumeEvict(t) \/ ResumeEvictCache(t) \/ ResumeUnload(t) \/ ResumeUnloadCache(t)
  BY <1>7
     DEF ResumeEvict, ResumeEvictCache, ResumeUnload, ResumeUnloadCache, Finish, Answered
<1> QED
  BY <1>1, <1>2, <1>3, <1>4, <1>5, <1>6, <1>7, Zenon DEF Step, Resume

\* When another call takes a step, a lifecycle call has settled.
LEMMA Beside ==
  ASSUME AwaitedInv, Awaits, NEW t \in Tasks, Step(t),
         NEW u \in Tasks \ {t}, Lifecycle(u)
  PROVE  pc[u] = "settled" /\ ~Lifecycle(t) /\ ~Lifecycle(t)'
<1>1. CASE Lifecycle(t)
  BY <1>1 DEF AwaitedInv, Apart
<1>2. CASE InTurn
  BY <1>2 DEF InTurn
<1>3. CASE Stream(t)
  <2>1. pc[t] = "free" /\ engine # None /\ pc[u] # "unload" /\ Streaming(t)'
    BY <1>3
       DEF Stream, Start, MayStream, UnloadPoints, Goto, Streaming, StreamPoints,
       AwaitedInv, WorkersInv, LocalInv, SlotTypes
  <2> QED
    BY <2>1 DEF AwaitedInv, Vacant, Lifecycle, Streaming
<1>4. CASE Streaming(t) /\ ~Lifecycle(t)'
  BY <1>4 DEF AwaitedInv, Apart, StreamsApart, Lifecycle, Streaming
<1> QED
  BY <1>1, <1>2, <1>3, <1>4, FourWays

\* A call starts when no other is in its way.
LEMMA StayApart ==
  ASSUME AwaitedInv, Awaits, NEW t \in Tasks, Step(t)
  PROVE  Apart'
<1>1. \A u \in Tasks \ {t} : /\ Lifecycle(u)' <=> Lifecycle(u)
                             /\ Streaming(u)' <=> Streaming(u)
                             /\ pc'[u] = pc[u]
  BY StepKept DEF AwaitedInv, WorkersInv, Others, Stays, Lifecycle, Streaming
<1>2. \A u \in Tasks \ {t} : Streaming(u) => pc'[t] = "free"
  BY StreamBeside, FinishMoves DEF AwaitedInv, ShownInv, LocalInv, Apart, Clear
<1>3. ~(Lifecycle(t)' /\ Streaming(t)')
  BY DEF Lifecycle, Streaming
<1>4. \A u \in Tasks \ {t} : Lifecycle(u) => pc[u] = "settled" /\ ~Lifecycle(t)'
  BY Beside
<1>5. \A u, v \in Tasks \ {t} :
        /\ Lifecycle(u) /\ Lifecycle(v) => u = v
        /\ Streaming(u) /\ Lifecycle(v) => pc[v] = "settled"
  BY DEF AwaitedInv, Apart, StreamsApart
<1>6. pc'[t] = "free" => ~Lifecycle(t)'
  BY DEF Lifecycle
<1>7. ASSUME NEW u \in Tasks, NEW v \in Tasks
      PROVE  /\ Lifecycle(u)' /\ Lifecycle(v)' => u = v
             /\ Streaming(u)' /\ Lifecycle(v)' => pc'[v] = "settled"
  <2>1. CASE u = t /\ v = t
    BY <1>3, <2>1
  <2>2. CASE u = t /\ v # t
    BY <1>1, <1>4, <2>2
  <2>3. CASE u # t /\ v = t
    BY <1>1, <1>2, <1>4, <1>6, <2>3
  <2>4. CASE u # t /\ v # t
    BY <1>1, <1>5, <2>4
  <2> QED
    BY <2>1, <2>2, <2>3, <2>4
<1> QED
  BY <1>7 DEF Apart, StreamsApart

\* The engine appears when a load settles, and is gone when an unload goes on.
LEMMA StepVacant == ASSUME AwaitedInv, NEW t \in Tasks, Step(t) PROVE Vacant(t)'
<1>0. SlotTypes /\ Vacant(t)
  BY DEF AwaitedInv, WorkersInv, LocalInv
<1> SUFFICES ASSUME Lifecycle(t)', pc'[t] \notin {"settled", "unload"} PROVE engine' = None
  BY DEF Vacant
<1>1. CASE Lifecycle(t) /\ pc[t] \notin {"settled", "unload"}
  <2>1. engine = None
    BY <1>0, <1>1 DEF Vacant
  <2>2. ~(ResumeCreate(t) /\ answer[t] # "error" /\ engine' = answer[t])
    BY <1>0, <2>1 DEF ResumeCreate, Answered, Goto, SlotTypes
  <2> QED
    BY <2>1, <2>2, EngineMoves
<1>2. CASE pc[t] \in {"settled", "unload"}
  <2>1. Clear(t) \/ ResumeUnload(t) \/ pc'[t] = pc[t]
    BY <1>2
       DEF Step, Call, Resume, Host, Progress, Chunk, StreamEnds, StreamFails, Probe,
       Load, Evict, Unload, Stream, Start, ResumeGpu, ResumeCache, Preflight,
       ResumeCreate, ResumeRelease, ResumeSettle, ResumeEvict, ResumeEvictCache,
       ResumeUnloadCache, Answered, HostReads, HostUnloads, HostEvicts, HostStarts,
       HostCreates, HostGivesUp, Reply, StreamPoints
  <2>2. CASE Clear(t)
    BY <1>0, <2>2, FinishMoves DEF Clear, Lifecycle
  <2>3. CASE ResumeUnload(t)
    BY <1>0, <2>3, FinishMoves DEF ResumeUnload, Lifecycle
  <2> QED
    BY <1>2, <2>1, <2>2, <2>3
<1>3. CASE Streaming(t)
  BY <1>3, FourWays DEF Lifecycle, Streaming, Stream, Start, StreamPoints
<1>4. CASE pc[t] = "free"
  <2>1. Call(t)
    BY <1>4
       DEF Step, Resume, Host, Progress, Chunk, StreamEnds, StreamFails, ResumeGpu,
       ResumeCache, Preflight, ResumeCreate, ResumeRelease, ResumeSettle, Clear,
       ResumeEvict, ResumeEvictCache, ResumeUnload, ResumeUnloadCache, Answered,
       HostReads, HostUnloads, HostEvicts, HostStarts, HostCreates, HostGivesUp, Reply,
       AwaitPoints, CapabilityPoints, LoadPoints, EvictPoints, UnloadPoints
  <2> QED
    BY <1>0, <2>1
       DEF Call, Probe, Load, Evict, Unload, Stream, Start, Goto, SlotTypes, Lifecycle,
       StreamPoints, runtime
<1> QED
  BY <1>1, <1>2, <1>3, <1>4 DEF Lifecycle, Streaming

LEMMA AwaitedStep == Awaits /\ AwaitedInv /\ [Next]_vars => AwaitedInv'
<1> SUFFICES ASSUME Awaits, AwaitedInv, [Next]_vars PROVE AwaitedInv'
  OBVIOUS
<1>1. WorkersInv' /\ ShownInv' /\ FlagInv'
  BY ApartMeans, WorkersStep, ShownStep, FlagStep DEF AwaitedInv
<1>2. CASE LoadAgain
  <2>1. UNCHANGED pc /\ \A u \in Tasks : ~Lifecycle(u)
    BY <1>2 DEF LoadAgain, InTurn, calls
  <2> QED
    BY <1>1, <2>1 DEF AwaitedInv, Apart, StreamsApart, Vacant, Lifecycle
<1>3. CASE Cancel \/ UNCHANGED vars
  <2>1. UNCHANGED <<pc, engine>>
    BY <1>3 DEF Cancel, vars, runtime, calls
  <2> QED
    BY <1>1, <2>1 DEF AwaitedInv, Apart, StreamsApart, Vacant, Lifecycle, Streaming
<1>4. ASSUME NEW t \in Tasks, Step(t) PROVE AwaitedInv'
  <2>1. ASSUME NEW u \in Tasks \ {t} PROVE Vacant(u)'
    BY <1>4, Beside, StepKept
       DEF AwaitedInv, WorkersInv, Others, Stays, Vacant, Lifecycle
  <2>2. \A u \in Tasks : Vacant(u)'
    BY <1>4, <2>1, StepVacant
  <2> QED
    BY <1>1, <1>4, <2>2, StayApart DEF AwaitedInv
<1> QED
  BY <1>2, <1>3, <1>4, Zenon DEF Next, Step

\* A product that awaits its calls has none of the overlaps that do harm, whatever the host
\* answers and whenever a load is cancelled (runtime.ts).
THEOREM KeptApart ==
  ASSUME Awaits PROVE Spec => [](UnloadsApart /\ StreamsApart /\ ReadsApart)
<1>1. AwaitedInv => UnloadsApart /\ StreamsApart /\ ReadsApart
  BY ApartMeans DEF AwaitedInv
<1> QED
  BY <1>1, AwaitedInit, AwaitedStep, PTL DEF Spec

\* Every live worker is the engine's or in the hands of a call in flight (webllm-host.ts
\* createEngine, runtime.ts #performLoad).
THEOREM NoWorkerLost == ASSUME Awaits PROVE Spec => []NoStrandedEngine
BY KeptApart, StrandsNone, PTL

\* Operational is shown with an engine, or while one is being unloaded (runtime.ts unload).
THEOREM Operational == ASSUME Awaits PROVE Spec => []OperationalHasEngine
BY KeptApart, ShowsEngine, PTL

\* One stream at a time, and `generating` is shown exactly while it runs (runtime.ts
\* stream).
THEOREM OneStream == ASSUME Awaits PROVE Spec => []GeneratingIsStreaming
BY KeptApart, ShowsStream, PTL

\* At rest the `cached` flag agrees with the browser storage (runtime.ts evict, unload,
\* #settleAfterCancel).
THEOREM FlagHonest == ASSUME Awaits PROVE Spec => []CacheFlagHonest
BY KeptApart, ReadsHonest, PTL

-----------------------------------------------------------------------------
(* The lifecycle a product is shown.                                       *)

Outcomes == {"ready", "generating", "failed", "unavailable"}

\* What is shown while a call is where it is: only a load is the operation in flight, a
\* device is being read while `probing`, and a load that settles has left `loading`.
Displays(t) ==
  /\ loadOperation = t => Loads(t)
  /\ pc[t] \in CapabilityPoints => state = Probing
  /\ pc[t] \in CapabilityPoints /\ op[t] = "load" => previous[t].kind # "supported"
  /\ pc[t] = "preflight" => /\ state.kind \in {"supported", "unavailable", "failed"}
                            /\ previous[t].kind # "supported"
  /\ pc[t] \in LoadPoints => previous[t].kind = "supported" /\ state = Loading(previous[t].cached)
  /\ pc[t] \in {"release", "settle_cache"} => aborted[t]
  /\ pc[t] = "settled" =>
       state.kind \in Outcomes \union IF aborted[t] THEN {"idle", "supported"} ELSE {}
  /\ pc[t] = "evict_cache" => state.kind = "supported"
  /\ pc[t] \in UnloadPoints => state.kind \in {"ready", "failed"}

\* `probing` and `loading` are shown while a call is at work, an engine as what it is.
Busy ==
  /\ state.kind = "probing" => \E t \in Tasks : pc[t] \in CapabilityPoints
  /\ state.kind = "loading" => \E t \in Tasks : pc[t] \in LoadPoints

Laden == engine # None => state.kind \in {"ready", "generating", "failed"}

LifecycleInv == AwaitedInv /\ (\A t \in Tasks : Displays(t)) /\ Busy /\ Laden

\* The kind of a state says which it is, but for its parameters.
LEMMA Forms ==
  \A s \in States :
    /\ s.kind \in {"idle", "probing", "ready", "generating", "unavailable", "supported",
                   "loading", "failed"}
    /\ s.kind = "probing" => s = Probing
    /\ s.kind = "ready" => s = Ready
    /\ s.kind = "generating" => s = Generating
    /\ s.kind = "supported" => s.cached \in BOOLEAN /\ s = Supported(s.cached)
BY DEF States, Idle, Probing, Ready, Generating, Unavailable, Failed, Supported, Loading

\* The states of the specification are the code's.
LEMMA Names ==
  /\ Visible!Idle = Idle /\ Visible!Probing = Probing
  /\ Visible!Ready = Ready /\ Visible!Generating = Generating
  /\ \A c : Visible!Loading(c) = Loading(c)
  /\ \A operation, loaded : Visible!Failed(operation, loaded) = Failed(operation, loaded)
  /\ \A s : s \in Visible!Supported <=> \E c \in BOOLEAN : s = Supported(c)
BY DEF Visible!Idle, Idle, Visible!Probing, Probing, Visible!Ready, Ready,
   Visible!Generating, Generating, Visible!Loading, Loading, Visible!Failed, Failed,
   Visible!Supported, Supported

LEMMA Offered ==
  /\ \A s \in States : s.kind = "supported" => s \in Visible!Supported
  /\ \A reply : Supported(Flag(reply)) \in Visible!Supported
<1>1. \A reply : Flag(reply) \in BOOLEAN
  BY DEF Flag
<1> QED
  BY <1>1, Forms, Names

LEMMA LifecycleInit == Init => LifecycleInv /\ Visible!Init
<1> SUFFICES ASSUME Init PROVE LifecycleInv /\ Visible!Init
  OBVIOUS
<1>1. AwaitedInv
  BY AwaitedInit
<1>2. (\A t \in Tasks : Displays(t)) /\ Busy /\ Laden
  BY Fixed, NoneAssumption
     DEF Init, Displays, Busy, Laden, CapabilityPoints, LoadPoints, UnloadPoints
<1>3. Visible!Init
  BY Names DEF Init, Visible!Init, ModelLoaded, Request
<1> QED
  BY <1>1, <1>2, <1>3 DEF LifecycleInv

\* Without a lifecycle call or an engine nothing is loaded or at work.
LEMMA AtRest ==
  ASSUME LifecycleInv, \A u \in Tasks : ~Lifecycle(u), engine = None
  PROVE  ~ModelLoaded /\ state.kind \in {"idle", "supported", "unavailable", "failed"}
<1>1. \A u \in Tasks : /\ pc[u] # "unload_cache" /\ pc[u] \notin CapabilityPoints
                       /\ pc[u] \notin LoadPoints
  BY DEF Lifecycle, StreamPoints, CapabilityPoints, LoadPoints
<1>2. state \in States /\ state.kind \notin {"probing", "loading"}
  BY <1>1 DEF LifecycleInv, Busy, AwaitedInv, WorkersInv, LocalInv, SharedInv, SharedTypes
<1>3. state \notin {Ready, Generating}
  BY <1>1 DEF LifecycleInv, AwaitedInv, ShownInv, OperationalHasEngine
<1> QED
  BY <1>1, <1>2, <1>3, Forms DEF ModelLoaded

\* While a call other than an unload is at work nothing is loaded.
LEMMA Unladen ==
  ASSUME LifecycleInv, NEW t \in Tasks, Lifecycle(t),
         pc[t] \notin {"settled", "unload", "unload_cache"}
  PROVE  ~ModelLoaded
<1>1. \A u \in Tasks : pc[u] = "unload_cache" => u = t
  BY DEF LifecycleInv, AwaitedInv, Apart, Lifecycle, StreamPoints
<1> QED
  BY <1>1 DEF LifecycleInv, AwaitedInv, Vacant, ModelLoaded

\* Only while a load is in flight is one asked for.
LEMMA NotLoading ==
  ASSUME LifecycleInv, NEW t \in Tasks, Lifecycle(t), ~Loads(t)
  PROVE  Request = "none"
<1>1. \A u \in Tasks : loadOperation = u => Loads(u) /\ Lifecycle(u)
  BY DEF LifecycleInv, Displays, Loads, Lifecycle, StreamPoints, LoadPoints,
     CapabilityPoints
<1>2. \A u \in Tasks : Lifecycle(u) => u = t
  BY DEF LifecycleInv, AwaitedInv, Apart
<1>3. loadOperation \in Tasks \union {None}
  BY DEF LifecycleInv, AwaitedInv, WorkersInv, LocalInv, SharedInv, SharedTypes
<1> QED
  BY <1>1, <1>2, <1>3 DEF Request

LEMMA LoadAsked ==
  ASSUME LifecycleInv, NEW t \in Tasks, Loads(t)
  PROVE  loadOperation = t /\ Request = IF aborted[t] THEN "cancelled" ELSE "asked"
BY NoneAssumption DEF LifecycleInv, AwaitedInv, WorkersInv, LocalInv, SlotInv, Owns, Request

\* A step that lets the load, its cancellation and the engine be.
LEMMA Quiet ==
  ASSUME LifecycleInv, NEW t \in Tasks, Others(t), UNCHANGED <<engine, loadOperation>>,
         loadOperation = t => aborted'[t] = aborted[t],
         pc'[t] = "unload_cache" <=> pc[t] = "unload_cache"
  PROVE  UNCHANGED <<ModelLoaded, Request>>
<1>1. \A u \in Tasks : pc'[u] = "unload_cache" <=> pc[u] = "unload_cache"
  BY DEF Others, Stays
<1>2. \A u \in Tasks : loadOperation = u => aborted'[u] = aborted[u]
  BY DEF Others, Stays
<1>3. loadOperation \in Tasks \union {None}
  BY DEF LifecycleInv, AwaitedInv, WorkersInv, LocalInv, SharedInv, SharedTypes
<1>4. ModelLoaded' = ModelLoaded
  BY <1>1 DEF ModelLoaded
<1>5. Request' = Request
  BY <1>2, <1>3 DEF Request
<1> QED
  BY <1>4, <1>5

-----------------------------------------------------------------------------
(* What a step of another call leaves.                                     *)

\* Only a stream takes a step that is of no lifecycle call.
LEMMA TextOnly ==
  ASSUME SlotTypes, NEW t \in Tasks, Step(t), ~Lifecycle(t), ~Lifecycle(t)'
  PROVE  Stream(t) \/ Chunk(t) \/ StreamEnds(t) \/ StreamFails(t)
<1> USE DEF SlotTypes, Lifecycle, StreamPoints
<1>1. ~(Probe(t) \/ Load(t) \/ Evict(t) \/ Unload(t))
  BY DEF Probe, Load, BeginCreate, Evict, Unload, Start, Goto
<1>2. ~Host(t) /\ ~Progress(t)
  BY DEF Host, HostReads, HostUnloads, HostEvicts, HostStarts, HostCreates, HostGivesUp,
     Progress
<1>3. ~Resume(t)
  BY DEF Resume, ResumeGpu, ResumeCache, Preflight, ResumeCreate, ResumeRelease,
     ResumeSettle, Clear, ResumeEvict, ResumeEvictCache, ResumeUnload, ResumeUnloadCache,
     Answered
<1> QED
  BY <1>1, <1>2, <1>3, Zenon DEF Step, Call

LEMMA OthersDisplay ==
  ASSUME LifecycleInv, Awaits, NEW t \in Tasks, Step(t), NEW u \in Tasks \ {t}
  PROVE  Displays(u)'
<1>1. Stays(u) /\ Keeps(t) /\ SlotTypes /\ Displays(u)
  BY StepKept DEF LifecycleInv, AwaitedInv, WorkersInv, LocalInv, Others
<1>2. loadOperation' = u => Loads(u)'
  BY <1>1, NoneAssumption DEF Keeps, Displays, Stays, Loads
<1>3. CASE ~Lifecycle(u)
  BY <1>1, <1>2, <1>3
     DEF Stays, Displays, Lifecycle, StreamPoints, CapabilityPoints, LoadPoints,
     UnloadPoints
<1>4. CASE Lifecycle(u)
  <2>1. pc[u] = "settled" /\ ~Lifecycle(t) /\ ~Lifecycle(t)'
    BY <1>4, Beside DEF LifecycleInv
  <2>2. state' = state \/ state'.kind \in Outcomes
    BY <1>1, <2>1, TextOnly, Fixed, Failures
       DEF Stream, Chunk, StreamEnds, StreamFails, runtime, Outcomes
  <2> QED
    BY <1>1, <1>2, <2>1, <2>2
       DEF Stays, Displays, CapabilityPoints, LoadPoints, UnloadPoints
<1> QED
  BY <1>3, <1>4

\* What the call in slot t still answers for: the work that is shown, and the engine.
Answerable(t) ==
  /\ state'.kind = "probing" =>
       pc'[t] \in CapabilityPoints \/ (state' = state /\ pc[t] \notin CapabilityPoints)
  /\ state'.kind = "loading" =>
       pc'[t] \in LoadPoints \/ (state' = state /\ pc[t] \notin LoadPoints)
  /\ Laden'

\* What its step leaves, and what the product sees of it.
Leads(t) == Displays(t)' /\ Answerable(t) /\ [Visible!Next]_(Visible!vars)

LEMMA StayBusy ==
  ASSUME LifecycleInv, NEW t \in Tasks, Others(t), Answerable(t)
  PROVE  Busy'
BY DEF LifecycleInv, Busy, Answerable, Others, Stays
-----------------------------------------------------------------------------
(* What the call that takes the step leaves, and what the product sees.    *)

\* What the steps below are taken in.
LEMMA Facts ==
  ASSUME LifecycleInv, NEW t \in Tasks
  PROVE  /\ SlotTypes /\ SharedTypes /\ state \in States
         /\ Answers(t) /\ Owns(t) /\ Holds(t)
         /\ Vacant(t) /\ Sound(t) /\ Supplied(t) /\ Displays(t)
BY DEF LifecycleInv, AwaitedInv, WorkersInv, ShownInv, LocalInv, SharedInv, SharedTypes,
   SlotInv

\* A step that shows nothing new.
LEMMA Unseen ==
  ASSUME LifecycleInv, NEW t \in Tasks, Others(t), UNCHANGED <<state, engine, loadOperation>>,
         loadOperation = t => aborted'[t] = aborted[t],
         pc'[t] = "unload_cache" <=> pc[t] = "unload_cache",
         pc[t] \in CapabilityPoints => pc'[t] \in CapabilityPoints,
         pc[t] \in LoadPoints => pc'[t] \in LoadPoints
  PROVE  Answerable(t) /\ [Visible!Next]_(Visible!vars)
<1>1. UNCHANGED <<ModelLoaded, Request>>
  BY Quiet
<1>2. Answerable(t)
  BY DEF Answerable, Laden, LifecycleInv
<1> QED
  BY <1>1, <1>2 DEF Visible!vars

LEMMA CallLeads ==
  ASSUME LifecycleInv, Awaits, NEW t \in Tasks, Call(t), Others(t)
  PROVE  Leads(t)
<1> USE Facts, NoneAssumption, AllPoints
    DEF SlotTypes, CapabilityPoints, LoadPoints, UnloadPoints, Start, Goto
<1>0. InTurn => \A u \in Tasks : ~Lifecycle(u)
  BY DEF InTurn
<1>1. CASE Probe(t)
  <2>1. /\ UNCHANGED <<engine, loadOperation, aborted>> /\ engine = None
        /\ loadOperation = None /\ state' = Probing /\ pc[t] = "free"
        /\ pc'[t] = "gpu" /\ op'[t] = "probe"
    BY <1>1 DEF Probe
  <2>2. ~ModelLoaded /\ state.kind \in {"idle", "supported", "unavailable", "failed"}
    BY <1>0, <1>1, AtRest DEF Probe
  <2>3. UNCHANGED <<ModelLoaded, Request>> /\ Request = "none"
    BY <2>1, Quiet DEF Request
  <2>4. Visible!Probe
    BY <2>1, <2>2, <2>3, Names DEF Visible!Probe, Visible!Empty, Visible!Show
  <2>5. Displays(t)' /\ Answerable(t)
    BY <2>1, Fixed DEF Displays, Answerable, Laden, Loads
  <2> QED
    BY <2>4, <2>5 DEF Leads, Visible!Next
<1>2. CASE Load(t)
  <2>1. /\ UNCHANGED <<engine, aborted>> /\ engine = None /\ loadOperation = None
        /\ loadOperation' = t /\ pc[t] = "free" /\ op'[t] = "load" /\ ~aborted[t]
        /\ previous'[t] = state /\ state.kind # "unavailable"
    BY <1>2 DEF Load, Owns
  <2>2. \/ /\ state.kind = "supported" /\ state' = Loading(state.cached)
           /\ pc'[t] = "create"
        \/ state.kind # "supported" /\ state' = Probing /\ pc'[t] = "gpu"
    BY <1>2 DEF Load, BeginCreate
  <2>3. ~ModelLoaded /\ state.kind \in {"idle", "supported", "unavailable", "failed"}
    BY <1>0, <1>2, AtRest DEF Load
  <2>4. UNCHANGED ModelLoaded
    BY <2>1, <2>2 DEF ModelLoaded, Others, Stays
  <2>5. Request = "none" /\ Request' = "asked"
    BY <2>1 DEF Request
  <2>6. Visible!Ask
    BY <2>1, <2>2, <2>3, <2>4, <2>5, Names, Offered DEF Visible!Ask, Visible!Empty
  <2>7. Displays(t)' /\ Answerable(t)
    BY <2>1, <2>2, Fixed, Kinds DEF Displays, Answerable, Laden, Loads
  <2> QED
    BY <2>6, <2>7 DEF Leads, Visible!Next
<1>3. CASE Evict(t)
  <2>1. /\ UNCHANGED <<state, engine, loadOperation, aborted>> /\ loadOperation = None
        /\ pc[t] = "free" /\ pc'[t] = "evict"
    BY <1>3 DEF Evict, runtime
  <2> QED
    BY <2>1, Unseen DEF Leads, Displays
<1>4. CASE Unload(t)
  <2>1. /\ UNCHANGED <<state, engine, loadOperation, aborted>> /\ loadOperation = None
        /\ pc[t] = "free" /\ pc'[t] = "unload" /\ engine # None /\ state # Generating
    BY <1>4 DEF Unload, runtime
  <2>2. state.kind \in {"ready", "failed"}
    BY <2>1, Forms DEF LifecycleInv, Laden
  <2> QED
    BY <2>1, <2>2, Unseen DEF Leads, Displays
<1>5. CASE Stream(t)
  <2>1. /\ UNCHANGED <<engine, loadOperation, aborted>> /\ engine # None
        /\ state = Ready /\ state' = Generating /\ pc[t] = "free" /\ pc'[t] = "stream"
    BY <1>5 DEF Stream
  <2>2. UNCHANGED <<ModelLoaded, Request>> /\ ModelLoaded
    BY <2>1, Quiet DEF ModelLoaded
  <2>3. Visible!Generate
    BY <2>1, <2>2, Names DEF Visible!Generate, Visible!Show
  <2>4. Displays(t)' /\ Answerable(t)
    BY <2>1, Fixed DEF Displays, Answerable, Laden, Loads
  <2> QED
    BY <2>3, <2>4 DEF Leads, Visible!Next
<1> QED
  BY <1>1, <1>2, <1>3, <1>4, <1>5 DEF Call

\* A verdict answers the device that was being read.
LEMMA VerdictLeads ==
  ASSUME LifecycleInv, NEW t \in Tasks, pc[t] \in CapabilityPoints, NEW verdict,
         Verdict(t, verdict), verdict.kind \in {"supported", "unavailable", "failed"},
         \/ verdict \in Visible!Supported \/ verdict = Failed("probe", FALSE)
         \/ verdict.kind = "unavailable"
  PROVE  Leads(t)
<1> USE Facts, AllPoints DEF CapabilityPoints, LoadPoints, UnloadPoints
<1>1. /\ Others(t) /\ state' = verdict /\ state = Probing
      /\ UNCHANGED <<engine, loadOperation>>
      /\ \/ /\ pc'[t] = "preflight" /\ op[t] = "load" /\ previous'[t] = previous[t]
            /\ aborted'[t] = aborted[t]
         \/ pc'[t] = "free" /\ op[t] # "load"
  BY VerdictMoves DEF Displays
<1>2. loadOperation = t => op[t] = "load"
  BY DEF Displays, Loads
<1>3. UNCHANGED <<ModelLoaded, Request>>
  BY <1>1, <1>2, Quiet
<1>4. Visible!Answer
  BY <1>1, <1>3, Names DEF Visible!Answer
<1>5. Displays(t)'
  BY <1>1, <1>2 DEF Displays, Loads
<1>6. Laden'
  <2>1. Lifecycle(t) /\ pc[t] \notin {"settled", "unload"}
    BY DEF Lifecycle, StreamPoints
  <2> QED
    BY <1>1, <2>1 DEF Vacant, Laden
<1>7. Answerable(t)
  BY <1>1, <1>6 DEF Answerable
<1> QED
  BY <1>4, <1>5, <1>7 DEF Leads, Visible!Next

LEMMA CapabilityLeads ==
  ASSUME LifecycleInv, NEW t \in Tasks, ResumeGpu(t) \/ ResumeCache(t), Others(t)
  PROVE  Leads(t)
<1>1. CASE Goto(t, "cache") /\ pc[t] = "gpu" /\ UNCHANGED <<runtime, op, previous, aborted>>
  <2>1. pc'[t] = "cache" /\ UNCHANGED <<state, engine, loadOperation>>
    BY <1>1, Facts DEF SlotTypes, Goto, runtime
  <2>2. Displays(t)'
    BY <1>1, <2>1, Facts
       DEF Displays, Loads, CapabilityPoints, LoadPoints, UnloadPoints
  <2> QED
    BY <1>1, <2>1, <2>2, Unseen DEF Leads, CapabilityPoints, LoadPoints
<1>2. ASSUME NEW verdict, Verdict(t, verdict), pc[t] \in CapabilityPoints,
             \/ verdict = Failed("probe", FALSE)
             \/ \E r \in {"no_adapter", "device_limits_insufficient",
                          "model_features_unavailable"} : verdict = Unavailable(r)
             \/ verdict = Supported(Flag(answer[t]))
      PROVE  Leads(t)
  BY <1>2, VerdictLeads, Failures, Reasons, Kinds, Offered
<1>3. CASE ResumeGpu(t)
  BY <1>1, <1>2, <1>3 DEF ResumeGpu, Judge, Answered, CapabilityPoints
<1>4. CASE ResumeCache(t)
  BY <1>2, <1>4 DEF ResumeCache, Answered, CapabilityPoints
<1> QED
  BY <1>3, <1>4
\* A load goes on, gives up, or settles.
LEMMA LoadLeads ==
  ASSUME LifecycleInv, NEW t \in Tasks, Others(t),
         Preflight(t) \/ ResumeCreate(t) \/ ResumeRelease(t) \/ ResumeSettle(t)
  PROVE  Leads(t)
<1> USE Facts, AllPoints
    DEF SlotTypes, CapabilityPoints, LoadPoints, UnloadPoints, Goto, Answered,
    SettleAfterCancel
<1>1. /\ pc[t] \in LoadPoints \union {"preflight"} /\ Loads(t)
      /\ UNCHANGED <<loadOperation, aborted, op>>
      /\ pc'[t] \in LoadPoints \union {"settled"} /\ Loads(t)'
  BY DEF Preflight, BeginCreate, ResumeCreate, ResumeRelease, ResumeSettle, Loads
<1>2. /\ loadOperation = t /\ ~ModelLoaded /\ engine = None
      /\ Request = IF aborted[t] THEN "cancelled" ELSE "asked"
  BY <1>1, LoadAsked, Unladen DEF Owns, Lifecycle, StreamPoints
<1>3. ASSUME UNCHANGED engine PROVE UNCHANGED <<ModelLoaded, Request>>
  BY <1>1, <1>3, Quiet
<1>4. ASSUME UNCHANGED <<state, engine, previous>>, pc[t] \in LoadPoints,
             pc'[t] \in LoadPoints, pc'[t] = "create" \/ aborted[t]
      PROVE  Leads(t)
  <2>1. Displays(t)'
    BY <1>1, <1>4 DEF Displays
  <2> QED
    BY <1>1, <1>4, <2>1, Unseen DEF Leads
<1>5. ASSUME UNCHANGED engine, aborted[t], pc'[t] = "settled",
             state' = Idle \/ (state.kind = "loading" /\ state' \in Visible!Supported),
             state.kind \in {"loading", "supported", "unavailable", "failed"}
      PROVE  Leads(t)
  <2>1. Visible!GiveUp
    BY <1>2, <1>3, <1>5, Names DEF Visible!GiveUp, Visible!Show
  <2>2. state'.kind \in {"idle", "supported"}
    BY <1>5, Fixed, Names, Kinds
  <2>3. Displays(t)' /\ Answerable(t)
    BY <1>1, <1>2, <1>5, <2>2 DEF Displays, Answerable, Laden
  <2> QED
    BY <2>1, <2>3 DEF Leads, Visible!Next
<1>6. CASE Preflight(t)
  <2>1. CASE aborted[t]
    BY <1>5, <1>6, <2>1 DEF Preflight, Displays
  <2>2. CASE ~aborted[t] /\ state.kind # "supported"
    <3>1. UNCHANGED <<state, engine>> /\ pc[t] = "preflight" /\ pc'[t] = "settled"
      BY <1>6, <2>2 DEF Preflight
    <3>2. Displays(t)'
      BY <1>1, <2>2, <3>1 DEF Displays, Outcomes
    <3> QED
      BY <1>1, <3>1, <3>2, Unseen DEF Leads
  <2>3. CASE ~aborted[t] /\ state.kind = "supported"
    <3>1. /\ state' = Loading(state.cached) /\ previous'[t] = state /\ UNCHANGED engine
          /\ pc'[t] = "create"
      BY <1>6, <2>3 DEF Preflight, BeginCreate
    <3>2. Visible!Download
      BY <1>2, <1>3, <2>3, <3>1, Names, Offered DEF Visible!Download, Visible!Show
    <3>3. Displays(t)' /\ Answerable(t)
      BY <1>1, <1>2, <2>3, <3>1, Kinds DEF Displays, Answerable, Laden
    <3> QED
      BY <3>2, <3>3 DEF Leads, Visible!Next
  <2> QED
    BY <2>1, <2>2, <2>3
<1>7. CASE ResumeCreate(t)
  <2>1. pc[t] = "create" /\ state.kind = "loading" /\ previous[t].kind = "supported"
    BY <1>7, Kinds DEF ResumeCreate, Displays
  <2>2. CASE answer[t] = "error" /\ aborted[t]
    BY <1>4, <1>7, <2>1, <2>2 DEF ResumeCreate
  <2>3. CASE answer[t] = "error" /\ ~aborted[t]
    <3>1. state' = Failed("load", FALSE) /\ UNCHANGED engine /\ pc'[t] = "settled"
      BY <1>7, <2>3 DEF ResumeCreate
    <3>2. Visible!Fail
      BY <1>2, <1>3, <2>1, <2>3, <3>1, Names DEF Visible!Fail, Visible!Show
    <3>3. Displays(t)' /\ Answerable(t)
      BY <1>1, <1>2, <3>1, Failures DEF Displays, Answerable, Laden, Outcomes
    <3> QED
      BY <3>2, <3>3 DEF Leads, Visible!Next
  <2>4. CASE answer[t] # "error" /\ aborted[t]
    BY <1>4, <1>7, <2>1, <2>4 DEF ResumeCreate
  <2>5. CASE answer[t] # "error" /\ ~aborted[t]
    <3>1. state' = Ready /\ engine' # None /\ pc'[t] = "settled"
      BY <1>7, <2>5 DEF ResumeCreate
    <3>2. ModelLoaded' = TRUE /\ UNCHANGED Request
      BY <1>1, <3>1 DEF ModelLoaded, Request
    <3>3. Visible!Succeed
      BY <1>2, <2>1, <2>5, <3>1, <3>2, Names DEF Visible!Succeed
    <3>4. Displays(t)' /\ Answerable(t)
      BY <1>1, <3>1, Fixed DEF Displays, Answerable, Laden, Outcomes
    <3> QED
      BY <3>3, <3>4 DEF Leads, Visible!Next
  <2> QED
    BY <2>2, <2>3, <2>4, <2>5
<1>8. CASE ResumeRelease(t)
  BY <1>4, <1>8 DEF ResumeRelease, Displays
<1>9. CASE ResumeSettle(t)
  <2>1. state' = Idle \/ state' \in Visible!Supported
    BY <1>9, Offered DEF ResumeSettle
  <2> QED
    BY <1>5, <1>9, <2>1, Kinds DEF ResumeSettle, Displays
<1> QED
  BY <1>6, <1>7, <1>8, <1>9

LEMMA ClearLeads ==
  ASSUME LifecycleInv, NEW t \in Tasks, Clear(t), Others(t)
  PROVE  Leads(t)
<1>1. /\ pc[t] = "settled" /\ pc'[t] = "free" /\ Loads(t)
      /\ UNCHANGED <<state, engine>>
  BY FinishMoves, Facts DEF Clear, Loads
<1>2. loadOperation' = None /\ Request' = "none"
  BY <1>1, LoadAsked DEF Clear, Request
<1>3. UNCHANGED ModelLoaded
  BY <1>1 DEF ModelLoaded, Others, Stays
<1>4. Visible!Settle
  BY <1>1, <1>2, <1>3, LoadAsked, Facts DEF Visible!Settle, Displays, Outcomes
<1>5. Displays(t)' /\ Answerable(t)
  BY <1>1, <1>2, NoneAssumption
     DEF Displays, Answerable, CapabilityPoints, LoadPoints, UnloadPoints, Laden,
     LifecycleInv
<1> QED
  BY <1>4, <1>5 DEF Leads, Visible!Next
LEMMA EvictLeads ==
  ASSUME LifecycleInv, NEW t \in Tasks, Others(t), ResumeEvict(t) \/ ResumeEvictCache(t)
  PROVE  Leads(t)
<1> USE Facts, AllPoints DEF CapabilityPoints, LoadPoints, UnloadPoints
<1>1. /\ pc[t] \in {"evict", "evict_cache"} /\ ~Loads(t) /\ Lifecycle(t)
      /\ UNCHANGED <<engine, loadOperation>> /\ loadOperation # t
  BY DEF ResumeEvict, ResumeEvictCache, Answered, Loads, Lifecycle, StreamPoints, runtime,
     Displays
<1>2. CASE ResumeEvict(t)
  <2>1. /\ UNCHANGED state
        /\ \/ pc'[t] = "evict_cache" /\ state.kind = "supported"
           \/ pc'[t] = "free"
    BY <1>2, FinishMoves DEF ResumeEvict, runtime, Goto, SlotTypes
  <2>2. Displays(t)'
    BY <1>1, <2>1 DEF Displays
  <2> QED
    BY <1>1, <2>1, <2>2, Unseen DEF Leads
<1>3. CASE ResumeEvictCache(t)
  <2>1. /\ pc[t] = "evict_cache" /\ pc'[t] = "free"
        /\ state' = Idle \/ state' \in Visible!Supported
    BY <1>3, FinishMoves, Offered DEF ResumeEvictCache, Answered
  <2>2. UNCHANGED <<ModelLoaded, Request>> /\ ~ModelLoaded /\ Request = "none"
    BY <1>1, <2>1, Quiet, Unladen, NotLoading
  <2>3. Visible!Reread
    BY <2>1, <2>2, Names, Offered
       DEF Displays, Visible!Reread, Visible!Empty, Visible!Show
  <2>4. Displays(t)'
    BY <1>1, <2>1 DEF Displays
  <2>5. Answerable(t)
    BY <1>1, <2>1, Fixed, Names, Kinds DEF Answerable, Laden, Vacant
  <2> QED
    BY <2>3, <2>4, <2>5 DEF Leads, Visible!Next
<1> QED
  BY <1>2, <1>3

LEMMA UnloadLeads ==
  ASSUME LifecycleInv, NEW t \in Tasks, Others(t), ResumeUnload(t) \/ ResumeUnloadCache(t)
  PROVE  Leads(t)
<1> USE Facts, AllPoints DEF CapabilityPoints, LoadPoints, UnloadPoints
<1>1. /\ pc[t] \in UnloadPoints /\ ~Loads(t) /\ Lifecycle(t)
      /\ UNCHANGED loadOperation /\ loadOperation # t /\ state.kind \in {"ready", "failed"}
  BY DEF ResumeUnload, ResumeUnloadCache, Answered, Loads, Lifecycle, StreamPoints,
     Displays
<1>2. Request = "none" /\ loadOperation = None
  BY <1>1, NotLoading DEF Request
<1>3. UNCHANGED Request
  BY <1>1, <1>2 DEF Request
<1>4. ModelLoaded
  BY <1>1, NoneAssumption DEF ModelLoaded, Sound, Holds
<1>5. CASE ResumeUnload(t)
  <2>1. pc[t] = "unload"
    BY <1>5 DEF ResumeUnload, Answered
  <2>2. CASE answer[t] = "error"
    <3>1. state' = Failed("unload", TRUE) /\ UNCHANGED engine /\ pc'[t] = "free"
      BY <1>5, <2>2, FinishMoves DEF ResumeUnload
    <3>2. ModelLoaded' = TRUE
      BY <2>1, <3>1, NoneAssumption DEF ModelLoaded, Sound, Holds
    <3>3. Visible!Unload
      BY <1>1, <1>2, <1>3, <1>4, <3>1, <3>2, Names DEF Visible!Unload
    <3>4. Displays(t)' /\ Answerable(t)
      BY <1>1, <3>1, Failures DEF Displays, Answerable, Laden
    <3> QED
      BY <3>3, <3>4 DEF Leads, Visible!Next
  <2>3. CASE answer[t] = "done"
    <3>1. engine' = None /\ UNCHANGED state /\ pc'[t] = "unload_cache"
      BY <1>5, <2>3 DEF ResumeUnload, Goto, SlotTypes
    <3>2. ModelLoaded' = TRUE /\ ModelLoaded = TRUE
      BY <1>4, <3>1 DEF ModelLoaded
    <3>3. Displays(t)' /\ Answerable(t)
      BY <1>1, <3>1 DEF Displays, Answerable, Laden
    <3> QED
      BY <1>3, <3>1, <3>2, <3>3 DEF Leads, Visible!vars
  <2> QED
    BY <1>5, <2>2, <2>3 DEF ResumeUnload
<1>6. CASE ResumeUnloadCache(t)
  <2>1. /\ pc[t] = "unload_cache" /\ pc'[t] = "free" /\ UNCHANGED engine
        /\ state' = Failed("unload", TRUE) \/ state' \in Visible!Supported
    BY <1>6, FinishMoves, Offered DEF ResumeUnloadCache, Answered
  <2>2. engine' = None /\ \A u \in Tasks : pc'[u] # "unload_cache"
    BY <1>1, <2>1
       DEF Vacant, Others, Stays, LifecycleInv, AwaitedInv, Apart, Lifecycle, StreamPoints
  <2>3. ModelLoaded' = FALSE
    BY <2>2 DEF ModelLoaded
  <2>4. Visible!Unload
    BY <1>1, <1>2, <1>3, <1>4, <2>1, <2>3, Names DEF Visible!Unload
  <2>5. Displays(t)'
    BY <1>1, <2>1 DEF Displays
  <2>6. state'.kind \in {"failed", "supported"}
    <3>1. CASE state' = Failed("unload", TRUE)
      BY <3>1, Failures
    <3>2. CASE state' \in Visible!Supported
      BY <3>2, Names, Kinds
    <3> QED
      BY <2>1, <3>1, <3>2
  <2>7. Answerable(t)
    BY <2>2, <2>6 DEF Answerable, Laden
  <2> QED
    BY <2>4, <2>5, <2>7 DEF Leads, Visible!Next
<1> QED
  BY <1>5, <1>6

LEMMA HostLeads ==
  ASSUME LifecycleInv, NEW t \in Tasks, Host(t), Others(t)
  PROVE  Leads(t)
<1>1. UNCHANGED <<state, engine, loadOperation, pc, op, previous, aborted>>
  BY DEF Host, HostReads, HostUnloads, HostEvicts, HostStarts, HostCreates, HostGivesUp,
     Reply, runtime
<1>2. Displays(t)'
  BY <1>1, Facts DEF Displays, Loads
<1> QED
  BY <1>1, <1>2, Unseen DEF Leads

LEMMA TextLeads ==
  ASSUME LifecycleInv, NEW t \in Tasks, Others(t),
         Progress(t) \/ Chunk(t) \/ StreamEnds(t) \/ StreamFails(t)
  PROVE  Leads(t)
<1> USE Facts, AllPoints DEF CapabilityPoints, LoadPoints, UnloadPoints
<1>1. CASE Progress(t)
  <2>1. UNCHANGED <<engine, loadOperation, pc, op, previous, aborted, state>>
    BY <1>1 DEF Progress, calls, Displays
  <2>2. Displays(t)'
    BY <2>1 DEF Displays, Loads
  <2> QED
    BY <2>1, <2>2, Unseen DEF Leads
<1>2. ASSUME Streaming(t)
      PROVE  pc[t] \in StreamPoints /\ loadOperation # t /\ engine # None /\ ModelLoaded
             /\ state = Generating
  BY <1>2 DEF Streaming, StreamPoints, Displays, Loads, Supplied, ModelLoaded
<1>3. CASE Chunk(t)
  <2>1. Streaming(t) /\ pc'[t] \in StreamPoints /\ UNCHANGED <<state, engine, loadOperation>>
    BY <1>3 DEF Chunk, Goto, SlotTypes, runtime, Streaming, StreamPoints
  <2>2. Displays(t)'
    BY <1>2, <2>1 DEF Displays, StreamPoints
  <2> QED
    BY <1>2, <2>1, <2>2, Unseen DEF Leads, StreamPoints
<1>4. CASE StreamEnds(t) \/ StreamFails(t)
  <2>1. /\ Streaming(t) /\ pc'[t] = "free" /\ UNCHANGED <<engine, loadOperation>>
        /\ state' = Ready \/ state' = Failed("generate", TRUE)
    BY <1>4, FinishMoves DEF StreamEnds, StreamFails, Streaming, StreamPoints
  <2>2. UNCHANGED <<ModelLoaded, Request>>
    BY <1>2, <2>1, Quiet DEF StreamPoints
  <2>3. Visible!Stop \/ Visible!Break
    BY <1>2, <2>1, <2>2, Names DEF Visible!Stop, Visible!Break, Visible!Show
  <2>4. Displays(t)'
    BY <1>2, <2>1 DEF Displays
  <2>5. Answerable(t)
    BY <2>1, Fixed, Failures DEF Answerable, Laden
  <2> QED
    BY <2>3, <2>4, <2>5 DEF Leads, Visible!Next
<1> QED
  BY <1>1, <1>3, <1>4

LEMMA StepLeads ==
  ASSUME LifecycleInv, Awaits, NEW t \in Tasks, Step(t)
  PROVE  Others(t) /\ Leads(t)
<1>1. Others(t)
  BY StepKept DEF LifecycleInv, AwaitedInv, WorkersInv
<1> QED
  BY <1>1, CallLeads, CapabilityLeads, LoadLeads, ClearLeads, EvictLeads, UnloadLeads,
     HostLeads, TextLeads, Zenon DEF Step, Resume

LEMMA LoadAgainLeads ==
  ASSUME LifecycleInv, Awaits, LoadAgain
  PROVE  (\A u \in Tasks : Displays(u)') /\ Busy' /\ Laden' /\ [Visible!Next]_(Visible!vars)
<1>1. /\ UNCHANGED <<engine, loadOperation, pc, op, previous, aborted>>
      /\ state' = Ready /\ engine # None /\ \A u \in Tasks : ~Lifecycle(u)
  BY DEF LoadAgain, InTurn, calls
<1>2. UNCHANGED <<ModelLoaded, Request>> /\ ModelLoaded
  BY <1>1 DEF ModelLoaded, Request
<1>3. loadOperation = None
  BY <1>1
     DEF LifecycleInv, Displays, Loads, LoadPoints, CapabilityPoints, Lifecycle,
     StreamPoints, AwaitedInv, WorkersInv, LocalInv, SharedInv, SharedTypes
<1>4. state.kind = "failed"
  BY <1>1, Forms
     DEF LoadAgain, LifecycleInv, Laden, AwaitedInv, WorkersInv, LocalInv, SharedInv,
     SharedTypes
<1>5. Visible!Recover
  BY <1>1, <1>2, <1>3, <1>4, Names DEF Visible!Recover, Visible!Show, Request
<1>6. \A u \in Tasks : Displays(u)'
  BY <1>1, <1>3, NoneAssumption
     DEF Displays, CapabilityPoints, LoadPoints, UnloadPoints, Lifecycle, StreamPoints
<1>7. Busy' /\ Laden'
  BY <1>1, Fixed DEF Busy, Laden
<1> QED
  BY <1>5, <1>6, <1>7 DEF Visible!Next

LEMMA CancelLeads ==
  ASSUME LifecycleInv, Cancel
  PROVE  (\A u \in Tasks : Displays(u)') /\ Busy' /\ Laden' /\ [Visible!Next]_(Visible!vars)
<1>1. /\ UNCHANGED <<state, engine, loadOperation, pc, op, previous>>
      /\ loadOperation # None /\ ~aborted[loadOperation]
      /\ aborted'[loadOperation] /\ \A u \in Tasks : aborted[u] => aborted'[u]
  BY DEF Cancel, runtime, LifecycleInv, AwaitedInv, WorkersInv, LocalInv, SlotTypes,
     SharedInv, SharedTypes
<1>2. UNCHANGED ModelLoaded /\ Request = "asked" /\ Request' = "cancelled"
  BY <1>1 DEF ModelLoaded, Request
<1>3. Visible!Cancel
  BY <1>1, <1>2 DEF Visible!Cancel
<1>4. \A u \in Tasks : Displays(u)'
  BY <1>1 DEF LifecycleInv, Displays, Loads
<1>5. Busy' /\ Laden'
  BY <1>1 DEF LifecycleInv, Busy, Laden
<1> QED
  BY <1>3, <1>4, <1>5 DEF Visible!Next

LEMMA LifecycleStep ==
  Awaits /\ LifecycleInv /\ [Next]_vars => LifecycleInv' /\ [Visible!Next]_(Visible!vars)
<1> SUFFICES ASSUME Awaits, LifecycleInv, [Next]_vars
             PROVE  LifecycleInv' /\ [Visible!Next]_(Visible!vars)
  OBVIOUS
<1>1. AwaitedInv'
  BY AwaitedStep DEF LifecycleInv
<1>2. CASE LoadAgain
  BY <1>1, <1>2, LoadAgainLeads DEF LifecycleInv
<1>3. CASE Cancel
  BY <1>1, <1>3, CancelLeads DEF LifecycleInv
<1>4. ASSUME NEW t \in Tasks, Step(t)
      PROVE  LifecycleInv' /\ [Visible!Next]_(Visible!vars)
  <2>1. Others(t) /\ Leads(t)
    BY <1>4, StepLeads
  <2>2. \A u \in Tasks : Displays(u)'
    BY <1>4, <2>1, OthersDisplay DEF Leads
  <2>3. Busy' /\ Laden'
    BY <2>1, StayBusy DEF Leads, Answerable
  <2> QED
    BY <1>1, <2>1, <2>2, <2>3 DEF LifecycleInv, Leads
<1>5. CASE UNCHANGED vars
  <2>1. UNCHANGED <<ModelLoaded, Request>>
    BY <1>5 DEF vars, runtime, calls, ModelLoaded, Request
  <2> QED
    BY <1>1, <1>5, <2>1
       DEF vars, runtime, calls, LifecycleInv, Displays, Loads, Busy, Laden, Visible!vars
<1> QED
  BY <1>2, <1>3, <1>4, <1>5, Zenon DEF Next, Step

\* Whatever the host answers and whenever a load is cancelled, a product that awaits its
\* calls is led through the documented lifecycle (runtime.ts #setState;
\* docs/browser-local-inference.md "Lifecycle").
THEOREM Follows == ASSUME Awaits PROVE Spec => FollowsLifecycle
BY LifecycleInit, LifecycleStep, PTL DEF Spec, FollowsLifecycle, Visible!Spec
=============================================================================
