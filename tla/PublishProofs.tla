--------------------------- MODULE PublishProofs ---------------------------
(* What a run publishes and reports is right whatever registries held before, *)
(* whatever is repeated, overlaps or fails, for any number of runs,           *)
(* registries and packages.                                                   *)
EXTENDS PublishPackages, TLAPS

\* A job that has come to an archive found or put every earlier one there itself.
Passed(run, registry) ==
    /\ (InPhase(run, registry, "lookup") \/ InPhase(run, registry, "publish")) =>
          /\ job[run][registry].at \in Archives
          /\ packed[run] \in Artifacts
          /\ \A archive \in Archives : archive < job[run][registry].at =>
                held[registry][archive] = packed[run][archive]
    /\ InPhase(run, registry, "succeeded") =>
          /\ packed[run] \in Artifacts
          /\ \A archive \in Archives : held[registry][archive] = packed[run][archive]

\* The inductive invariant: types, and what jobs have passed.
PassedInv == \A run \in Runs, registry \in Registries : Passed(run, registry)
PublishInv == TypeOK /\ PassedInv

\* What one job's step from `here` to `there` has to show for the invariant of that job.
LEMMA Phases ==
    /\ Skipped.phase = "skipped" /\ Failed.phase = "failed" /\ Succeeded.phase = "succeeded"
    /\ \A a : /\ Lookup(a).phase = "lookup" /\ Lookup(a).at = a
             /\ Publish(a).phase = "publish" /\ Publish(a).at = a
BY DEF Skipped, Failed, Succeeded, Lookup, Publish

LEMMA PublishInit == Init => PublishInv
<1> SUFFICES ASSUME Init PROVE PublishInv
  OBVIOUS
<1>1. TypeOK
  BY DEF Init, TypeOK
<1>2. PassedInv
  BY Phases DEF Init, PassedInv, Passed, InPhase
<1>3. QED
  BY <1>1, <1>2 DEF PublishInv

\* What stays with a registry is what it held, so every other job's invariant is kept.
LEMMA OthersKept ==
    ASSUME PublishInv, NEW run \in Runs, NEW registry \in Registries,
           job'[run][registry] = job[run][registry], packed'[run] = packed[run],
           \A archive \in Archives : held[registry][archive] # None =>
                held'[registry][archive] = held[registry][archive]
    PROVE  Passed(run, registry)'
<1>1. Passed(run, registry)
  BY DEF PublishInv, PassedInv
<1>2. ASSUME packed[run] \in Artifacts, NEW archive \in Archives,
             held[registry][archive] = packed[run][archive]
      PROVE  held'[registry][archive] = packed'[run][archive]
  BY <1>2, NoneAssumption DEF Artifacts
<1>3. QED
  BY <1>1, <1>2 DEF Passed, InPhase

\* The loop passes an archive only once the registry holds this run's tarball of it.
LEMMA LoopPasses ==
    ASSUME PublishInv, NEW run \in Runs, NEW registry \in Registries,
           InPhase(run, registry, "lookup") \/ InPhase(run, registry, "publish"),
           packed' = packed,
           \A archive \in Archives : held[registry][archive] # None =>
                held'[registry][archive] = held[registry][archive],
           held'[registry][job[run][registry].at] = packed[run][job[run][registry].at],
           job'[run][registry] = NextArchive(job[run][registry].at)
    PROVE  Passed(run, registry)'
<1> DEFINE at == job[run][registry].at
<1>1. /\ at \in Archives
      /\ packed[run] \in Artifacts
      /\ \A archive \in Archives : archive < at => held[registry][archive] = packed[run][archive]
  BY DEF PublishInv, PassedInv, Passed
<1>2. \A archive \in Archives : archive <= at => held'[registry][archive] = packed[run][archive]
  <2>1. SUFFICES ASSUME NEW archive \in Archives, archive <= at
                 PROVE  held'[registry][archive] = packed[run][archive]
    OBVIOUS
  <2>2. CASE archive = at
    BY <2>2
  <2>3. CASE archive < at
    <3>1. held[registry][archive] = packed[run][archive] /\ packed[run][archive] \in Shasums
      BY <1>1, <2>3 DEF Artifacts
    <3>2. QED
      BY <3>1, NoneAssumption
  <2>4. QED
    BY <1>1, <2>1, <2>2, <2>3 DEF Archives
<1> HIDE DEF at
<1>3. CASE at < Packages
  <2>1. job'[run][registry] = Lookup(at + 1)
    BY <1>3 DEF NextArchive, at
  <2>2. at + 1 \in Archives /\ \A archive \in Archives : archive < at + 1 => archive <= at
    BY <1>1, <1>3, PackagesAssumption DEF Archives
  <2>3. QED
    BY <1>1, <1>2, <2>1, <2>2, Phases DEF Passed, InPhase
<1>4. CASE ~(at < Packages)
  <2>1. job'[run][registry] = Succeeded
    BY <1>4 DEF NextArchive, at
  <2>2. \A archive \in Archives : archive <= at
    BY <1>1, <1>4, PackagesAssumption DEF Archives
  <2>3. QED
    BY <1>1, <1>2, <2>1, <2>2, Phases DEF Passed, InPhase
<1>5. QED
  BY <1>3, <1>4

\* A step of one job leaves the others where they are.
LEMMA StepsOne ==
    ASSUME TypeOK, NEW run \in Runs, NEW registry \in Registries, NEW next,
           Step(run, registry, next)
    PROVE  /\ job'[run][registry] = next
           /\ \A r \in Runs, g \in Registries :
                 r # run \/ g # registry => job'[r][g] = job[r][g]
BY DEF TypeOK, Step

LEMMA NextArchiveTyped ==
    ASSUME NEW archive \in Archives
    PROVE  NextArchive(archive) \in {Succeeded} \cup {Lookup(a) : a \in Archives}
BY PackagesAssumption DEF NextArchive, Archives

\* A step of one job to `next`, with at most one archive published: what is left to show.
LEMMA JobStep ==
    ASSUME PublishInv, NEW run \in Runs, NEW registry \in Registries, NEW next,
           Step(run, registry, next), packed' = packed, packed[run] # None,
           next \in {Failed, Succeeded} \cup {Lookup(a) : a \in Archives}
                        \cup {Publish(a) : a \in Archives},
           \/ held' = held
           \/ \E archive \in Archives :
                 /\ held[registry][archive] = None
                 /\ packed[run] \in Artifacts
                 /\ held' = [held EXCEPT ![registry][archive] = packed[run][archive]],
           Passed(run, registry)'
    PROVE  PublishInv'
<1>1. \A g \in Registries, a \in Archives : held[g][a] # None => held'[g][a] = held[g][a]
  BY DEF PublishInv, TypeOK
<1>2. TypeOK'
  <2> DEFINE Held == [Archives -> Shasums \cup {None}]
  <2>1. held' \in [Registries -> Held]
    <3>1. held \in [Registries -> Held]
      BY DEF PublishInv, TypeOK
    <3>2. CASE held' = held
      BY <3>1, <3>2
    <3>3. ASSUME NEW archive \in Archives, packed[run] \in Artifacts,
                 held' = [held EXCEPT ![registry][archive] = packed[run][archive]]
          PROVE  held' \in [Registries -> Held]
      <4>1. packed[run][archive] \in Shasums \cup {None}
        BY <3>3 DEF Artifacts
      <4>2. [held[registry] EXCEPT ![archive] = packed[run][archive]] \in Held
        BY <3>1, <4>1
      <4> HIDE DEF Held
      <4>3. QED
        BY <3>1, <3>3, <4>2
    <3>4. QED
      BY <3>2, <3>3
  <2>2. job' \in [Runs -> [Registries ->
                   {Skipped, Failed, Succeeded}
                       \cup {Lookup(a) : a \in Archives} \cup {Publish(a) : a \in Archives}]]
    BY DEF PublishInv, TypeOK, Step
  <2>3. ASSUME NEW r \in Runs, packed'[r] = None, NEW g \in Registries
        PROVE  job'[r][g] = Failed
    <3>1. r # run /\ packed[r] = None
      BY <2>3
    <3>2. job'[r][g] = job[r][g]
      BY <3>1, StepsOne DEF PublishInv
    <3>3. QED
      BY <3>1, <3>2 DEF PublishInv, TypeOK
  <2>4. QED
    BY <2>1, <2>2, <2>3 DEF PublishInv, TypeOK
<1>3. PassedInv'
  <2>1. SUFFICES ASSUME NEW r \in Runs, NEW g \in Registries PROVE Passed(r, g)'
    BY DEF PassedInv
  <2>2. CASE r = run /\ g = registry
    BY <2>2
  <2>3. CASE r # run \/ g # registry
    BY <1>1, <2>3, StepsOne, OthersKept DEF PublishInv
  <2>4. QED
    BY <2>2, <2>3
<1>4. QED
  BY <1>2, <1>3 DEF PublishInv

-----------------------------------------------------------------------------

\* Where a job at work is, what it may assume, and what is before it.
LEMMA AtWork ==
    ASSUME PublishInv, NEW run \in Runs, NEW registry \in Registries,
           InPhase(run, registry, "lookup") \/ InPhase(run, registry, "publish")
    PROVE  /\ job[run][registry].at \in Archives
           /\ packed[run] \in Artifacts
           /\ packed[run] # None
           /\ \A archive \in Archives : archive < job[run][registry].at =>
                 /\ held[registry][archive] = packed[run][archive]
                 /\ held[registry][archive] # None
<1>1. /\ job[run][registry].at \in Archives
      /\ packed[run] \in Artifacts
      /\ \A archive \in Archives : archive < job[run][registry].at =>
            held[registry][archive] = packed[run][archive]
  BY DEF PublishInv, PassedInv, Passed
<1>2. packed[run] # None
  BY Phases DEF PublishInv, TypeOK, InPhase
<1>3. QED
  BY <1>1, <1>2, NoneAssumption DEF Artifacts

\* The steps that leave a job failed, and with it nothing to show.
LEMMA FailedPassed ==
    ASSUME NEW run, NEW registry, job'[run][registry] = Failed
    PROVE  Passed(run, registry)'
BY Phases DEF Passed, InPhase

LEMMA WorkStep ==
    ASSUME PublishInv, NEW run \in Runs, NEW registry \in Registries,
           \/ ViewFinds(run, registry) \/ ViewFindsNothing(run, registry)
           \/ ViewFails(run, registry)
           \/ PublishSucceeds(run, registry) \/ AnswerLost(run, registry)
           \/ PublishFails(run, registry)
    PROVE  PublishInv'
<1> DEFINE at == job[run][registry].at
<1>1. InPhase(run, registry, "lookup") \/ InPhase(run, registry, "publish")
  BY DEF ViewFinds, ViewFindsNothing, ViewFails, PublishSucceeds, AnswerLost, PublishFails
<1>2. /\ at \in Archives /\ packed[run] \in Artifacts /\ packed[run] # None
      /\ \A archive \in Archives : archive < at =>
            held[registry][archive] = packed[run][archive] /\ held[registry][archive] # None
  BY <1>1, AtWork
<1>3. TypeOK
  BY DEF PublishInv
<1>4. CASE ViewFinds(run, registry)
  <2>1. CASE held[registry][at] = packed[run][at]
    <3>1. /\ Step(run, registry, NextArchive(at)) /\ packed' = packed /\ held' = held
      BY <1>4, <2>1 DEF ViewFinds, AfterFound
    <3>2. job'[run][registry] = NextArchive(at)
      BY <1>3, <3>1, StepsOne
    <3>3. Passed(run, registry)'
      BY <1>1, <2>1, <3>1, <3>2, LoopPasses
    <3> HIDE DEF at
    <3>4. QED
      BY <1>2, <3>1, <3>3, NextArchiveTyped, JobStep
  <2>2. CASE held[registry][at] # packed[run][at]
    <3>1. /\ Step(run, registry, Failed) /\ packed' = packed /\ held' = held
      BY <1>4, <2>2 DEF ViewFinds, AfterFound
    <3>2. QED
      BY <1>2, <1>3, <3>1, StepsOne, FailedPassed, JobStep
  <2>3. QED
    BY <2>1, <2>2
<1>5. CASE ViewFindsNothing(run, registry)
  <2>1. Step(run, registry, Publish(at)) /\ packed' = packed /\ held' = held
    BY <1>5 DEF ViewFindsNothing
  <2>2. job'[run][registry] = Publish(at)
    BY <1>3, <2>1, StepsOne
  <2>3. Passed(run, registry)'
    BY <1>2, <2>1, <2>2, Phases DEF Passed, InPhase
  <2> HIDE DEF at
  <2>4. QED
    BY <1>2, <2>1, <2>3, JobStep
<1>6. CASE ViewFails(run, registry) \/ PublishFails(run, registry)
  <2>1. Step(run, registry, Failed) /\ packed' = packed /\ held' = held
    BY <1>6 DEF ViewFails, PublishFails
  <2>2. QED
    BY <1>2, <1>3, <2>1, StepsOne, FailedPassed, JobStep
<1>7. ASSUME PublishSucceeds(run, registry) \/ AnswerLost(run, registry)
      PROVE  /\ held[registry][at] = None
             /\ held' = [held EXCEPT ![registry][at] = packed[run][at]]
             /\ packed' = packed
             /\ \A archive \in Archives : held[registry][archive] # None =>
                   held'[registry][archive] = held[registry][archive]
             /\ held'[registry][at] = packed[run][at]
  <2>1. /\ held[registry][at] = None
        /\ held' = [held EXCEPT ![registry][at] = packed[run][at]]
        /\ packed' = packed
    BY <1>7 DEF PublishSucceeds, AnswerLost
  <2> HIDE DEF at
  <2>2. QED
    BY <1>2, <1>3, <2>1 DEF TypeOK
<1>8. CASE PublishSucceeds(run, registry)
  <2>1. Step(run, registry, NextArchive(at))
    BY <1>8 DEF PublishSucceeds
  <2>2. Passed(run, registry)'
    BY <1>1, <1>3, <1>7, <1>8, <2>1, StepsOne, LoopPasses
  <2> HIDE DEF at
  <2>3. QED
    BY <1>2, <1>7, <1>8, <2>1, <2>2, NextArchiveTyped, JobStep
<1>9. CASE AnswerLost(run, registry)
  <2>1. Step(run, registry, Failed)
    BY <1>9 DEF AnswerLost
  <2>2. Passed(run, registry)'
    BY <1>3, <2>1, StepsOne, FailedPassed
  <2> HIDE DEF at
  <2>3. QED
    BY <1>2, <1>7, <1>9, <2>1, <2>2, JobStep
<1>10. QED
  BY <1>4, <1>5, <1>6, <1>8, <1>9

LEMMA PrepareStep ==
    ASSUME PublishInv, NEW run \in Runs, Prepare(run)
    PROVE  PublishInv'
<1>1. PICK artifact \in Artifacts, reachable \in Reachable :
        /\ packed' = [packed EXCEPT ![run] = artifact]
        /\ job' = [job EXCEPT ![run] = [registry \in Registries |->
                      IF registry \in reachable THEN Lookup(1) ELSE Skipped]]
        /\ held' = held
  BY DEF Prepare, Artifacts
<1>2. artifact # None /\ 1 \in Archives /\ \A archive \in Archives : ~(archive < 1)
  BY NoneAssumption, PackagesAssumption DEF Artifacts, Archives
<1>3. TypeOK'
  <2>1. packed' \in [Runs -> Artifacts \cup {None}]
    BY <1>1 DEF PublishInv, TypeOK
  <2>2. job' \in [Runs -> [Registries ->
                 {Skipped, Failed, Succeeded}
                     \cup {Lookup(a) : a \in Archives} \cup {Publish(a) : a \in Archives}]]
    BY <1>1, <1>2 DEF PublishInv, TypeOK
  <2>3. \A r \in Runs : packed'[r] = None => \A g \in Registries : job'[r][g] = Failed
    BY <1>1, <1>2 DEF PublishInv, TypeOK
  <2>4. QED
    BY <1>1, <2>1, <2>2, <2>3 DEF PublishInv, TypeOK
<1>4. PassedInv'
  <2>1. SUFFICES ASSUME NEW r \in Runs, NEW g \in Registries PROVE Passed(r, g)'
    BY DEF PassedInv
  <2>2. CASE r = run
    <3>1. packed'[run] = artifact /\ job'[run][g] \in {Lookup(1), Skipped}
      BY <1>1 DEF PublishInv, TypeOK
    <3>2. QED
      BY <1>2, <2>2, <3>1, Phases DEF Passed, InPhase
  <2>3. CASE r # run
    BY <1>1, <2>3, OthersKept DEF PublishInv, TypeOK
  <2>4. QED
    BY <2>2, <2>3
<1>5. QED
  BY <1>3, <1>4 DEF PublishInv

LEMMA PrepareFailsStep ==
    ASSUME PublishInv, NEW run \in Runs, PrepareFails(run)
    PROVE  PublishInv'
<1>1. /\ packed' = [packed EXCEPT ![run] = None]
      /\ job' = [job EXCEPT ![run] = [registry \in Registries |-> Failed]]
      /\ held' = held
  BY DEF PrepareFails
<1>2. TypeOK'
  BY <1>1 DEF PublishInv, TypeOK
<1>3. PassedInv'
  <2>1. SUFFICES ASSUME NEW r \in Runs, NEW g \in Registries PROVE Passed(r, g)'
    BY DEF PassedInv
  <2>2. CASE r = run
    BY <1>1, <2>2, FailedPassed DEF PublishInv, TypeOK
  <2>3. CASE r # run
    BY <1>1, <2>3, OthersKept DEF PublishInv, TypeOK
  <2>4. QED
    BY <2>2, <2>3
<1>4. QED
  BY <1>2, <1>3 DEF PublishInv

\* Which jobs start again, and that the others stay where they are.
LEMMA RerunMoves ==
    ASSUME TypeOK, NEW run \in Runs, Rerun(run)
    PROVE  /\ packed' = packed /\ held' = held /\ packed[run] # None
           /\ \E again \in SUBSET Registries :
                 /\ \E registry \in Registries : registry \in again
                 /\ job' = [job EXCEPT ![run] = [registry \in Registries |->
                              IF registry \in again THEN Lookup(1) ELSE job[run][registry]]]
                 /\ \A r \in Runs, g \in Registries :
                       job'[r][g] = IF r = run /\ g \in again THEN Lookup(1) ELSE job[r][g]
<1>1. PICK again \in {{registry \in Registries : InPhase(run, registry, "failed")}}
                         \cup {{registry} : registry \in Registries} :
        /\ again # {}
        /\ job' = [job EXCEPT ![run] = [registry \in Registries |->
                      IF registry \in again THEN Lookup(1) ELSE job[run][registry]]]
  BY DEF Rerun
<1>2. again \in SUBSET Registries
  BY <1>1
<1>3. \A r \in Runs, g \in Registries :
        job'[r][g] = IF r = run /\ g \in again THEN Lookup(1) ELSE job[r][g]
  BY <1>1 DEF TypeOK
<1>4. \E registry \in Registries : registry \in again
  BY <1>1, <1>2
<1>5. packed' = packed /\ held' = held /\ packed[run] # None
  BY DEF Rerun
<1>6. QED
  BY <1>1, <1>2, <1>3, <1>4, <1>5

LEMMA RerunStep ==
    ASSUME PublishInv, NEW run \in Runs, Rerun(run)
    PROVE  PublishInv'
<1>0. TypeOK
  BY DEF PublishInv
<1>1. PICK again \in SUBSET Registries :
        /\ packed' = packed /\ held' = held /\ packed[run] # None
        /\ job' = [job EXCEPT ![run] = [registry \in Registries |->
                     IF registry \in again THEN Lookup(1) ELSE job[run][registry]]]
        /\ \A r \in Runs, g \in Registries :
              job'[r][g] = IF r = run /\ g \in again THEN Lookup(1) ELSE job[r][g]
  BY <1>0, RerunMoves
<1>2. packed[run] \in Artifacts /\ 1 \in Archives /\ \A archive \in Archives : ~(archive < 1)
  BY <1>0, <1>1, PackagesAssumption DEF TypeOK, Archives
<1>3. TypeOK'
  <2> DEFINE Where == {Skipped, Failed, Succeeded}
                         \cup {Lookup(a) : a \in Archives} \cup {Publish(a) : a \in Archives}
             jobs == [registry \in Registries |->
                        IF registry \in again THEN Lookup(1) ELSE job[run][registry]]
  <2>1. job \in [Runs -> [Registries -> Where]] /\ Lookup(1) \in Where
    BY <1>0, <1>2 DEF TypeOK
  <2>2. jobs \in [Registries -> Where] /\ job' = [job EXCEPT ![run] = jobs]
    <3> HIDE DEF Where
    <3> QED BY <1>1, <2>1
  <2>3. job' \in [Runs -> [Registries -> Where]]
    <3> HIDE DEF Where, jobs
    <3> QED BY <2>1, <2>2
  <2>4. ASSUME NEW r \in Runs, packed'[r] = None, NEW g \in Registries
        PROVE  job'[r][g] = Failed
    BY <1>0, <1>1, <2>4 DEF TypeOK
  <2>5. QED
    BY <1>0, <1>1, <2>3, <2>4 DEF TypeOK
<1>4. PassedInv'
  <2>1. SUFFICES ASSUME NEW r \in Runs, NEW g \in Registries PROVE Passed(r, g)'
    BY DEF PassedInv
  <2>2. CASE job'[r][g] = job[r][g]
    BY <1>1, <2>2, OthersKept
  <2>3. CASE r = run /\ job'[r][g] = Lookup(1)
    BY <1>1, <1>2, <2>3, Phases DEF Passed, InPhase
  <2>4. QED
    BY <1>1, <2>2, <2>3
<1>5. QED
  BY <1>3, <1>4 DEF PublishInv

LEMMA PublishStep ==
    ASSUME PublishInv, [Next]_vars
    PROVE  PublishInv'
<1>1. CASE UNCHANGED vars
  BY <1>1 DEF vars, PublishInv, TypeOK, PassedInv, Passed, InPhase
<1>2. CASE Next
  BY <1>2, PrepareStep, PrepareFailsStep, RerunStep, WorkStep DEF Next
<1>3. QED
  BY <1>1, <1>2

-----------------------------------------------------------------------------

\* A job that is green has passed every archive.
LEMMA GreenHolds == PublishInv => GreenJobPublished
<1>1. SUFFICES ASSUME PublishInv, NEW run \in Runs, NEW registry \in Registries,
                      InPhase(run, registry, "succeeded")
               PROVE  held[registry] = packed[run]
  BY DEF GreenJobPublished
<1>2. /\ packed[run] \in Artifacts
      /\ \A archive \in Archives : held[registry][archive] = packed[run][archive]
  BY <1>1 DEF PublishInv, PassedInv, Passed
<1>3. held[registry] \in [Archives -> Shasums \cup {None}]
  BY <1>1 DEF PublishInv, TypeOK
<1>4. QED
  BY <1>2, <1>3 DEF Artifacts

LEMMA GreenHoldsNext == PublishInv' => GreenJobPublished'
BY GreenHolds, PTL

\* A green job's registry holds exactly what its run prepared (publish_packages.sh 7-9).
THEOREM GreenJobs == Spec => []GreenJobPublished
BY GreenHolds, PublishInit, PublishStep, PTL DEF Spec

-----------------------------------------------------------------------------
(* The ledger.                                                             *)

\* What is reported changes with the phase of the one job that takes a step.
LEMMA ReportMoves ==
    ASSUME TypeOK, NEW run \in Runs, NEW registry \in Registries, NEW next,
           Step(run, registry, next), job[run][registry].phase # "succeeded"
    PROVE  Green' = IF next.phase = "succeeded" THEN Green \cup {<<run, registry>>} ELSE Green
<1>1. \A r \in Runs, g \in Registries :
        /\ r = run /\ g = registry => job'[r][g] = next
        /\ r # run \/ g # registry => job'[r][g] = job[r][g]
  BY StepsOne
<1>2. ASSUME NEW report \in Runs \X Registries
      PROVE  /\ report[1] \in Runs /\ report[2] \in Registries
             /\ report = <<run, registry>> <=> report[1] = run /\ report[2] = registry
  BY <1>2
<1>3. <<run, registry>> \in Runs \X Registries
  OBVIOUS
<1>4. QED
  BY <1>1, <1>2, <1>3 DEF Green, InPhase

\* A run that is prepared, or fails to be, has none of its jobs green.
LEMMA OffersAnew ==
    ASSUME TypeOK, NEW run \in Runs, NEW jobs \in [Registries -> {Lookup(1), Skipped, Failed}],
           NEW packing \in Artifacts \cup {None},
           packed' = [packed EXCEPT ![run] = packing],
           job' = [job EXCEPT ![run] = jobs], held' = held
    PROVE  Ledger!Offer(run)
<1>1. \A r \in Runs, g \in Registries :
        /\ r = run => job'[r][g].phase # "succeeded"
        /\ r # run => job'[r][g] = job[r][g]
  BY Phases DEF TypeOK
<1>2. \A report \in Runs \X Registries : report[1] \in Runs /\ report[2] \in Registries
  OBVIOUS
<1>3. Green' = {report \in Green : report[1] # run}
  BY <1>1, <1>2 DEF Green, InPhase
<1>4. QED
  BY <1>3 DEF Ledger!Offer, Ledger!Packings, Ledger!Archives, Artifacts, Archives

\* The loop at an archive its registry has, with the run's bytes: the last one is reported.
LEMMA FoundReports ==
    ASSUME PublishInv, PublishInv', NEW run \in Runs, NEW registry \in Registries,
           ViewFinds(run, registry)
    PROVE  Ledger!Report(run, registry) \/ UNCHANGED <<packed, held, Green>>
<1>1. TypeOK /\ packed' = packed /\ held' = held /\ InPhase(run, registry, "lookup")
  BY DEF ViewFinds, PublishInv
<1>2. PICK next : /\ Step(run, registry, next)
                  /\ next = Failed \/ next = Succeeded \/ \E a : next = Lookup(a)
  BY DEF ViewFinds, AfterFound, NextArchive
<1>3. job'[run][registry] = next /\ packed[run] # None
  BY <1>1, <1>2, StepsOne, AtWork
<1>4. Green' = IF next.phase = "succeeded" THEN Green \cup {<<run, registry>>} ELSE Green
  BY <1>1, <1>2, ReportMoves DEF InPhase
<1>5. CASE next = Succeeded
  <2>1. held[registry] = packed[run]
    BY <1>1, <1>3, <1>5, GreenHoldsNext, Phases DEF GreenJobPublished, InPhase
  <2>2. QED
    BY <1>1, <1>3, <1>4, <1>5, <2>1, Phases DEF Ledger!Report, Ledger!Complete
<1>6. CASE next # Succeeded
  BY <1>1, <1>2, <1>4, <1>6, Phases
<1>7. QED
  BY <1>5, <1>6

\* The archive a job publishes comes after all of its packing before it.
LEMMA PublicationTakes ==
    ASSUME PublishInv, PublishInv', NEW run \in Runs, NEW registry \in Registries,
           PublishSucceeds(run, registry) \/ AnswerLost(run, registry)
    PROVE  Ledger!Take(run, registry)
<1> DEFINE at == job[run][registry].at
<1>1. /\ TypeOK /\ packed' = packed /\ InPhase(run, registry, "publish")
      /\ held[registry][at] = None
      /\ held' = [held EXCEPT ![registry][at] = packed[run][at]]
  BY DEF PublishSucceeds, AnswerLost, PublishInv
<1>2. /\ at \in Archives /\ packed[run] \in Artifacts /\ packed[run] # None
      /\ \A archive \in Archives : archive < at => held[registry][archive] = packed[run][archive]
  BY <1>1, AtWork
<1>3. PICK next : /\ Step(run, registry, next)
                  /\ next = Failed \/ next = Succeeded \/ \E a : next = Lookup(a)
  BY DEF PublishSucceeds, AnswerLost, NextArchive
<1>4. Green' = IF next.phase = "succeeded" THEN Green \cup {<<run, registry>>} ELSE Green
  BY <1>1, <1>3, ReportMoves DEF InPhase
<1> HIDE DEF at
<1>5. next = Succeeded => held'[registry] = packed'[run]
  BY <1>1, <1>3, StepsOne, GreenHoldsNext, Phases DEF GreenJobPublished, InPhase
<1>6. \/ Green' = Green
      \/ held'[registry] = packed'[run] /\ Green' = Green \cup {<<run, registry>>}
  BY <1>3, <1>4, <1>5, Phases
<1>7. QED
  BY <1>1, <1>2, <1>6 DEF Ledger!Take, Ledger!Complete, Ledger!Archives, Archives

\* Every step of a run is one of the ledger's, or is not seen there.
LEMMA LedgerStep ==
    ASSUME PublishInv, [Next]_vars
    PROVE  [Ledger!Next]_(Ledger!vars)
<1>1. PublishInv' /\ TypeOK
  BY PublishStep DEF PublishInv
<1>2. CASE UNCHANGED vars
  BY <1>2 DEF vars, Ledger!vars, Green, InPhase
<1>3. ASSUME NEW run \in Runs, Prepare(run) \/ PrepareFails(run)
      PROVE  Ledger!Next
  <2>1. CASE Prepare(run)
    <3>1. PICK artifact \in Artifacts, reachable \in Reachable :
            /\ packed' = [packed EXCEPT ![run] = artifact]
            /\ job' = [job EXCEPT ![run] = [registry \in Registries |->
                          IF registry \in reachable THEN Lookup(1) ELSE Skipped]]
            /\ held' = held
      BY <2>1 DEF Prepare, Artifacts
    <3>2. QED
      BY <1>1, <3>1, OffersAnew DEF Ledger!Next
  <2>2. CASE PrepareFails(run)
    BY <1>1, <2>2, OffersAnew DEF PrepareFails, Ledger!Next
  <2>3. QED
    BY <1>3, <2>1, <2>2
<1>4. ASSUME NEW run \in Runs, Rerun(run)
      PROVE  Ledger!Next
  <2>1. PICK again \in SUBSET Registries :
          /\ packed' = packed /\ held' = held
          /\ \A r \in Runs, g \in Registries :
                job'[r][g] = IF r = run /\ g \in again THEN Lookup(1) ELSE job[r][g]
    BY <1>1, <1>4, RerunMoves
  <2>2. ASSUME NEW report \in Runs \X Registries
        PROVE  /\ report[1] \in Runs /\ report[2] \in Registries
               /\ report \in {run} \X again <=> report[1] = run /\ report[2] \in again
    BY <2>2
  <2>3. Green' = Green \ ({run} \X again)
    BY <2>1, <2>2, Phases DEF Green, InPhase
  <2>4. QED
    BY <2>1, <2>3 DEF Ledger!Next, Ledger!Withdraw
<1>5. ASSUME NEW run \in Runs, NEW registry \in Registries,
             \/ ViewFindsNothing(run, registry) \/ ViewFails(run, registry)
             \/ PublishFails(run, registry)
      PROVE  UNCHANGED <<packed, held, Green>>
  <2>1. PICK next : Step(run, registry, next) /\ next.phase # "succeeded"
    BY <1>5, Phases DEF ViewFindsNothing, ViewFails, PublishFails
  <2>2. QED
    BY <1>1, <1>5, <2>1, ReportMoves DEF ViewFindsNothing, ViewFails, PublishFails, InPhase
<1>6. QED
  BY <1>1, <1>2, <1>3, <1>4, <1>5, FoundReports, PublicationTakes
     DEF Next, Ledger!Next, Ledger!vars

\* Whatever was there before: a registry takes an archive from a run only once it holds all
\* the run's earlier ones with the run's bytes, nothing it holds is ever replaced, and what a
\* run reports of a registry stays true until the job is run again (publish_packages.sh 7-9).
THEOREM LedgerKept == Spec => KeepsLedger
<1>1. Init => Ledger!Init
  <2>1. Init => Green = {}
    BY Phases DEF Init, Green, InPhase
  <2>2. QED
    BY <2>1 DEF Init, Ledger!Init, Ledger!Archives, Archives
<1>2. QED
  BY <1>1, PublishInit, PublishStep, LedgerStep, PTL DEF Spec, KeepsLedger, Ledger!Spec

-----------------------------------------------------------------------------

\* Jobs and registries hold what their types say, whatever is repeated or lost.
THEOREM TypeCorrect == Spec => []TypeOK
<1>1. PublishInv => TypeOK
  BY DEF PublishInv
<1>2. QED
  BY <1>1, PublishInit, PublishStep, PTL DEF Spec

\* Not every job of a run is skipped: `prepare` refuses a release that reaches nothing.
NotAllSkipped ==
    \A run \in Runs : \E registry \in Registries : ~InPhase(run, registry, "skipped")

\* A job at work never becomes a skipped one.
LEMMA WorkNotSkipped ==
    ASSUME TypeOK, NotAllSkipped, NEW run \in Runs, NEW registry \in Registries, NEW next,
           Step(run, registry, next), next.phase # "skipped"
    PROVE  NotAllSkipped'
<1>1. SUFFICES ASSUME NEW r \in Runs
               PROVE  \E g \in Registries : job'[r][g].phase # "skipped"
  BY DEF NotAllSkipped, InPhase
<1>2. PICK g \in Registries : job[r][g].phase # "skipped"
  BY DEF NotAllSkipped, InPhase
<1>3. QED
  BY <1>2, StepsOne

LEMMA NotAllSkippedStep ==
    ASSUME TypeOK, NotAllSkipped, [Next]_vars
    PROVE  NotAllSkipped'
<1>1. CASE UNCHANGED vars
  BY <1>1 DEF vars, NotAllSkipped, InPhase
<1>2. ASSUME NEW run \in Runs, Prepare(run)
      PROVE  NotAllSkipped'
  <2>1. PICK reachable \in Reachable :
          job' = [job EXCEPT ![run] = [registry \in Registries |->
                    IF registry \in reachable THEN Lookup(1) ELSE Skipped]]
    BY <1>2 DEF Prepare
  <2>2. PICK g \in Registries : g \in reachable
    BY DEF Reachable
  <2>3. job'[run][g] = Lookup(1) /\ \A r \in Runs : r # run => job'[r] = job[r]
    BY <2>1, <2>2 DEF TypeOK
  <2>4. QED
    BY <2>3, Phases DEF NotAllSkipped, InPhase
<1>3. ASSUME NEW run \in Runs, PrepareFails(run)
      PROVE  NotAllSkipped'
  <2>1. /\ \A g \in Registries : job'[run][g] = Failed
        /\ \A r \in Runs : r # run => job'[r] = job[r]
    BY <1>3 DEF PrepareFails, TypeOK
  <2>2. QED
    BY <2>1, Phases, RegistriesAssumption DEF NotAllSkipped, InPhase
<1>4. ASSUME NEW run \in Runs, Rerun(run)
      PROVE  NotAllSkipped'
  <2>1. PICK again \in SUBSET Registries :
          /\ \E registry \in Registries : registry \in again
          /\ \A r \in Runs, g \in Registries :
                job'[r][g] = IF r = run /\ g \in again THEN Lookup(1) ELSE job[r][g]
    BY <1>4, RerunMoves
  <2>2. QED
    BY <2>1, Phases DEF NotAllSkipped, InPhase
<1>5. ASSUME NEW run \in Runs, NEW registry \in Registries, NEW next,
             Step(run, registry, next),
             \/ next \in {Failed, Succeeded}
             \/ \E a : next \in {Lookup(a), Publish(a)}
      PROVE  NotAllSkipped'
  BY <1>5, Phases, WorkNotSkipped
<1>6. \A a : NextArchive(a) = Succeeded \/ \E b : NextArchive(a) = Lookup(b)
  BY DEF NextArchive
<1>7. ASSUME NEW run \in Runs, NEW registry \in Registries,
             \/ ViewFinds(run, registry) \/ ViewFindsNothing(run, registry)
             \/ ViewFails(run, registry)
             \/ PublishSucceeds(run, registry) \/ AnswerLost(run, registry)
             \/ PublishFails(run, registry)
      PROVE  NotAllSkipped'
  <2>1. PICK next : /\ Step(run, registry, next)
                    /\ \/ next \in {Failed, Succeeded}
                       \/ \E a : next \in {Lookup(a), Publish(a)}
    BY <1>6, <1>7 DEF ViewFinds, ViewFindsNothing, ViewFails, PublishSucceeds, AnswerLost,
                      PublishFails, AfterFound
  <2>2. QED
    BY <1>5, <2>1
<1>8. QED
  BY <1>1, <1>2, <1>3, <1>4, <1>7 DEF Next

\* A green workflow published an installable release somewhere (release.yml, `prepare`
\* fails when no registry can be reached).
THEOREM GreenRelease == Spec => []GreenReleaseExists
<1>1. Init => NotAllSkipped
  <2>1. Init => \A run \in Runs, registry \in Registries : job[run][registry].phase = "failed"
    BY Phases DEF Init
  <2>2. QED
    BY <2>1, RegistriesAssumption DEF NotAllSkipped, InPhase
<1>2. PublishInv /\ NotAllSkipped => GreenReleaseExists
  <2>1. SUFFICES ASSUME PublishInv, NotAllSkipped, NEW run \in Runs,
                        \A registry \in Registries :
                          job[run][registry].phase \in {"skipped", "succeeded"}
                 PROVE  \E registry \in Registries : held[registry] = packed[run]
    BY DEF GreenReleaseExists
  <2>2. PICK registry \in Registries : InPhase(run, registry, "succeeded")
    BY <2>1 DEF NotAllSkipped, InPhase
  <2>3. /\ packed[run] \in [Archives -> Shasums]
        /\ \A archive \in Archives : held[registry][archive] = packed[run][archive]
        /\ held[registry] \in [Archives -> Shasums \cup {None}]
    BY <2>1, <2>2 DEF PublishInv, PassedInv, Passed, TypeOK, Artifacts
  <2>4. QED
    BY <2>3
<1>3. PublishInv => TypeOK
  BY DEF PublishInv
<1>4. PublishInv /\ NotAllSkipped /\ [Next]_vars => PublishInv' /\ NotAllSkipped'
  BY <1>3, PublishStep, NotAllSkippedStep
<1>5. QED
  BY <1>1, <1>2, <1>4, PublishInit, PTL DEF Spec
=============================================================================
