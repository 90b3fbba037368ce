-------------------------- MODULE PublishPackages --------------------------
(***************************************************************************)
(* The publication of a release: workflow runs that prepare tarballs once  *)
(* and hand them to one job per registry, each of which runs               *)
(* scripts/publish_packages.sh over them in order. A step of any job may   *)
(* fail, a runner may die between two of them, runs of one release may     *)
(* overlap (the workflow names no concurrency group), and a run may be     *)
(* repeated: in full, where it failed, or one job of it.                   *)
(*                                                                         *)
(* A package has a version of its own, which a release leaves as it is     *)
(* when its contents did not change (docs/releasing.md): registries may    *)
(* hold any of the archives from an earlier release, whatever their bytes. *)
(*                                                                         *)
(* The registries, npm and GitHub's scheduling are external: what they     *)
(* answer is modelled as widely as the script provides for.                *)
(***************************************************************************)
EXTENDS Naturals

CONSTANTS
    Runs,        \* workflow runs of one release
    Registries,  \* public npm and GitHub Packages
    Packages,    \* how many tarballs a release holds; the glob orders them 1 .. Packages
    Shasums,     \* what a tarball's bytes may be: packing again may give others
    None         \* an absent value

ASSUME PackagesAssumption == Packages \in Nat \ {0}
ASSUME RegistriesAssumption == Registries # {}
ASSUME NoneAssumption == None \notin Shasums /\ None \notin [1 .. Packages -> Shasums]

VARIABLES
    packed,  \* run -> the artifact its publishing jobs download, or None: not prepared
    job,     \* run -> registry -> where its publishing job is
    held     \* registry -> archive -> the shasum it holds of the version that archive names, or None

vars == <<packed, job, held>>

-----------------------------------------------------------------------------

Archives == 1 .. Packages

\* A publishing job: skipped, or at an archive it looks up or publishes, or over.
Skipped == [phase |-> "skipped", at |-> 1]
Failed == [phase |-> "failed", at |-> 1]
Succeeded == [phase |-> "succeeded", at |-> 1]
Lookup(a) == [phase |-> "lookup", at |-> a]
Publish(a) == [phase |-> "publish", at |-> a]

\* The end of one pass of the loop.
NextArchive(archive) == IF archive < Packages THEN Lookup(archive + 1) ELSE Succeeded

\* Mutant: an archive already there passes, whatever its bytes.
AfterFound_AnyBytes(archive, remote, local) == NextArchive(archive)

\* Mutant: a conflict is reported and the loop goes on with the next archive.
AfterFound_GoesOn(archive, remote, local) ==
    IF remote = local \/ archive < Packages THEN NextArchive(archive) ELSE Failed

\* The registry answered with a shasum: identical bytes are skipped, others fail closed.
AfterFound(archive, remote, local) ==
    IF remote = local THEN NextArchive(archive) ELSE Failed

Step(run, registry, next) == job' = [job EXCEPT ![run][registry] = next]

InPhase(run, registry, phase) == job[run][registry].phase = phase
Finished(run) ==
    \A registry \in Registries :
        job[run][registry].phase \in {"skipped", "failed", "succeeded"}

\* Nothing is prepared. What registries hold was published by earlier releases.
Init == /\ packed = [run \in Runs |-> None]
        /\ job = [run \in Runs |-> [registry \in Registries |-> Failed]]
        /\ held \in [Registries -> [Archives -> Shasums \cup {None}]]

\* Mutant: nothing stops a release that reaches no registry.
Reachable_Any == SUBSET Registries

\* The registries a release can reach; reaching none is an error of `prepare`.
Reachable == (SUBSET Registries) \ {{}}

\* The guard passed and `npm pack` ran: the artifact is what it is, and the jobs of the
\* registries this release can reach start with their first archive. Also the rerun of all
\* jobs of a finished run.
Prepare(run) ==
    /\ Finished(run)
    /\ \E artifact \in [Archives -> Shasums], reachable \in Reachable :
          /\ packed' = [packed EXCEPT ![run] = artifact]
          /\ job' = [job EXCEPT ![run] = [registry \in Registries |->
                        IF registry \in reachable THEN Lookup(1) ELSE Skipped]]
    /\ UNCHANGED held

\* Mutant: jobs that were green stay green when the run is prepared anew and that fails.
PrepareFails_KeepsJobs(run) ==
    /\ Finished(run)
    /\ packed' = [packed EXCEPT ![run] = None]
    /\ UNCHANGED <<job, held>>

\* The guard, the registries or the packing refused: nothing is published.
PrepareFails(run) ==
    /\ Finished(run)
    /\ packed' = [packed EXCEPT ![run] = None]
    /\ job' = [job EXCEPT ![run] = [registry \in Registries |-> Failed]]
    /\ UNCHANGED held

\* Jobs of a prepared run are run again, on the same artifact: those that failed, or one
\* of them however it ended. A skipped one is skipped again.
Rerun(run) ==
    /\ Finished(run)
    /\ packed[run] # None
    /\ \E again \in {{registry \in Registries : InPhase(run, registry, "failed")}}
                         \cup {{registry} : registry \in Registries} :
          /\ again # {} /\ \A registry \in again : ~InPhase(run, registry, "skipped")
          /\ job' = [job EXCEPT ![run] = [registry \in Registries |->
                        IF registry \in again THEN Lookup(1) ELSE job[run][registry]]]
    /\ UNCHANGED <<packed, held>>

\* npm view answered with the shasum of what is there.
ViewFinds(run, registry) ==
    LET archive == job[run][registry].at
    IN  /\ InPhase(run, registry, "lookup")
        /\ held[registry][archive] # None
        /\ Step(run, registry,
                AfterFound(archive, held[registry][archive], packed[run][archive]))
        /\ UNCHANGED <<packed, held>>

\* npm view answered 404; it may not have heard of a publication that just happened.
ViewFindsNothing(run, registry) ==
    /\ InPhase(run, registry, "lookup")
    /\ Step(run, registry, Publish(job[run][registry].at))
    /\ UNCHANGED <<packed, held>>

\* npm view failed otherwise: whether the version exists is unknown, so the job fails.
ViewFails(run, registry) ==
    /\ InPhase(run, registry, "lookup")
    /\ Step(run, registry, Failed)
    /\ UNCHANGED <<packed, held>>

\* npm publish: a registry takes a version once.
PublishSucceeds(run, registry) ==
    LET archive == job[run][registry].at
    IN  /\ InPhase(run, registry, "publish")
        /\ held[registry][archive] = None
        /\ held' = [held EXCEPT ![registry][archive] = packed[run][archive]]
        /\ Step(run, registry, NextArchive(archive))
        /\ UNCHANGED packed

\* npm publish reports an error although the registry took the archive.
AnswerLost(run, registry) ==
    LET archive == job[run][registry].at
    IN  /\ InPhase(run, registry, "publish")
        /\ held[registry][archive] = None
        /\ held' = [held EXCEPT ![registry][archive] = packed[run][archive]]
        /\ Step(run, registry, Failed)
        /\ UNCHANGED packed

\* npm publish fails, is refused because the version exists, or the runner dies: `set -e`.
PublishFails(run, registry) ==
    /\ InPhase(run, registry, "publish")
    /\ Step(run, registry, Failed)
    /\ UNCHANGED <<packed, held>>

Next == \E run \in Runs :
           \/ Prepare(run) \/ PrepareFails(run) \/ Rerun(run)
           \/ \E registry \in Registries :
                 \/ ViewFinds(run, registry) \/ ViewFindsNothing(run, registry)
                 \/ ViewFails(run, registry)
                 \/ PublishSucceeds(run, registry) \/ AnswerLost(run, registry)
                 \/ PublishFails(run, registry)

Spec == Init /\ [][Next]_vars

-----------------------------------------------------------------------------
(* The properties.                                                         *)

Artifacts == [Archives -> Shasums]

\* A run that is not prepared has no job at work or green, and a job is at one of the archives.
TypeOK ==
    /\ packed \in [Runs -> Artifacts \cup {None}]
    /\ job \in [Runs -> [Registries ->
                   {Skipped, Failed, Succeeded}
                       \cup {Lookup(a) : a \in Archives} \cup {Publish(a) : a \in Archives}]]
    /\ held \in [Registries -> [Archives -> Shasums \cup {None}]]
    /\ \A run \in Runs : packed[run] = None => \A registry \in Registries : job[run][registry] = Failed

\* A job that is green has its registry hold exactly the tarballs its run prepared, all of
\* them, however often it was repeated and whoever published beside it.
GreenJobPublished ==
    \A run \in Runs, registry \in Registries :
        InPhase(run, registry, "succeeded") => held[registry] = packed[run]

\* A green workflow published an installable release somewhere; it is never green with
\* nothing to install.
GreenReleaseExists ==
    \A run \in Runs :
        (\A registry \in Registries : job[run][registry].phase \in {"skipped", "succeeded"})
            => \E registry \in Registries : held[registry] = packed[run]

Green == {report \in Runs \X Registries : InPhase(report[1], report[2], "succeeded")}

Ledger == INSTANCE ReleaseLedger WITH offered <- packed, green <- Green

\* Whatever is repeated, overlaps, fails or was there before: a registry takes an archive
\* from a run only once it holds all the run's earlier ones with the run's bytes, and never
\* has one replaced. So a run that packed other bytes stops at its first archive that
\* differs. What a run reports of a registry stays true until the job is run again.
KeepsLedger == Ledger!Spec
=============================================================================
