--------------------------- MODULE ReleaseLedger ---------------------------
(***************************************************************************)
(* What the publication of a release promises a consumer of a registry and *)
(* a reader of the workflow: what a registry holds is never replaced; a    *)
(* run adds to it the archives of its packing in order, none after one     *)
(* that is missing or has other bytes; and a run reports success at a      *)
(* registry that holds exactly what the run packed.  What a registry held  *)
(* before any of these runs is not theirs to promise: archives may be left *)
(* by an earlier release, a later one without the earlier.                 *)
(***************************************************************************)
EXTENDS Naturals

CONSTANTS
    Runs,        \* workflow runs of one release
    Registries,
    Packages,    \* how many archives a packing has
    Shasums,     \* what the bytes of an archive may be
    None

VARIABLES
    offered,  \* run -> the packing it publishes, or None
    held,     \* registry -> archive -> the bytes it holds, or None
    green     \* the runs that reported success, each with the registry

vars == <<offered, held, green>>

Archives == 1 .. Packages
Packings == [Archives -> Shasums]

Init == /\ offered = [run \in Runs |-> None]
        /\ held \in [Registries -> [Archives -> Shasums \cup {None}]]
        /\ green = {}

\* A run that packs anew, or fails to, takes back what it reported.
Offer(run) ==
    /\ \E packing \in Packings \cup {None} : offered' = [offered EXCEPT ![run] = packing]
    /\ green' = {report \in green : report[1] # run}
    /\ UNCHANGED held

Complete(run, registry) == offered[run] # None /\ held[registry] = offered[run]

Report(run, registry) ==
    /\ Complete(run, registry)
    /\ green' = green \cup {<<run, registry>>}
    /\ UNCHANGED <<offered, held>>

\* Jobs that start again take back what they reported.
Withdraw(run, again) ==
    /\ green' = green \ ({run} \X again)
    /\ UNCHANGED <<offered, held>>

\* A registry that holds a packing up to an archive takes that one.
Take(run, registry) ==
    /\ offered[run] # None
    /\ \E next \in Archives :
          /\ held[registry][next] = None
          /\ \A archive \in Archives :
                archive < next => held[registry][archive] = offered[run][archive]
          /\ held' = [held EXCEPT ![registry][next] = offered[run][next]]
    /\ \/ UNCHANGED green
       \/ Complete(run, registry)' /\ green' = green \cup {<<run, registry>>}
    /\ UNCHANGED offered

Next == \E run \in Runs :
           \/ Offer(run)
           \/ \E again \in SUBSET Registries : Withdraw(run, again)
           \/ \E registry \in Registries : Report(run, registry) \/ Take(run, registry)

Spec == Init /\ [][Next]_vars
=============================================================================
