-------------------------- MODULE MCRuntimeSession --------------------------
(* RuntimeSession on small sets.  Identifiers, candidates, capabilities,     *)
(* subjects and computations are model values the kernel only compares, so   *)
(* each set of them is symmetric.                                            *)
EXTENDS SessionLifecycle, TLC

Symmetry == Permutations(ProposalIds) \union Permutations(Candidates)
              \union Permutations(Capabilities) \union Permutations(Subjects)
              \union Permutations(Computations)

(* No action reads `outcome` and no property reads it unprimed; where nothing *)
(* crashes a seated session never goes back to `stored`.  States that differ  *)
(* in those alone have the same future.                                       *)
View == <<running, durable, held, history,
          IF running THEN {} ELSE {stored}>>

CrashView == <<running, durable, held, stored, crashes, history>>
=============================================================================
