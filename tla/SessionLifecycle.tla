-------------------------- MODULE SessionLifecycle --------------------------
(***************************************************************************)
(* RuntimeSession implements ProposalLifecycle: the stage of a proposal    *)
(* number, read off the session's state and what it emitted.               *)
(***************************************************************************)
EXTENDS RuntimeSession

AdmissionsOf(n) == {a \in admitted : a.origin = n}

EffectsOf(n) == {e \in effects : \E a \in AdmissionsOf(n) : e.admission = a.seq}

StageOf(n) ==
  IF \A envelope \in proposed : envelope.seq # n THEN "unused"
  ELSE IF \E envelope \in pending : envelope.seq = n THEN "pending"
  ELSE IF \E a \in held : a.origin = n THEN "admitted"
  ELSE IF EffectsOf(n) # {} THEN "dispatched"
  ELSE IF AdmissionsOf(n) # {} THEN "lost"
  ELSE "refused"

Lifecycle == INSTANCE ProposalLifecycle WITH
  Numbers   <- Sequences,
  Payloads  <- Candidates,
  Recovers  <- MaxCrashes > 0,
  stage     <- [n \in Sequences |-> StageOf(n)],
  payload   <- [n \in Sequences |-> {e.content : e \in {p \in proposed : p.seq = n}}],
  delivered <- [n \in Sequences |-> {e.content : e \in EffectsOf(n)}]

\* Every step of a session is a step of the lifecycle of the proposals it touches, or
\* changes none of them; a restart takes something back only where there are crashes
\* (session.rs propose, admit, dispatch, restore).
RefinesLifecycle == Lifecycle!Spec
=============================================================================
