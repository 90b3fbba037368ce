------------------------ MODULE SessionFailureProofs ------------------------
(***************************************************************************)
(* Theorems about what one step of a session may do: what a failure leaves *)
(* behind, what a permission is spent on, whose session it stays, what its *)
(* revision stands for, and that it moves proposals along their lifecycle. *)
(* For every value of the constants.                                       *)
(***************************************************************************)
EXTENDS SessionOrderProofs, SessionLifecycle

-----------------------------------------------------------------------------
(* What the kind of a failure says is what the call did.                   *)

\* A call that answers a failure of its own without a decision.
LEMMA AnswerMeans ==
  ASSUME NEW code \in ErrorCodes \union {"ok"}, Answer(code),
         code \in Withheld => FALSE, code \in Exhausted => AtCeiling
  PROVE  MeansItsKind
BY DEF Answer, MeansItsKind, NothingHappened, durable, history

\* A call that goes through with the revision bumped, or stops at its ceiling.
LEMMA BumpMeans ==
  ASSUME TypeOK, BumpRevision, UNCHANGED <<pending, proposed, admitted, effects>>
  PROVE  MeansItsKind
<1>1. outcome' = "ok" \/ (outcome' = "sequence_exhausted" /\ revision = MaxRevision)
  BY CountersAssumption DEF BumpRevision, HasNext, TypeOK
<1> QED
  BY <1>1 DEF MeansItsKind, AtCeiling, Unavailable, Gated, Rejected, Withheld, Exhausted,
     ErrorCodes

LEMMA OkMeans ==
  ASSUME outcome' = "ok"
  PROVE  MeansItsKind
BY DEF MeansItsKind, Unavailable, Gated, Rejected, Withheld, Exhausted, ErrorCodes

\* A round that fails at a ceiling is one the ceiling leaves no room for.
LEMMA RoundMeans ==
  ASSUME TypeOK, NEW size \in 0 .. MaxBatch, NEW batch, NEW minted,
         ProposeCandidates(size, batch, minted)
  PROVE  MeansItsKind
<1>1. sequence \in Nat /\ MaxBatch \in Nat /\ MaxSequence \in Nat /\ size \in Nat
  BY BatchAssumption, CountersAssumption DEF TypeOK
<1>2. CASE Answer("runtime_inactive")
  BY <1>2, AnswerMeans DEF ErrorCodes, Withheld, Exhausted
<1>3. ASSUME NEW i \in 1 .. size, StageError(minted, i) # "ok",
             Answer(StageError(minted, i))
      PROVE  MeansItsKind
  <2>1. StageError(minted, i) \in {"missing_context", "duplicate_proposal_id",
                                   "sequence_exhausted"}
    BY <1>3 DEF StageError
  <2>2. StageError(minted, i) = "sequence_exhausted" => AtCeiling
    <3> SUFFICES ASSUME StageError(minted, i) = "sequence_exhausted"
                 PROVE  sequence + MaxBatch > MaxSequence
      BY DEF AtCeiling
    <3>1. sequence + i > MaxSequence
      BY DEF StageError
    <3> QED
      BY <1>1, <3>1
  <2> QED
    BY <1>3, <2>1, <2>2, AnswerMeans DEF ErrorCodes, Withheld, Exhausted
<1>4. CASE ~HasNext(revision, MaxRevision) /\ Answer("sequence_exhausted")
  <2>1. AtCeiling
    BY <1>4, CountersAssumption DEF HasNext, TypeOK, AtCeiling
  <2> QED
    BY <1>4, <2>1, AnswerMeans DEF ErrorCodes, Withheld, Exhausted
<1>5. CASE CommitProposals(size, batch, minted)
  BY <1>5, OkMeans DEF CommitProposals
<1> QED
  BY <1>2, <1>3, <1>4, <1>5 DEF ProposeCandidates

\* A terminal decision takes one envelope, because no two share an identifier.
LEMMA DecideMeans ==
  ASSUME TypeOK, NEW envelope \in pending,
         \A f \in pending : f.id = envelope.id => f = envelope,
         NEW answer \in Capabilities \union {Withhold}, Decide(envelope, answer)
  PROVE  MeansItsKind
<1>1. Remove(pending, envelope.id) = pending \ {envelope}
  BY DEF Remove
<1>2. /\ UNCHANGED <<running, binding, scope, activation, stored, crashes, proposed, effects>>
      /\ decisions' = decisions \union {[proposal |-> envelope, answer |-> answer]}
  BY DEF Decide
<1>3. ASSUME NEW code \in Withheld, ReleaseDecided(envelope, code),
             UNCHANGED <<sequence, held, admitted>>,
             answer \in (IF code = "authority_withheld" THEN {Withhold}
                                                        ELSE Capabilities \ scope)
      PROVE  MeansItsKind
  <2>1. CASE HasNext(revision, MaxRevision)
    <3>1. /\ pending' = pending \ {envelope} /\ revision' = revision + 1
          /\ outcome' = code
      BY <1>1, <1>3, <2>1 DEF ReleaseDecided
    <3>2. outcome' \notin Unavailable \union Gated \union Rejected \union Exhausted
      BY <3>1 DEF Unavailable, Gated, Rejected, Withheld, Exhausted, ErrorCodes
    <3>3. DecidedAgainst(envelope, IF outcome' = "authority_withheld"
                                     THEN {Withhold} ELSE Capabilities \ scope)
      BY <1>2, <1>3, <3>1 DEF DecidedAgainst
    <3> QED
      BY <3>2, <3>3 DEF MeansItsKind
  <2>2. CASE ~HasNext(revision, MaxRevision)
    <3>1. revision = MaxRevision
      BY <2>2, CountersAssumption DEF HasNext, TypeOK
    <3>2. outcome' = "sequence_exhausted" /\ UNCHANGED pending
      BY <1>3, <2>2 DEF ReleaseDecided
    <3> QED
      BY <1>2, <1>3, <3>1, <3>2 DEF MeansItsKind, AtCeiling, Unavailable, Gated,
         Rejected, Withheld, Exhausted, ErrorCodes
  <2> QED
    BY <2>1, <2>2
<1>4. CASE answer = Withhold /\ ReleaseDecided(envelope, "authority_withheld")
           /\ UNCHANGED <<sequence, held, admitted>>
  BY <1>3, <1>4 DEF Withheld
<1>5. CASE answer # Withhold /\ ~Permits(answer)
           /\ ReleaseDecided(envelope, "authority_scope_exceeded")
           /\ UNCHANGED <<sequence, held, admitted>>
  <2>1. answer \in Capabilities \ scope
    BY <1>5 DEF Permits
  <2>2. "authority_scope_exceeded" # "authority_withheld"
    OBVIOUS
  <2> QED
    BY <1>3, <1>5, <2>1, <2>2 DEF Withheld
<1>6. CASE answer # Withhold /\ Grant(envelope, answer)
  <2>1. CASE HasNext(sequence, MaxSequence) /\ HasNext(revision, MaxRevision)
    BY <1>6, <2>1, OkMeans DEF Grant
  <2>2. CASE ~(HasNext(sequence, MaxSequence) /\ HasNext(revision, MaxRevision))
    <3>1. sequence = MaxSequence \/ revision = MaxRevision
      BY <2>2, CountersAssumption DEF HasNext, TypeOK
    <3>2. outcome' = "sequence_exhausted" /\ UNCHANGED <<pending, admitted>>
      BY <1>6, <2>2 DEF Grant
    <3> QED
      BY <1>2, <3>1, <3>2 DEF MeansItsKind, AtCeiling, Unavailable, Gated, Rejected,
         Withheld, Exhausted, ErrorCodes
  <2> QED
    BY <2>1, <2>2
<1> QED
  BY <1>4, <1>5, <1>6 DEF Decide

LEMMA DispatchMeans ==
  ASSUME TypeOK, NEW admission, Dispatch(admission)
  PROVE  MeansItsKind
<1>1. CASE outcome' = "ok"
  BY <1>1, OkMeans
<1>2. CASE outcome' # "ok"
  <2>1. /\ outcome' = "sequence_exhausted"
        /\ UNCHANGED <<pending, proposed, admitted, effects>>
    BY <1>2 DEF Dispatch, BumpRevision
  <2>2. revision = MaxRevision \/ sequence = MaxSequence
    BY <1>2, CountersAssumption DEF Dispatch, BumpRevision, HasNext, TypeOK
  <2> QED
    BY <2>1, <2>2 DEF MeansItsKind, AtCeiling, Unavailable, Gated, Rejected, Withheld,
       Exhausted, ErrorCodes
<1> QED
  BY <1>1, <1>2

\* Identifiers of pending envelopes are distinct, from the snapshot invariant.
LEMMA DistinctPending ==
  ASSUME TypeOK, SnapshotInv
  PROVE  \A e, f \in pending : e.id = f.id => e = f
<1>1. Snapshot \in SessionSnapshot
  BY SnapshotType
<1> QED
  BY <1>1, VerdictMeans DEF SnapshotInv, Snapshot

LEMMA StepMeans == TypeOK /\ SnapshotInv /\ [Next]_vars => [MeansItsKind]_vars
<1> SUFFICES ASSUME TypeOK, SnapshotInv, Next
             PROVE  MeansItsKind
  OBVIOUS
<1> USE DEF Withheld, Exhausted
<1>1. ASSUME NEW transition, ApplyActivation(transition) PROVE MeansItsKind
  BY <1>1, AnswerMeans, BumpMeans DEF ApplyActivation, history, ErrorCodes
<1>2. ASSUME NEW target, EnsureActivation(target) PROVE MeansItsKind
  BY <1>1, <1>2, AnswerMeans DEF EnsureActivation, ErrorCodes
<1>3. ASSUME NEW replacement, Rebind(replacement) PROVE MeansItsKind
  BY <1>3, AnswerMeans, BumpMeans DEF Rebind, history, ErrorCodes
<1>4. ASSUME NEW clockUp, Wake(clockUp) PROVE MeansItsKind
  BY <1>4, AnswerMeans, BumpMeans DEF Wake, history, ErrorCodes
<1>5. CASE InferenceUnavailable
  BY <1>5, AnswerMeans DEF InferenceUnavailable, ErrorCodes
<1>6. ASSUME NEW size \in 0 .. MaxBatch, NEW batch, NEW minted,
             ProposeCandidates(size, batch, minted)
      PROVE  MeansItsKind
  BY <1>6, RoundMeans
<1>7. ASSUME NEW id, NEW answer \in Capabilities \union {Withhold, PortDown},
             Admit(id, answer)
      PROVE  MeansItsKind
  <2>1. ASSUME NEW code \in {"runtime_inactive", "unknown_proposal", "missing_context"},
               Answer(code)
        PROVE  MeansItsKind
    BY <2>1, AnswerMeans DEF ErrorCodes
  <2>2. ASSUME NEW envelope \in pending, answer # PortDown, Decide(envelope, answer)
        PROVE  MeansItsKind
    <3>1. answer \in Capabilities \union {Withhold}
      BY <2>2
    <3> QED
      BY <2>2, <3>1, DistinctPending, DecideMeans
  <2> QED
    BY <1>7, <2>1, <2>2 DEF Admit
<1>8. ASSUME NEW admission, Dispatch(admission) PROVE MeansItsKind
  BY <1>8, DispatchMeans
<1>9. CASE IntoSnapshot \/ ProcessExit \/ TakeSnapshot \/ Crash
  BY <1>9, OkMeans DEF IntoSnapshot, ProcessExit, TakeSnapshot, Crash
<1>10. ASSUME NEW sameLine, Restore(sameLine) PROVE MeansItsKind
  <2>1. CASE Seat(stored)
    BY <2>1, OkMeans DEF Seat
  <2>2. RestoreVerdict(stored) = "ok"
    BY DEF SnapshotInv
  <2> QED
    BY <1>10, <2>1, <2>2, AnswerMeans DEF Restore, ErrorCodes
<1> QED
  BY <1>1, <1>2, <1>3, <1>4, <1>5, <1>6, <1>7, <1>8, <1>9, <1>10 DEF Next, Call

\* In every state and for every input, through any crashes and restores: a failure of
\* a port, a gate or a contradiction changed nothing; a decision against a proposal
\* took exactly that proposal; exhaustion met a ceiling and emitted nothing.
THEOREM FailuresMean == Spec => FailuresMeanTheirKind
BY TypeCorrect, InitSnapshot, StepSnapshot, StepMeans, PTL DEF Spec, FailuresMeanTheirKind

-----------------------------------------------------------------------------
(* Permissions: what leaves `held` is spent on an effect of its own.        *)

LEMMA DispatchSpends ==
  ASSUME TypeOK, OrderInv, NEW admission \in held, Dispatch(admission)
  PROVE  PermissionsSpent
<1>1. \A a \in held \ held' : a = admission
  BY DEF Dispatch, Consume
<1>2. CASE HasNext(sequence, MaxSequence) /\ HasNext(revision, MaxRevision)
  <2> DEFINE new == [seq |-> sequence + 1, content |-> admission.content,
                     admission |-> admission.seq]
  <2>1. new \in effects'
    BY <1>2 DEF Dispatch
  <2>2. new \notin effects
    <3>1. \A e \in effects : e.seq =< sequence /\ sequence \in Nat
      BY NumbersNat DEF OrderInv
    <3>2. new.seq = sequence + 1
      OBVIOUS
    <3> HIDE DEF new
    <3> QED
      BY <3>1, <3>2
  <2>3. new.admission = admission.seq /\ new.content = admission.content
    OBVIOUS
  <2> HIDE DEF new
  <2> QED
    BY <1>1, <2>1, <2>2, <2>3 DEF PermissionsSpent, SpentOnEffect
<1>3. CASE ~(HasNext(sequence, MaxSequence) /\ HasNext(revision, MaxRevision))
  <2>1. outcome' = "sequence_exhausted"
    BY <1>3 DEF Dispatch, BumpRevision
  <2>2. AtCeiling
    BY <1>3, CountersAssumption DEF HasNext, TypeOK, AtCeiling
  <2> QED
    BY <2>1, <2>2 DEF PermissionsSpent, Exhausted
<1> QED
  BY <1>2, <1>3

LEMMA HeldStays ==
  ASSUME held \subseteq held' \/ ~running'
  PROVE  PermissionsSpent
BY DEF PermissionsSpent

LEMMA StepSpends == TypeOK /\ OrderInv /\ [Next]_vars => [PermissionsSpent]_vars
<1> SUFFICES ASSUME TypeOK, OrderInv, Next
             PROVE  PermissionsSpent
  OBVIOUS
<1>1. ASSUME NEW admission \in held, Dispatch(admission) PROVE PermissionsSpent
  BY <1>1, DispatchSpends
<1>2. ASSUME NEW code, Answer(code) PROVE PermissionsSpent
  BY <1>2, HeldStays DEF Answer
<1>3. ASSUME NEW transition, ApplyActivation(transition) PROVE PermissionsSpent
  BY <1>2, <1>3, HeldStays DEF ApplyActivation
<1>4. ASSUME NEW target, EnsureActivation(target) PROVE PermissionsSpent
  BY <1>2, <1>3, <1>4 DEF EnsureActivation
<1>5. ASSUME NEW replacement, Rebind(replacement) PROVE PermissionsSpent
  BY <1>2, <1>5, HeldStays DEF Rebind
<1>6. ASSUME NEW clockUp, Wake(clockUp) PROVE PermissionsSpent
  BY <1>2, <1>6, HeldStays DEF Wake
<1>7. ASSUME NEW size, NEW batch, NEW minted, ProposeCandidates(size, batch, minted)
      PROVE  PermissionsSpent
  BY <1>2, <1>7, HeldStays DEF ProposeCandidates, CommitProposals
<1>8. ASSUME NEW id, NEW answer, Admit(id, answer) PROVE PermissionsSpent
  BY <1>2, <1>8, HeldStays DEF Admit, Decide, Grant
<1>9. CASE InferenceUnavailable
  BY <1>2, <1>9 DEF InferenceUnavailable
<1>10. CASE IntoSnapshot \/ ProcessExit \/ TakeSnapshot \/ Crash
  BY <1>10, HeldStays DEF IntoSnapshot, ProcessExit, TakeSnapshot, Crash
<1>11. ASSUME NEW sameLine, Restore(sameLine) PROVE PermissionsSpent
  BY <1>2, <1>11, HeldStays DEF Restore, Seat
<1> QED
  BY <1>1, <1>3, <1>4, <1>5, <1>6, <1>7, <1>8, <1>9, <1>10, <1>11 DEF Next, Call

\* Through any restarts, a permission that leaves its holder has become the one effect
\* it permits, unless its process ended or a counter was at its ceiling.
THEOREM PermissionsEnd == Spec => PermissionsEndInEffects
BY Ordered, TypeCorrect, StepSpends, PTL DEF Spec, PermissionsEndInEffects

-----------------------------------------------------------------------------
(* Whose session it is: the stored snapshot serves the same subject under   *)
(* the same scope, however old it is.                                       *)

KeptInv == stored.binding.subject = binding.subject /\ stored.scope = scope

LEMMA KeptFrame ==
  ASSUME KeptInv, binding'.subject = binding.subject, scope' = scope, running \/ ~running',
         stored' = stored \/ stored' = Snapshot
  PROVE  KeptInv' /\ Continues
BY DEF KeptInv, Continues, Snapshot

LEMMA StepKept == TypeOK /\ KeptInv /\ [Next]_vars => KeptInv' /\ [Continues]_vars
<1> SUFFICES ASSUME TypeOK, KeptInv, [Next]_vars
             PROVE  KeptInv' /\ [Continues]_vars
  OBVIOUS
<1>1. ASSUME NEW code, Answer(code) PROVE KeptInv' /\ Continues
  BY <1>1, KeptFrame DEF Answer, durable
<1>2. ASSUME NEW transition, ApplyActivation(transition) PROVE KeptInv' /\ Continues
  BY <1>1, <1>2, KeptFrame DEF ApplyActivation
<1>3. ASSUME NEW target, EnsureActivation(target) PROVE KeptInv' /\ Continues
  BY <1>1, <1>2, <1>3 DEF EnsureActivation
<1>4. ASSUME NEW replacement, Rebind(replacement) PROVE KeptInv' /\ Continues
  BY <1>1, <1>4, KeptFrame DEF Rebind, SameSubject
<1>5. ASSUME NEW clockUp, Wake(clockUp) PROVE KeptInv' /\ Continues
  BY <1>1, <1>5, KeptFrame DEF Wake
<1>6. ASSUME NEW size, NEW batch, NEW minted, ProposeCandidates(size, batch, minted)
      PROVE  KeptInv' /\ Continues
  BY <1>1, <1>6, KeptFrame DEF ProposeCandidates, CommitProposals
<1>7. ASSUME NEW id, NEW answer, Admit(id, answer) PROVE KeptInv' /\ Continues
  BY <1>1, <1>7, KeptFrame DEF Admit, Decide
<1>8. ASSUME NEW admission, Dispatch(admission) PROVE KeptInv' /\ Continues
  BY <1>8, KeptFrame DEF Dispatch
<1>9. CASE InferenceUnavailable
  BY <1>1, <1>9 DEF InferenceUnavailable
<1>10. CASE IntoSnapshot \/ ProcessExit \/ TakeSnapshot \/ Crash
  BY <1>10, KeptFrame DEF IntoSnapshot, ProcessExit, TakeSnapshot, Crash, durable
<1>11. ASSUME NEW sameLine, Restore(sameLine) PROVE KeptInv' /\ Continues
  <2>1. CASE Seat(stored)
    <3>1. Snapshot' = [binding |-> stored.binding, scope |-> stored.scope,
                       activation |-> stored.activation, sequence |-> stored.sequence,
                       revision |-> stored.revision, pending |-> stored.pending]
      BY <2>1 DEF Seat, Snapshot
    <3>2. stored \in SessionSnapshot
      BY DEF TypeOK
    <3>3. Snapshot' = stored
      BY <3>1, <3>2 DEF SessionSnapshot
    <3> QED
      BY <2>1, <3>3 DEF Seat, KeptInv, Continues
  <2> QED
    BY <1>1, <1>11, <2>1 DEF Restore
<1>12. CASE UNCHANGED vars
  BY <1>12 DEF vars, durable, KeptInv
<1> QED
  BY <1>2, <1>3, <1>4, <1>5, <1>6, <1>7, <1>8, <1>9, <1>10, <1>11, <1>12
  DEF Next, Call

\* Through rebinds, crashes and restores from any snapshot ever taken, a session
\* serves the subject it was opened for, under the scope it was opened with.
THEOREM SubjectKept == Spec => SubjectContinues
<1>1. Init => KeptInv
  BY DEF Init, KeptInv, Snapshot
<1> QED
  BY <1>1, TypeCorrect, StepKept, PTL DEF Spec, SubjectContinues

-----------------------------------------------------------------------------
(* What a revision stands for.  A snapshot with the session's revision has   *)
(* its pending proposals and, below the ceiling, all of its state, so that    *)
(* seating an older snapshot of the same revision is seen by no report.       *)

RevisionInv ==
  /\ stored.revision =< revision
  /\ stored.revision = revision =>
       /\ stored.pending = pending
       /\ HasNext(revision, MaxRevision) =>
            /\ stored.binding = binding
            /\ stored.activation = activation
            /\ stored.sequence = sequence

\* A call moves the revision by one, or leaves what the revision stands for.
Counted ==
  \/ revision' = revision + 1
  \/ /\ UNCHANGED <<revision, pending>>
     /\ HasNext(revision, MaxRevision) => UNCHANGED <<binding, activation, sequence>>

LEMMA CountedRevised ==
  ASSUME TypeOK, Counted
  PROVE  Revised
<1>1. revision \in Nat
  BY CountersAssumption DEF TypeOK
<1>2. CASE revision' = revision + 1
  BY <1>1, <1>2 DEF Revised
<1>3. CASE revision' = revision
  BY <1>1, <1>3 DEF Counted, Revised, TurnOk, ContainsKey
<1> QED
  BY <1>2, <1>3 DEF Counted

LEMMA CountedKeeps ==
  ASSUME TypeOK, RevisionInv, Counted, stored' = stored
  PROVE  RevisionInv'
<1>1. revision \in Nat /\ stored.revision \in Nat
  BY CountersAssumption DEF TypeOK, SessionSnapshot
<1>2. CASE revision' = revision + 1
  BY <1>1, <1>2 DEF RevisionInv
<1>3. CASE revision' = revision
  BY <1>1, <1>3 DEF Counted, RevisionInv, HasNext
<1> QED
  BY <1>2, <1>3 DEF Counted

LEMMA RevisionFresh ==
  ASSUME TypeOK', stored' = Snapshot'
  PROVE  RevisionInv'
<1>1. revision' =< revision'
  BY CountersAssumption DEF TypeOK
<1> QED
  BY <1>1 DEF RevisionInv, Snapshot

LEMMA BumpCounts ==
  ASSUME TypeOK, BumpRevision, UNCHANGED pending
  PROVE  Counted
BY DEF BumpRevision, Counted

\* Every step but the seating of a snapshot counts.
LEMMA StepCounts ==
  ASSUME TypeOK, [Next]_vars
  PROVE  Counted \/ (~running /\ Seat(stored))
<1>1. ASSUME NEW code, Answer(code) PROVE Counted
  BY <1>1 DEF Answer, durable, Counted
<1>2. ASSUME NEW transition, ApplyActivation(transition) PROVE Counted
  BY <1>1, <1>2, BumpCounts DEF ApplyActivation
<1>3. ASSUME NEW target, EnsureActivation(target) PROVE Counted
  BY <1>1, <1>2, <1>3 DEF EnsureActivation
<1>4. ASSUME NEW replacement, Rebind(replacement) PROVE Counted
  BY <1>1, <1>4, BumpCounts DEF Rebind
<1>5. ASSUME NEW clockUp, Wake(clockUp) PROVE Counted
  BY <1>1, <1>5, BumpCounts DEF Wake
<1>6. ASSUME NEW size, NEW batch, NEW minted, ProposeCandidates(size, batch, minted)
      PROVE  Counted
  BY <1>1, <1>6 DEF ProposeCandidates, CommitProposals, Counted
<1>7. ASSUME NEW envelope, NEW answer, Decide(envelope, answer) PROVE Counted
  BY <1>7 DEF Decide, ReleaseDecided, Grant, Counted
<1>8. ASSUME NEW id, NEW answer, Admit(id, answer) PROVE Counted
  BY <1>1, <1>7, <1>8 DEF Admit
<1>9. ASSUME NEW admission, Dispatch(admission) PROVE Counted
  BY <1>9, BumpCounts DEF Dispatch, Counted, BumpRevision
<1>10. CASE InferenceUnavailable
  BY <1>1, <1>10 DEF InferenceUnavailable
<1>11. CASE IntoSnapshot \/ ProcessExit \/ TakeSnapshot \/ Crash \/ UNCHANGED vars
  BY <1>11 DEF IntoSnapshot, ProcessExit, TakeSnapshot, Crash, vars, durable, Counted
<1>12. ASSUME NEW sameLine, Restore(sameLine)
       PROVE  Counted \/ (~running /\ Seat(stored))
  BY <1>1, <1>12 DEF Restore
<1> QED
  BY <1>2, <1>3, <1>4, <1>5, <1>6, <1>8, <1>9, <1>10, <1>11, <1>12 DEF Next, Call

LEMMA StepStores ==
  ASSUME [Next]_vars
  PROVE  stored' = stored \/ stored' = Snapshot'
BY DEF Next, Call, ApplyActivation, EnsureActivation, Rebind, Wake, InferenceUnavailable,
       ProposeCandidates, CommitProposals, Admit, Decide, Dispatch, Answer, IntoSnapshot,
       ProcessExit, TakeSnapshot, Crash, Restore, Seat, vars, durable, Snapshot

LEMMA SeatRevised ==
  ASSUME TypeOK, OrderInv, RevisionInv, ~running, Seat(stored)
  PROVE  Revised
<1>1. /\ revision' = stored.revision /\ pending' = stored.pending /\ running'
      /\ binding' = stored.binding /\ activation' = stored.activation
      /\ sequence' = stored.sequence
  BY DEF Seat
<1>2. revision \in Nat /\ stored.revision \in Nat /\ crashes \in Nat
  BY CountersAssumption, CrashAssumption DEF TypeOK, SessionSnapshot
<1>3. revision' < revision => crashes > 0
  BY <1>1, <1>2 DEF OrderInv, Snapshot
<1>4. CASE revision' = revision
  <2>1. pending' = pending
    BY <1>1, <1>4 DEF RevisionInv
  <2> QED
    BY <1>1, <1>2, <1>4, <2>1 DEF RevisionInv, Revised, TurnOk, ContainsKey
<1>5. CASE revision' # revision
  BY <1>1, <1>3, <1>5 DEF Revised
<1> QED
  BY <1>4, <1>5

LEMMA StepRevised ==
  TypeOK /\ TypeOK' /\ SnapshotInv /\ OrderInv /\ LineInv /\ RevisionInv /\ [Next]_vars
    => RevisionInv' /\ [Revised]_vars
<1> SUFFICES ASSUME TypeOK, TypeOK', SnapshotInv, OrderInv, LineInv, RevisionInv, [Next]_vars
             PROVE  RevisionInv' /\ Revised
  OBVIOUS
<1>1. CASE Counted
  BY <1>1, StepStores, CountedRevised, CountedKeeps, RevisionFresh
<1>2. CASE ~running /\ Seat(stored)
  BY <1>2, SeatRevised, OrderSeat, RevisionFresh
<1> QED
  BY <1>1, <1>2, StepCounts

\* A revision goes back only when a snapshot older than a crash is seated, and two
\* states that share one give the same report of every set of proposals, on both sides
\* of a restart.
THEOREM RevisionNames == Spec => RevisionNamesState
<1>1. Init => RevisionInv
  BY CountersAssumption DEF Init, RevisionInv, Snapshot
<1> QED
  BY <1>1, Ordered, TypeCorrect, InitSnapshot, StepSnapshot, StepRevised, PTL
  DEF Spec, RevisionNamesState

-----------------------------------------------------------------------------
(* The kernel implements the lifecycle of proposals (ProposalLifecycle, read *)
(* off the session by SessionLifecycle).                                     *)

\* What an admission is of: it has the content and the number of a proposal.
Descended ==
  \A a \in admitted : \E e \in proposed : e.seq = a.origin /\ e.content = a.content

\* The stage of a number is where its one proposal, or its one admission, is.
LEMMA StageReads ==
  ASSUME TypeOK, OrderInv, Descended, NEW n \in Sequences
  PROVE  /\ StageOf(n) = "unused" <=> \A e \in proposed : e.seq # n
         /\ StageOf(n) = "pending" <=> \E e \in pending : e.seq = n
         /\ StageOf(n) = "admitted" <=> \E a \in held : a.origin = n
         /\ StageOf(n) = "admitted" => EffectsOf(n) = {}
<1>1. \A a \in held : \E e \in proposed : e.seq = a.origin
  BY DEF OrderInv, Descended
<1>2. \A a \in held, e \in pending : a.origin # e.seq
  BY DEF OrderInv, AtMostOneEffect
<1>3. \A a \in held : a.origin = n => EffectsOf(n) = {}
  BY DEF OrderInv, AtMostOneEffect, EffectsOf, AdmissionsOf
<1> QED
  BY <1>1, <1>2, <1>3 DEF StageOf, OrderInv

LEMMA StageFrame ==
  ASSUME UNCHANGED <<pending, held, proposed, admitted, effects>>
  PROVE  UNCHANGED Lifecycle!vars
BY DEF Lifecycle!vars, StageOf, AdmissionsOf, EffectsOf

\* A batch moves and every other number stays where it is.
LEMMA StageMoves ==
  ASSUME NEW from, NEW to, NEW batch \in SUBSET Sequences,
         \A n \in batch : StageOf(n) = from /\ StageOf(n)' = to,
         \A n \in Sequences \ batch : StageOf(n)' = StageOf(n)
  PROVE  Lifecycle!Move(from, to, batch)
BY DEF Lifecycle!Move

\* A number moves, from a stage that its proposal or admission leaves.
LEMMA CommitMints ==
  ASSUME TypeOK, OrderInv, Descended,
         NEW size \in 0 .. MaxBatch, NEW batch \in [1 .. size -> Candidates],
         NEW minted \in [1 .. size -> ProposalIds \union {PortDown}],
         \A i \in 1 .. size : StageError(minted, i) = "ok",
         CommitProposals(size, batch, minted)
  PROVE  Lifecycle!Next /\ Descended'
<1> DEFINE staged == Staged(size, batch, minted)
           Choice(n) == (CHOOSE e \in staged : e.seq = n).content
<1>1. /\ pending' = InsertAll(pending, staged) /\ proposed' = proposed \union staged
      /\ UNCHANGED <<held, admitted, effects>>
  BY DEF CommitProposals
<1>2. staged \subseteq Envelope
  BY StagedType
<1>3. /\ \A e \in staged : e.seq \in Nat /\ sequence < e.seq
      /\ \A e, f \in staged : e.seq = f.seq => e = f
      /\ \A e \in staged, f \in pending : e.id # f.id
  BY <1>2, StagedFresh DEF Envelope, Sequences
<1>4. pending' = pending \union staged
  BY <1>1, <1>3 DEF InsertAll, ContainsKey
<1>5. PICK numbers \in SUBSET Sequences : numbers = {e.seq : e \in staged}
  <2>1. {e.seq : e \in staged} \in SUBSET Sequences
    BY <1>2 DEF Envelope
  <2> QED
    BY <2>1
<1>6. \A e \in proposed : e.seq \notin numbers
  <2>1. sequence \in Nat /\ \A e \in proposed : e.seq \in Nat /\ e.seq =< sequence
    BY CountersAssumption DEF OrderInv, TypeOK, Envelope, Sequences
  <2> QED
    BY <1>3, <1>5, <2>1
<1>7. ASSUME NEW n \in Sequences
      PROVE  /\ AdmissionsOf(n)' = AdmissionsOf(n)
             /\ EffectsOf(n)' = EffectsOf(n)
  BY <1>1 DEF AdmissionsOf, EffectsOf
<1>8. ASSUME NEW n \in numbers
      PROVE  StageOf(n) = "unused" /\ StageOf(n)' = "pending"
  BY <1>1, <1>4, <1>5, <1>6 DEF StageOf
<1>9. ASSUME NEW n \in Sequences \ numbers
      PROVE  StageOf(n)' = StageOf(n)
  <2>1. /\ (\E e \in proposed' : e.seq = n) <=> \E e \in proposed : e.seq = n
        /\ (\E e \in pending' : e.seq = n) <=> \E e \in pending : e.seq = n
    BY <1>1, <1>4, <1>5
  <2> QED
    BY <1>1, <1>7, <2>1 DEF StageOf
<1>10. Lifecycle!Move("unused", "pending", numbers)
  BY <1>8, <1>9, StageMoves
<1>11. [n \in numbers |-> Choice(n)] \in [numbers -> Candidates]
  <2>1. ASSUME NEW n \in numbers PROVE Choice(n) \in Candidates
    BY <1>2, <1>5 DEF Envelope
  <2> QED
    BY <2>1
<1>12. ASSUME NEW n \in Sequences
       PROVE  {e.content : e \in {p \in proposed' : p.seq = n}}
                = IF n \in numbers THEN {Choice(n)}
                  ELSE {e.content : e \in {p \in proposed : p.seq = n}}
  <2>1. CASE n \in numbers
    <3>1. PICK e \in staged : e.seq = n /\ \A f \in staged : f.seq = n => f = e
      BY <1>3, <1>5, <2>1
    <3>2. {p \in proposed' : p.seq = n} = {e}
      BY <1>1, <1>6, <2>1, <3>1
    <3>3. Choice(n) = e.content
      BY <3>1
    <3> QED
      BY <2>1, <3>2, <3>3
  <2>2. CASE n \notin numbers
    BY <1>1, <1>5, <2>2
  <2> QED
    BY <2>1, <2>2
<1>13. Lifecycle!Mint(numbers)
  <2>1. PICK choice \in [numbers -> Candidates] : \A n \in numbers : choice[n] = Choice(n)
    BY <1>11
  <2>2. [n \in Sequences |-> {e.content : e \in {p \in proposed : p.seq = n}}]'
          = [n \in Sequences |->
               IF n \in numbers THEN {choice[n]}
               ELSE [m \in Sequences |->
                       {e.content : e \in {p \in proposed : p.seq = m}}][n]]
    BY <1>12, <2>1
  <2>3. [n \in Sequences |-> {e.content : e \in EffectsOf(n)}]'
          = [n \in Sequences |-> {e.content : e \in EffectsOf(n)}]
    BY <1>7
  <2> QED
    BY <1>10, <2>2, <2>3 DEF Lifecycle!Mint
<1>14. Descended'
  BY <1>1 DEF Descended
<1> QED
  BY <1>13, <1>14 DEF Lifecycle!Next

\* Dropping an envelope that was decided moves its number out of `pending`; an admission
\* that comes with it takes the number on.
LEMMA DecideMoves ==
  ASSUME TypeOK, OrderInv, Descended, NEW envelope \in pending,
         \A f \in pending : f.id = envelope.id => f = envelope,
         NEW answer, Decide(envelope, answer)
  PROVE  (Lifecycle!Next \/ UNCHANGED Lifecycle!vars) /\ Descended'
<1> DEFINE n == envelope.seq
<1>1. UNCHANGED <<proposed, effects>>
  BY DEF Decide
<1>2. /\ n \in Sequences /\ envelope \in proposed
      /\ \A f \in proposed : f.seq = n => f = envelope
  BY DEF OrderInv, TypeOK, Envelope
<1>3. AdmissionsOf(n) = {} /\ EffectsOf(n) = {}
  BY DEF OrderInv, AtMostOneEffect, AdmissionsOf, EffectsOf
<1>4. StageOf(n) = "pending"
  BY <1>2, StageReads
<1>5. Remove(pending, envelope.id) = pending \ {envelope}
  BY DEF Remove
<1>6. ASSUME NEW m \in Sequences \ {n}, pending' = pending \ {envelope}
      PROVE  (\E e \in pending' : e.seq = m) <=> \E e \in pending : e.seq = m
  BY <1>6
<1>7. UNCHANGED [m \in Sequences |-> {e.content : e \in {p \in proposed : p.seq = m}}]
  BY <1>1
<1>8. CASE UNCHANGED <<pending, held, admitted>>
  BY <1>1, <1>8, StageFrame DEF Descended
<1>9. CASE pending' = pending \ {envelope} /\ UNCHANGED <<held, admitted>>
  <2>1. \A m \in Sequences : AdmissionsOf(m)' = AdmissionsOf(m) /\ EffectsOf(m)' = EffectsOf(m)
    BY <1>1, <1>9 DEF AdmissionsOf, EffectsOf
  <2>2. ASSUME NEW m \in Sequences \ {n} PROVE StageOf(m)' = StageOf(m)
    BY <1>1, <1>6, <1>9, <2>1 DEF StageOf
  <2>3. StageOf(n)' = "refused"
    <3>1. \A e \in pending' : e.seq # n
      BY <1>2, <1>9 DEF OrderInv
    <3>2. \A a \in held' : a.origin # n
      BY <1>3, <1>9 DEF OrderInv, AdmissionsOf
    <3> QED
      BY <1>1, <1>2, <1>3, <2>1, <3>1, <3>2 DEF StageOf
  <2>4. Lifecycle!Move("pending", "refused", {n})
    BY <1>2, <1>4, <2>2, <2>3, StageMoves
  <2>5. UNCHANGED [m \in Sequences |-> {e.content : e \in EffectsOf(m)}]
    BY <2>1
  <2>6. Lifecycle!Refuse(n)
    BY <1>7, <2>4, <2>5 DEF Lifecycle!Refuse
  <2> QED
    BY <1>1, <1>2, <1>9, <2>6 DEF Lifecycle!Next, Descended
<1>10. CASE /\ pending' = pending \ {envelope}
            /\ held' = held \union {AdmissionOf(envelope, answer)}
            /\ admitted' = admitted \union {AdmissionOf(envelope, answer)}
  <2>1. PICK new : new = AdmissionOf(envelope, answer)
    OBVIOUS
  <2>2. new.seq = sequence + 1 /\ new.origin = n /\ new.content = envelope.content
    BY <2>1 DEF AdmissionOf
  <2>3. \A m \in Sequences \ {n} : /\ AdmissionsOf(m)' = AdmissionsOf(m)
                                  /\ EffectsOf(m)' = EffectsOf(m)
    BY <1>1, <1>10, <2>1, <2>2 DEF AdmissionsOf, EffectsOf
  <2>4. EffectsOf(n)' = {}
    <3>1. \A e \in effects : e.admission \in Nat /\ e.admission =< sequence
      BY DEF OrderInv, TypeOK, Effect, Sequences
    <3>2. \A e \in effects : e.admission # sequence + 1
      BY <3>1, CountersAssumption DEF TypeOK
    <3>3. AdmissionsOf(n)' = {new}
      BY <1>3, <1>10, <2>1, <2>2 DEF AdmissionsOf
    <3> QED
      BY <1>1, <2>2, <3>2, <3>3 DEF EffectsOf
  <2>5. ASSUME NEW m \in Sequences \ {n} PROVE StageOf(m)' = StageOf(m)
    <3>1. (\E a \in held' : a.origin = m) <=> \E a \in held : a.origin = m
      BY <1>10, <2>1, <2>2
    <3> QED
      BY <1>1, <1>6, <1>10, <2>3, <3>1 DEF StageOf
  <2>6. StageOf(n)' = "admitted"
    <3>1. \A e \in pending' : e.seq # n
      BY <1>2, <1>10 DEF OrderInv
    <3> QED
      BY <1>1, <1>2, <1>10, <2>1, <2>2, <3>1 DEF StageOf
  <2>7. Lifecycle!Move("pending", "admitted", {n})
    BY <1>2, <1>4, <2>5, <2>6, StageMoves
  <2>8. UNCHANGED [m \in Sequences |-> {e.content : e \in EffectsOf(m)}]
    BY <1>3, <2>3, <2>4
  <2>9. Lifecycle!Admit(n)
    BY <1>7, <2>7, <2>8 DEF Lifecycle!Admit
  <2>10. Descended'
    BY <1>1, <1>2, <1>10, <2>1, <2>2 DEF Descended
  <2> QED
    BY <1>2, <2>9, <2>10 DEF Lifecycle!Next
<1> QED
  BY <1>5, <1>8, <1>9, <1>10 DEF Decide, ReleaseDecided, Grant

\* A permission that leaves its holder becomes its proposal's one effect, or nothing.
LEMMA DispatchMoves ==
  ASSUME TypeOK, OrderInv, Descended, NEW admission \in held, Dispatch(admission)
  PROVE  Lifecycle!Next /\ Descended'
<1> DEFINE n == admission.origin
<1>1. UNCHANGED <<pending, proposed, admitted>> /\ held' = held \ {admission}
  BY DEF Dispatch, Consume
<1>2. /\ n \in Sequences /\ admission \in admitted
      /\ \A a \in admitted : a.origin = n => a = admission
  BY DEF OrderInv, AtMostOneEffect, TypeOK, Admission
<1>3. StageOf(n) = "admitted" /\ EffectsOf(n) = {} /\ AdmissionsOf(n) = {admission}
  BY <1>2, StageReads DEF AdmissionsOf
<1>4. /\ \A e \in pending : e.seq # n
      /\ \E e \in proposed : e.seq = n
  BY <1>2 DEF OrderInv, AtMostOneEffect, Descended
<1>5. \A m \in Sequences : AdmissionsOf(m)' = AdmissionsOf(m)
  BY <1>1 DEF AdmissionsOf
<1>6. \A a \in held' : a.origin # n
  BY <1>1, <1>2 DEF OrderInv
<1>7. UNCHANGED [m \in Sequences |-> {e.content : e \in {p \in proposed : p.seq = m}}]
  BY <1>1
<1>8. Descended'
  BY <1>1 DEF Descended
<1>9. ASSUME NEW m \in Sequences \ {n}, EffectsOf(m)' = EffectsOf(m)
      PROVE  StageOf(m)' = StageOf(m)
  <2>1. (\E a \in held' : a.origin = m) <=> \E a \in held : a.origin = m
    BY <1>1
  <2> QED
    BY <1>1, <1>5, <1>9, <2>1 DEF StageOf
<1>10. CASE effects' = effects
  <2>1. \A m \in Sequences : EffectsOf(m)' = EffectsOf(m)
    BY <1>5, <1>10 DEF EffectsOf
  <2>2. StageOf(n)' = "lost"
    BY <1>1, <1>2, <1>3, <1>4, <1>5, <1>6, <2>1 DEF StageOf
  <2>3. Lifecycle!Move("admitted", "lost", {n})
    BY <1>2, <1>3, <1>9, <2>1, <2>2, StageMoves
  <2>4. UNCHANGED [m \in Sequences |-> {e.content : e \in EffectsOf(m)}]
    BY <2>1
  <2>5. Lifecycle!Lose({n})
    BY <1>7, <2>3, <2>4 DEF Lifecycle!Lose
  <2> QED
    BY <1>2, <1>8, <2>5 DEF Lifecycle!Next
<1>11. CASE effects' = effects \union {[seq |-> sequence + 1,
                                        content |-> admission.content,
                                        admission |-> admission.seq]}
  <2>1. PICK new : new = [seq |-> sequence + 1, content |-> admission.content,
                          admission |-> admission.seq]
    OBVIOUS
  <2>2. new.admission = admission.seq /\ new.content = admission.content
    BY <2>1
  <2>3. EffectsOf(n)' = {new}
    BY <1>2, <1>3, <1>5, <1>11, <2>1, <2>2 DEF EffectsOf
  <2>4. ASSUME NEW m \in Sequences \ {n} PROVE EffectsOf(m)' = EffectsOf(m)
    <3>1. \A a \in AdmissionsOf(m) : a.seq # admission.seq
      BY <1>2 DEF OrderInv, AdmissionsOf
    <3> QED
      BY <1>5, <1>11, <2>1, <2>2, <3>1 DEF EffectsOf
  <2>5. StageOf(n)' = "dispatched"
    BY <1>1, <1>4, <1>6, <2>3 DEF StageOf
  <2>6. Lifecycle!Move("admitted", "dispatched", {n})
    BY <1>2, <1>3, <1>9, <2>4, <2>5, StageMoves
  <2>7. {e.content : e \in {p \in proposed : p.seq = n}} = {admission.content}
    <3>1. PICK e \in proposed : e.seq = n /\ e.content = admission.content
      BY <1>2 DEF Descended
    <3>2. {p \in proposed : p.seq = n} = {e}
      BY <3>1 DEF OrderInv
    <3> QED
      BY <3>1, <3>2
  <2>8. \A m \in Sequences :
          {e.content : e \in EffectsOf(m)}' =
            IF m = n THEN {e.content : e \in {p \in proposed : p.seq = n}}
                     ELSE {e.content : e \in EffectsOf(m)}
    BY <2>2, <2>3, <2>4, <2>7
  <2>9. Lifecycle!Dispatch(n)
    BY <1>2, <1>7, <2>6, <2>8 DEF Lifecycle!Dispatch
  <2> QED
    BY <1>2, <1>8, <2>9 DEF Lifecycle!Next
<1> QED
  BY <1>10, <1>11 DEF Dispatch

\* When the process ends, what it held is lost.
LEMMA ExitLoses ==
  ASSUME TypeOK, OrderInv, Descended, ProcessExit \/ Crash
  PROVE  Lifecycle!Next /\ Descended'
<1>1. UNCHANGED <<pending, proposed, admitted, effects>> /\ held' = {}
  BY DEF ProcessExit, Crash, durable, history
<1>2. PICK batch \in SUBSET Sequences : batch = {n \in Sequences : StageOf(n) = "admitted"}
  OBVIOUS
<1>3. ASSUME NEW n \in Sequences
      PROVE  AdmissionsOf(n)' = AdmissionsOf(n) /\ EffectsOf(n)' = EffectsOf(n)
  BY <1>1 DEF AdmissionsOf, EffectsOf
<1>4. ASSUME NEW n \in batch PROVE StageOf(n) = "admitted" /\ StageOf(n)' = "lost"
  <2>1. PICK a \in held : a.origin = n /\ EffectsOf(n) = {}
    BY <1>2, StageReads
  <2>2. AdmissionsOf(n) # {} /\ \E e \in proposed : e.seq = n
    BY <2>1 DEF OrderInv, AdmissionsOf, Descended
  <2>3. \A e \in pending : e.seq # n
    BY <2>1 DEF OrderInv, AtMostOneEffect
  <2> QED
    BY <1>1, <1>2, <1>3, <2>1, <2>2, <2>3 DEF StageOf
<1>5. ASSUME NEW n \in Sequences \ batch PROVE StageOf(n)' = StageOf(n)
  <2>1. \A a \in held : a.origin # n
    BY <1>2, StageReads
  <2> QED
    BY <1>1, <1>3, <2>1 DEF StageOf
<1>6. Lifecycle!Move("admitted", "lost", batch)
  BY <1>4, <1>5, StageMoves
<1>7. Lifecycle!Lose(batch)
  BY <1>1, <1>3, <1>6 DEF Lifecycle!Lose
<1> QED
  BY <1>1, <1>7 DEF Lifecycle!Next, Descended

LEMMA StillDescended ==
  ASSUME Descended, UNCHANGED <<pending, held, proposed, admitted, effects>>
  PROVE  UNCHANGED Lifecycle!vars /\ Descended'
BY StageFrame DEF Descended

\* Where a recovery takes a number: back to `pending` if the snapshot holds it, to
\* `unused` if it was minted later; otherwise the decision stands, and so does its
\* effect unless that came later.
LEMMA RecoverStages ==
  ASSUME TypeOK, SnapshotInv, OrderInv, LineInv, Descended, ~running, held = {},
         Seat(stored), NEW n \in Sequences
  PROVE  /\ StageOf(n) # "admitted"
         /\ n > stored.sequence =>
              StageOf(n)' = "unused" /\ EffectsOf(n)' = {} /\ {p \in proposed' : p.seq = n} = {}
         /\ ~(n > stored.sequence) => {p \in proposed' : p.seq = n} = {p \in proposed : p.seq = n}
         /\ \A e \in stored.pending : e.seq = n =>
              /\ ~(n > stored.sequence) /\ StageOf(n) # "unused"
              /\ StageOf(n)' = "pending" /\ EffectsOf(n)' = {}
         /\ ~(n > stored.sequence) /\ (\A e \in stored.pending : e.seq # n) =>
              \/ StageOf(n)' = StageOf(n) /\ EffectsOf(n)' = EffectsOf(n)
              \/ StageOf(n) = "dispatched" /\ StageOf(n)' = "lost" /\ EffectsOf(n)' = {}
<1>1. /\ pending' = stored.pending /\ held' = {} 
      /\ proposed' = {e \in proposed : e.seq =< stored.sequence}
      /\ admitted' = {a \in admitted : a.seq =< stored.sequence}
      /\ effects' = {e \in effects : e.seq =< stored.sequence}
  BY DEF Seat, RollBack
<1>2. \A e \in stored.pending : ~(e.seq > stored.sequence) /\ e \in proposed /\ e \in proposed'
  BY <1>1, VerdictMeans, NumbersNat DEF SnapshotInv, LineInv, TypeOK
<1>3. n \in Nat /\ stored.sequence \in Nat
  BY NumbersNat DEF Sequences
<1>4. \A a \in admitted : a.seq \in Nat /\ a.origin \in Nat /\ a.origin < a.seq
  BY NumbersNat DEF OrderInv
<1>5. StageOf(n) # "admitted"
  BY StageReads
<1>6. ASSUME n > stored.sequence
      PROVE  StageOf(n)' = "unused" /\ EffectsOf(n)' = {} /\ {p \in proposed' : p.seq = n} = {}
  <2>1. \A p \in proposed' : p.seq # n
    BY <1>1, <1>3, <1>6
  <2>2. AdmissionsOf(n)' = {}
    BY <1>1, <1>3, <1>4, <1>6 DEF AdmissionsOf
  <2> QED
    BY <2>1, <2>2 DEF StageOf, EffectsOf
<1>7. ~(n > stored.sequence) => {p \in proposed' : p.seq = n} = {p \in proposed : p.seq = n}
  BY <1>1, <1>3
<1>8. ASSUME NEW e \in stored.pending, e.seq = n
      PROVE  /\ ~(n > stored.sequence) /\ StageOf(n) # "unused"
             /\ StageOf(n)' = "pending" /\ EffectsOf(n)' = {}
  <2>1. ~(n > stored.sequence) /\ StageOf(n) # "unused"
    BY <1>2, <1>8, StageReads
  <2>2. AdmissionsOf(n)' = {}
    BY <1>1, <1>3, <1>4, <1>8, <2>1 DEF AdmissionsOf, LineInv
  <2> QED
    BY <1>1, <1>2, <1>8, <2>1, <2>2 DEF StageOf, EffectsOf
<1>9. ASSUME ~(n > stored.sequence), \A e \in stored.pending : e.seq # n
      PROVE  \/ StageOf(n)' = StageOf(n) /\ EffectsOf(n)' = EffectsOf(n)
             \/ StageOf(n) = "dispatched" /\ StageOf(n)' = "lost" /\ EffectsOf(n)' = {}
  <2>1. AdmissionsOf(n)' = AdmissionsOf(n)
    BY <1>1, <1>3, <1>4, <1>9 DEF AdmissionsOf, LineInv
  <2>2. \A e \in pending : e.seq # n
    BY <1>3, <1>9 DEF LineInv
  <2>3. (\A p \in proposed' : p.seq # n) <=> \A p \in proposed : p.seq # n
    BY <1>7, <1>9
  <2>4. EffectsOf(n)' = {e \in EffectsOf(n) : e.seq =< stored.sequence}
    BY <1>1, <2>1 DEF EffectsOf
  <2>5. \A e, f \in EffectsOf(n) : e = f
    BY DEF EffectsOf, AdmissionsOf, OrderInv, AtMostOneEffect
  <2>6. EffectsOf(n) # {} => AdmissionsOf(n) # {}
    BY DEF EffectsOf
  <2>7. AdmissionsOf(n) # {} => \E p \in proposed : p.seq = n
    BY DEF AdmissionsOf, Descended
  <2>8. CASE EffectsOf(n)' = EffectsOf(n)
    BY <1>1, <1>9, <2>1, <2>2, <2>3, <2>8 DEF StageOf
  <2>9. CASE EffectsOf(n)' # EffectsOf(n)
    <3>1. EffectsOf(n)' = {} /\ EffectsOf(n) # {}
      BY <2>4, <2>5, <2>9
    <3> QED
      BY <1>1, <1>9, <2>1, <2>2, <2>3, <2>6, <2>7, <3>1 DEF StageOf
  <2> QED
    BY <2>8, <2>9
<1> QED
  BY <1>5, <1>6, <1>7, <1>8, <1>9

\* A restore from a snapshot older than the crash is a recovery of the lifecycle.
LEMMA SeatRecovers ==
  ASSUME TypeOK, SnapshotInv, OrderInv, LineInv, Descended, ~running, held = {},
         crashes > 0, Seat(stored)
  PROVE  Lifecycle!Next /\ Descended'
<1>1. PICK again \in SUBSET Sequences :
        \A n \in Sequences : n \in again <=> \E e \in stored.pending : e.seq = n
  <2>1. {n \in Sequences : \E e \in stored.pending : e.seq = n} \in SUBSET Sequences
    OBVIOUS
  <2> QED
    BY <2>1
<1>2. PICK forgotten \in SUBSET Sequences :
        \A n \in Sequences : n \in forgotten <=> n > stored.sequence
  <2>1. {n \in Sequences : n > stored.sequence} \in SUBSET Sequences
    OBVIOUS
  <2> QED
    BY <2>1
<1>3. PICK undone \in SUBSET Sequences :
        \A n \in Sequences : n \in undone <=>
          /\ n \notin again /\ n \notin forgotten
          /\ StageOf(n) = "dispatched" /\ StageOf(n)' = "lost" /\ EffectsOf(n)' = {}
  <2>1. {n \in Sequences : 
          /\ n \notin again /\ n \notin forgotten
          /\ StageOf(n) = "dispatched" /\ StageOf(n)' = "lost" /\ EffectsOf(n)' = {}}
           \in SUBSET Sequences
    OBVIOUS
  <2> QED
    BY <2>1
<1>4. forgotten \in SUBSET (Sequences \ (again \union undone))
  BY <1>1, <1>2, <1>3, RecoverStages
<1>5. MaxCrashes > 0
  BY CrashAssumption DEF TypeOK
<1>6. \A n \in Sequences :
        StageOf(n)' = IF n \in again THEN "pending"
                      ELSE IF n \in undone THEN "lost"
                      ELSE IF n \in forgotten THEN "unused" ELSE StageOf(n)
  BY <1>1, <1>2, <1>3, RecoverStages
<1>7. \A n \in Sequences :
        {e.content : e \in {p \in proposed' : p.seq = n}} =
          IF n \in forgotten THEN {} ELSE {e.content : e \in {p \in proposed : p.seq = n}}
  BY <1>2, RecoverStages
<1>8. \A n \in Sequences :
        {e.content : e \in EffectsOf(n)}' =
          IF n \in again \union undone \union forgotten THEN {}
                                                  ELSE {e.content : e \in EffectsOf(n)}
  <2>1. \A n \in Sequences :
          EffectsOf(n)' = IF n \in again \union undone \union forgotten THEN {}
                                                                ELSE EffectsOf(n)
    BY <1>1, <1>2, <1>3, RecoverStages
  <2> QED
    BY <2>1
<1>9. /\ \A n \in Sequences : StageOf(n) # "admitted"
      /\ \A n \in again : StageOf(n) # "unused"
      /\ \A n \in undone : StageOf(n) = "dispatched"
  BY <1>1, <1>3, RecoverStages
<1>10. Lifecycle!Recover(again, undone, forgotten)
  BY <1>5, <1>6, <1>7, <1>8, <1>9 DEF Lifecycle!Recover
<1>11. Descended'
  <2> SUFFICES ASSUME NEW a \in admitted'
               PROVE  \E e \in proposed' : e.seq = a.origin /\ e.content = a.content
    BY DEF Descended
  <2>1. a \in admitted /\ a.seq =< stored.sequence
    BY DEF Seat, RollBack
  <2>2. PICK e \in proposed : e.seq = a.origin /\ e.content = a.content
    BY <2>1 DEF Descended
  <2>3. e.seq =< stored.sequence
    BY <2>1, <2>2, NumbersNat DEF OrderInv
  <2> QED
    BY <2>2, <2>3 DEF Seat, RollBack
<1> QED
  BY <1>4, <1>10, <1>11 DEF Lifecycle!Next

\* Seating what was the session's last state changes nothing that was emitted.
LEMMA SeatStays ==
  ASSUME TypeOK, OrderInv, stored = Snapshot, Seat(stored)
  PROVE  UNCHANGED <<pending, held, proposed, admitted, effects>>
<1>1. stored.sequence = sequence /\ stored.pending = pending
  BY DEF Snapshot
<1> QED
  BY <1>1 DEF Seat, RollBack, OrderInv

LEMMA StepLifecycle ==
  TypeOK /\ SnapshotInv /\ OrderInv /\ LineInv /\ Descended /\ [Next]_vars =>
    [Lifecycle!Next]_(Lifecycle!vars) /\ Descended'
<1> SUFFICES ASSUME TypeOK, SnapshotInv, OrderInv, LineInv, Descended, [Next]_vars
             PROVE  (Lifecycle!Next \/ UNCHANGED Lifecycle!vars) /\ Descended'
  OBVIOUS
<1> DEFINE Goal == (Lifecycle!Next \/ UNCHANGED Lifecycle!vars) /\ Descended'
<1>0. \A e, f \in pending : e.id = f.id => e = f
  <2>1. Snapshot \in SessionSnapshot
    BY SnapshotType DEF Snapshot, TypeOK, SessionSnapshot
  <2> QED
    BY <2>1, VerdictMeans DEF SnapshotInv, Snapshot
<1>1. CASE UNCHANGED <<pending, held, proposed, admitted, effects>>
  BY <1>1, StillDescended
<1>2. ASSUME NEW size \in 0 .. MaxBatch, NEW batch \in [1 .. size -> Candidates],
             NEW minted \in [1 .. size -> ProposalIds \union {PortDown}],
             ProposeCandidates(size, batch, minted)
      PROVE  Goal
  <2>1. CASE \E code : Answer(code)
    BY <1>1, <2>1 DEF Answer, durable, history
  <2>2. CASE /\ \A i \in 1 .. size : StageError(minted, i) = "ok"
             /\ CommitProposals(size, batch, minted)
    BY <2>2, CommitMints
  <2> QED
    BY <1>2, <2>1, <2>2 DEF ProposeCandidates
<1>3. ASSUME NEW id, NEW answer, Admit(id, answer) PROVE Goal
  <2>1. CASE \E code : Answer(code)
    BY <1>1, <2>1 DEF Answer, durable, history
  <2>2. CASE \E envelope \in pending : Decide(envelope, answer)
    BY <1>0, <2>2, DecideMoves
  <2> QED
    BY <1>3, <2>1, <2>2 DEF Admit
<1>4. ASSUME NEW admission \in held, Dispatch(admission) PROVE Goal
  BY <1>4, DispatchMoves
<1>5. CASE ProcessExit \/ Crash
  BY <1>5, ExitLoses
<1>7. ASSUME NEW sameLine, Restore(sameLine) PROVE Goal
  <2>1. CASE Seat(stored)
    <3>1. CASE stored = Snapshot
      BY <1>1, <2>1, <3>1, SeatStays
    <3>2. CASE held = {} /\ crashes > 0
      BY <1>7, <2>1, <3>2, SeatRecovers DEF Restore
    <3> QED
      BY <1>7, <3>1, <3>2 DEF Restore, OrderInv
  <2>2. CASE \E code : Answer(code)
    BY <1>1, <2>2 DEF Answer, durable, history
  <2> QED
    BY <1>7, <2>1, <2>2 DEF Restore
<1>8. CASE \/ \E transition : ApplyActivation(transition)
           \/ \E target : EnsureActivation(target)
           \/ \E replacement : Rebind(replacement)
           \/ \E clockUp : Wake(clockUp)
           \/ InferenceUnavailable
  BY <1>1, <1>8 DEF ApplyActivation, EnsureActivation, Rebind, Wake,
     InferenceUnavailable, Answer, durable, history
<1>9. CASE IntoSnapshot \/ TakeSnapshot \/ UNCHANGED vars
  BY <1>1, <1>9 DEF IntoSnapshot, TakeSnapshot, vars, durable, history
<1> QED
  BY <1>2, <1>3, <1>4, <1>5, <1>7, <1>8, <1>9 DEF Next, Call

\* Every step of a session moves proposals along their lifecycle or leaves them where
\* they are, and a recovery takes back exactly what came after its snapshot: the kernel
\* implements ProposalLifecycle (session.rs propose_candidates, admit, dispatch,
\* restore).
THEOREM Implements == Spec => RefinesLifecycle
<1>1. Init => Lifecycle!Init /\ Descended
  BY DEF Init, Lifecycle!Init, Descended, StageOf, EffectsOf, AdmissionsOf
<1>2. TypeOK /\ SnapshotInv /\ OrderInv /\ LineInv /\ Descended /\ [Next]_vars =>
        [Lifecycle!Next]_(Lifecycle!vars) /\ Descended'
  BY StepLifecycle
<1> QED
  BY <1>1, <1>2, Ordered, TypeCorrect, InitSnapshot, StepSnapshot, PTL
  DEF Spec, RefinesLifecycle, Lifecycle!Spec
=============================================================================
