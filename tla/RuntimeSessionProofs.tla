------------------------ MODULE RuntimeSessionProofs ------------------------
(***************************************************************************)
(* Theorems about the session kernel, for every set of identifiers,        *)
(* candidates, capabilities, subjects and computations and every ceiling.  *)
(***************************************************************************)
EXTENDS RuntimeSession, TLAPS

-----------------------------------------------------------------------------
(* Type correctness.                                                       *)

LEMMA InitTypeOK == Init => TypeOK
BY CountersAssumption, CrashAssumption
DEF Init, TypeOK, Snapshot, SessionSnapshot, Binding, ActivationState, Outcomes, ErrorCodes

\* A call that answers without changing anything keeps the types.
LEMMA AnswerTypeOK ==
  ASSUME TypeOK, NEW code \in Outcomes, Answer(code)
  PROVE  TypeOK'
BY DEF Answer, TypeOK, durable, history

\* The revision stays below its ceiling.
LEMMA BumpRevisionType ==
  ASSUME TypeOK, BumpRevision
  PROVE  revision' \in 0 .. MaxRevision /\ outcome' \in Outcomes
BY CountersAssumption DEF TypeOK, BumpRevision, HasNext, Outcomes, ErrorCodes

LEMMA ApplyActivationTypeOK ==
  ASSUME TypeOK, NEW transition, ApplyActivation(transition)
  PROVE  TypeOK'
<1>1. CASE Answer("runtime_inactive")
  BY <1>1, AnswerTypeOK DEF Outcomes, ErrorCodes
<1>2. CASE \E next \in ActivationState :
             /\ activation' = next
             /\ BumpRevision
             /\ UNCHANGED <<running, binding, scope, sequence, pending, held, stored,
                            crashes, history>>
  BY <1>2, BumpRevisionType DEF TypeOK, history
<1> QED
  BY <1>1, <1>2 DEF ApplyActivation

LEMMA EnsureActivationTypeOK ==
  ASSUME TypeOK, NEW target, EnsureActivation(target)
  PROVE  TypeOK'
BY AnswerTypeOK, ApplyActivationTypeOK DEF EnsureActivation, Outcomes, ErrorCodes

LEMMA RebindTypeOK ==
  ASSUME TypeOK, NEW replacement \in Binding, Rebind(replacement)
  PROVE  TypeOK'
<1>1. CASE Answer("subject_continuity_violation")
  BY <1>1, AnswerTypeOK DEF Outcomes, ErrorCodes
<1>2. CASE /\ binding' = replacement
           /\ BumpRevision
           /\ UNCHANGED <<running, scope, activation, sequence, pending, held, stored,
                          crashes, history>>
  BY <1>2, BumpRevisionType DEF TypeOK, history
<1> QED
  BY <1>1, <1>2 DEF Rebind

LEMMA WakeTypeOK ==
  ASSUME TypeOK, NEW clockUp, Wake(clockUp)
  PROVE  TypeOK'
<1>1. ASSUME NEW code \in {"runtime_inactive", "missing_context"}, Answer(code)
      PROVE  TypeOK'
  BY <1>1, AnswerTypeOK DEF Outcomes, ErrorCodes
<1>2. CASE /\ BumpRevision
           /\ UNCHANGED <<running, binding, scope, activation, sequence, pending, held,
                          stored, crashes, history>>
  BY <1>2, BumpRevisionType DEF TypeOK, history
<1> QED
  BY <1>1, <1>2 DEF Wake

\* What a committed round stages is a set of envelopes.
LEMMA StagedType ==
  ASSUME TypeOK, NEW size \in 0 .. MaxBatch, NEW batch \in [1 .. size -> Candidates],
         NEW minted \in [1 .. size -> ProposalIds \union {PortDown}],
         \A i \in 1 .. size : StageError(minted, i) = "ok"
  PROVE  /\ Staged(size, batch, minted) \in SUBSET Envelope
         /\ sequence + size \in 0 .. MaxSequence
<1>1. size \in Nat /\ sequence \in Nat /\ sequence =< MaxSequence /\ MaxSequence \in Nat
  BY BatchAssumption, CountersAssumption DEF TypeOK
<1>2. ASSUME NEW i \in 1 .. size
      PROVE  /\ minted[i] \in ProposalIds
             /\ sequence + i =< MaxSequence
             /\ batch[i] \in Candidates
  <2>1. StageError(minted, i) = "ok"
    OBVIOUS
  <2>2. minted[i] # PortDown /\ ~(sequence + i > MaxSequence)
    BY <2>1 DEF StageError
  <2> QED
    BY <2>2, <1>1
<1>3. ASSUME NEW i \in 1 .. size
      PROVE  [id |-> minted[i], seq |-> sequence + i, content |-> batch[i]] \in Envelope
  BY <1>1, <1>2 DEF Envelope, Sequences
<1>4. sequence + size \in 0 .. MaxSequence
  <2>1. CASE size = 0
    BY <2>1, <1>1
  <2>2. CASE size # 0
    BY <2>2, <1>1, <1>2
  <2> QED
    BY <2>1, <2>2
<1> QED
  BY <1>3, <1>4 DEF Staged

LEMMA ProposeTypeOK ==
  ASSUME TypeOK, NEW size \in 0 .. MaxBatch, NEW batch \in [1 .. size -> Candidates],
         NEW minted \in [1 .. size -> ProposalIds \union {PortDown}],
         ProposeCandidates(size, batch, minted)
  PROVE  TypeOK'
<1>1. CASE Answer("runtime_inactive") \/ Answer("sequence_exhausted")
  BY <1>1, AnswerTypeOK DEF Outcomes, ErrorCodes
<1>2. CASE \E i \in 1 .. size : Answer(StageError(minted, i))
  <2>1. PICK i \in 1 .. size : Answer(StageError(minted, i))
    BY <1>2
  <2>2. StageError(minted, i) \in Outcomes
    BY DEF StageError, Outcomes, ErrorCodes
  <2> QED
    BY <2>1, <2>2, AnswerTypeOK
<1>3. CASE /\ \A i \in 1 .. size : StageError(minted, i) = "ok"
           /\ HasNext(revision, MaxRevision)
           /\ CommitProposals(size, batch, minted)
  <2>1. /\ Staged(size, batch, minted) \in SUBSET Envelope
        /\ sequence + size \in 0 .. MaxSequence
    BY <1>3, StagedType
  <2>2. revision + 1 \in 0 .. MaxRevision
    BY <1>3, CountersAssumption DEF TypeOK, HasNext
  <2>3. InsertAll(pending, Staged(size, batch, minted)) \in SUBSET Envelope
    BY <2>1 DEF InsertAll, TypeOK
  <2> QED
    BY <1>3, <2>1, <2>2, <2>3 DEF CommitProposals, TypeOK, Outcomes, ErrorCodes
<1> QED
  BY <1>1, <1>2, <1>3 DEF ProposeCandidates

\* Both ways a decision takes an envelope out of `pending`, or leaves it there.
LEMMA DecideTypeOK ==
  ASSUME TypeOK, NEW envelope \in pending,
         NEW answer \in Capabilities \union {Withhold}, Decide(envelope, answer)
  PROVE  TypeOK'
<1>1. decisions' \in SUBSET Decision
  BY DEF Decide, TypeOK, Decision
<1>2. Remove(pending, envelope.id) \in SUBSET Envelope
  BY DEF Remove, TypeOK
<1>3. ASSUME NEW code \in {"authority_withheld", "authority_scope_exceeded"},
             ReleaseDecided(envelope, code), UNCHANGED <<sequence, held, admitted>>
      PROVE  TypeOK'
  <2>1. /\ pending' \in SUBSET Envelope
        /\ revision' \in 0 .. MaxRevision
        /\ outcome' \in Outcomes
    BY <1>2, <1>3, CountersAssumption DEF ReleaseDecided, HasNext, TypeOK, Outcomes, ErrorCodes
  <2> QED
    BY <1>1, <1>3, <2>1 DEF Decide, TypeOK
<1>4. ASSUME answer # Withhold, Grant(envelope, answer)
      PROVE  TypeOK'
  <2>1. CASE ~(HasNext(sequence, MaxSequence) /\ HasNext(revision, MaxRevision))
    <3>1. /\ outcome' \in Outcomes
          /\ UNCHANGED <<pending, sequence, revision, held, admitted>>
      BY <1>4, <2>1 DEF Grant, Outcomes, ErrorCodes
    <3> QED
      BY <1>1, <3>1 DEF Decide, TypeOK
  <2>2. CASE HasNext(sequence, MaxSequence) /\ HasNext(revision, MaxRevision)
    <3>1. sequence + 1 \in Sequences /\ revision + 1 \in 0 .. MaxRevision
      BY <2>2, CountersAssumption DEF HasNext, Sequences, TypeOK
    <3>2. AdmissionOf(envelope, answer) \in Admission
      BY <1>4, <3>1 DEF AdmissionOf, Admission, Envelope, TypeOK
    <3>3. /\ pending' = Remove(pending, envelope.id)
          /\ sequence' = sequence + 1
          /\ revision' = revision + 1
          /\ held' = held \union {AdmissionOf(envelope, answer)}
          /\ admitted' = admitted \union {AdmissionOf(envelope, answer)}
          /\ outcome' \in Outcomes
      BY <1>4, <2>2 DEF Grant, Outcomes, ErrorCodes
    <3>4. sequence' \in 0 .. MaxSequence
      BY <3>1, <3>3 DEF Sequences
    <3> QED
      BY <1>1, <1>2, <3>1, <3>2, <3>3, <3>4 DEF Decide, TypeOK
  <2> QED
    BY <2>1, <2>2
<1> QED
  BY <1>3, <1>4 DEF Decide

LEMMA AdmitTypeOK ==
  ASSUME TypeOK, NEW id \in ProposalIds,
         NEW answer \in Capabilities \union {Withhold, PortDown}, Admit(id, answer)
  PROVE  TypeOK'
<1>1. ASSUME NEW code \in {"runtime_inactive", "unknown_proposal", "missing_context"},
             Answer(code)
      PROVE  TypeOK'
  BY <1>1, AnswerTypeOK DEF Outcomes, ErrorCodes
<1>2. ASSUME NEW envelope \in pending, answer # PortDown, Decide(envelope, answer)
      PROVE  TypeOK'
  <2>1. answer \in Capabilities \union {Withhold}
    BY <1>2
  <2> QED
    BY <1>2, <2>1, DecideTypeOK
<1> QED
  BY <1>1, <1>2 DEF Admit

LEMMA DispatchTypeOK ==
  ASSUME TypeOK, NEW admission \in held, Dispatch(admission)
  PROVE  TypeOK'
<1>1. held' \in SUBSET Admission
  BY DEF Dispatch, Consume, TypeOK
<1>2. CASE ~HasNext(sequence, MaxSequence)
  <2>1. outcome' \in Outcomes /\ UNCHANGED <<sequence, revision, effects>>
    BY <1>2 DEF Dispatch, Outcomes, ErrorCodes
  <2> QED
    BY <1>1, <2>1 DEF Dispatch, TypeOK
<1>3. CASE HasNext(sequence, MaxSequence)
  <2>1. sequence + 1 \in Sequences /\ sequence' = sequence + 1 /\ BumpRevision
    BY <1>3, CountersAssumption DEF Dispatch, HasNext, Sequences, TypeOK
  <2>2. [seq |-> sequence + 1, content |-> admission.content,
         admission |-> admission.seq] \in Effect
    BY <2>1 DEF Effect, Admission, TypeOK
  <2>3. effects' \in SUBSET Effect
    BY <1>3, <2>2 DEF Dispatch, TypeOK
  <2>4. sequence' \in 0 .. MaxSequence
    BY <2>1 DEF Sequences
  <2> QED
    BY <1>1, <2>1, <2>3, <2>4, BumpRevisionType DEF Dispatch, TypeOK
<1> QED
  BY <1>2, <1>3

LEMMA SnapshotType == TypeOK => Snapshot \in SessionSnapshot
BY DEF TypeOK, Snapshot, SessionSnapshot

LEMMA RestoreTypeOK ==
  ASSUME TypeOK, NEW sameLine, Restore(sameLine)
  PROVE  TypeOK'
<1>1. CASE Answer("unsupported_contract_version") \/ Answer(RestoreVerdict(stored))
  BY <1>1, AnswerTypeOK DEF RestoreVerdict, Outcomes, ErrorCodes
<1>2. CASE Seat(stored)
  BY <1>2 DEF Seat, RollBack, TypeOK, SessionSnapshot, Outcomes, ErrorCodes
<1> QED
  BY <1>1, <1>2 DEF Restore

LEMMA StepTypeOK == TypeOK /\ [Next]_vars => TypeOK'
<1> SUFFICES ASSUME TypeOK, [Next]_vars
             PROVE  TypeOK'
  OBVIOUS
<1>1. ASSUME NEW transition, ApplyActivation(transition) PROVE TypeOK'
  BY <1>1, ApplyActivationTypeOK
<1>2. ASSUME NEW target, EnsureActivation(target) PROVE TypeOK'
  BY <1>2, EnsureActivationTypeOK
<1>3. ASSUME NEW replacement \in Binding, Rebind(replacement) PROVE TypeOK'
  BY <1>3, RebindTypeOK
<1>4. ASSUME NEW clockUp, Wake(clockUp) PROVE TypeOK'
  BY <1>4, WakeTypeOK
<1>5. CASE InferenceUnavailable
  BY <1>5, AnswerTypeOK DEF InferenceUnavailable, Outcomes, ErrorCodes
<1>6. ASSUME NEW size \in 0 .. MaxBatch, NEW batch \in [1 .. size -> Candidates],
             NEW minted \in [1 .. size -> ProposalIds \union {PortDown}],
             ProposeCandidates(size, batch, minted)
      PROVE  TypeOK'
  BY <1>6, ProposeTypeOK
<1>7. ASSUME NEW id \in ProposalIds,
             NEW answer \in Capabilities \union {Withhold, PortDown}, Admit(id, answer)
      PROVE  TypeOK'
  BY <1>7, AdmitTypeOK
<1>8. ASSUME NEW admission \in held, Dispatch(admission) PROVE TypeOK'
  BY <1>8, DispatchTypeOK
<1>9. CASE IntoSnapshot \/ TakeSnapshot
  BY <1>9, SnapshotType DEF IntoSnapshot, TakeSnapshot, TypeOK, durable, history, Outcomes, ErrorCodes
<1>10. CASE ProcessExit
  BY <1>10 DEF ProcessExit, TypeOK, durable, history, Outcomes, ErrorCodes
<1>11. CASE Crash
  <2>1. crashes' \in 0 .. MaxCrashes
    BY <1>11, CrashAssumption DEF Crash, TypeOK
  <2> QED
    BY <1>11, <2>1 DEF Crash, TypeOK, durable, history, Outcomes, ErrorCodes
<1>12. ASSUME NEW sameLine, Restore(sameLine) PROVE TypeOK'
  BY <1>12, RestoreTypeOK
<1>13. CASE UNCHANGED vars
  BY <1>13 DEF vars, durable, history, TypeOK
<1> QED
  BY <1>1, <1>2, <1>3, <1>4, <1>5, <1>6, <1>7, <1>8, <1>9, <1>10, <1>11, <1>12, <1>13
  DEF Next, Call

\* Every counter stays at or below its ceiling and every envelope, admission, effect,
\* decision and snapshot is well formed, for every ceiling and every input.
THEOREM TypeCorrect == Spec => []TypeOK
BY InitTypeOK, StepTypeOK, PTL DEF Spec

-----------------------------------------------------------------------------
(* A snapshot this session wrote is one `restore` seats.                   *)

SnapshotInv == RestoreVerdict(Snapshot) = "ok" /\ RestoreVerdict(stored) = "ok"

LEMMA VerdictMeans ==
  ASSUME NEW snapshot \in SessionSnapshot
  PROVE  RestoreVerdict(snapshot) = "ok" <=>
           /\ \A envelope \in snapshot.pending : envelope.seq =< snapshot.sequence
           /\ \A e, f \in snapshot.pending : e.id = f.id => e = f
<1>1. ASSUME NEW envelope \in snapshot.pending
      PROVE  (envelope.seq > snapshot.sequence) <=> ~(envelope.seq =< snapshot.sequence)
  BY CountersAssumption DEF SessionSnapshot, Envelope, Sequences
<1> QED
  BY <1>1 DEF RestoreVerdict

\* Steps that add no pending envelope and do not take the sequence back.
LEMMA SnapshotFrame ==
  ASSUME TypeOK, TypeOK', SnapshotInv, pending' \subseteq pending, sequence =< sequence',
         stored' = stored \/ stored' = Snapshot
  PROVE  SnapshotInv'
<1>1. Snapshot \in SessionSnapshot /\ Snapshot' \in SessionSnapshot
  BY SnapshotType DEF Snapshot, TypeOK, SessionSnapshot
<1>2. /\ \A envelope \in pending : envelope.seq =< sequence
      /\ \A e, f \in pending : e.id = f.id => e = f
  BY <1>1, VerdictMeans DEF SnapshotInv, Snapshot
<1>3. \A envelope \in pending' : envelope.seq =< sequence'
  <2> SUFFICES ASSUME NEW envelope \in pending' PROVE envelope.seq =< sequence'
    OBVIOUS
  <2>1. envelope.seq \in Nat /\ sequence \in Nat /\ sequence' \in Nat
    BY CountersAssumption DEF TypeOK, Envelope, Sequences
  <2> QED
    BY <1>2, <2>1
<1>4. RestoreVerdict(Snapshot') = "ok"
  BY <1>1, <1>2, <1>3, VerdictMeans DEF Snapshot
<1> QED
  BY <1>4 DEF SnapshotInv, RestoreVerdict

\* A committed round: the numbers are those just issued, the identifiers are new.
LEMMA StagedFresh ==
  ASSUME TypeOK, NEW size \in 0 .. MaxBatch, NEW batch \in [1 .. size -> Candidates],
         NEW minted \in [1 .. size -> ProposalIds \union {PortDown}],
         \A i \in 1 .. size : StageError(minted, i) = "ok"
  PROVE  /\ \A e \in Staged(size, batch, minted) :
              sequence < e.seq /\ e.seq =< sequence + size
         /\ \A e, f \in Staged(size, batch, minted) :
              e.id = f.id \/ e.seq = f.seq => e = f
         /\ \A e \in Staged(size, batch, minted), f \in pending : e.id # f.id
<1>1. size \in Nat /\ sequence \in Nat
  BY BatchAssumption, CountersAssumption DEF TypeOK
<1>2. ASSUME NEW i \in 1 .. size
      PROVE  /\ ~ContainsKey(pending, minted[i])
             /\ \A j \in 1 .. i - 1 : minted[j] # minted[i]
  BY DEF StageError, Repeated
<1>3. ASSUME NEW i \in 1 .. size, NEW j \in 1 .. size, minted[i] = minted[j]
      PROVE  i = j
  BY <1>1, <1>2, <1>3
<1> QED
  BY <1>1, <1>2, <1>3 DEF Staged, ContainsKey

LEMMA SnapshotCommit ==
  ASSUME TypeOK, TypeOK', SnapshotInv,
         NEW size \in 0 .. MaxBatch, NEW batch \in [1 .. size -> Candidates],
         NEW minted \in [1 .. size -> ProposalIds \union {PortDown}],
         \A i \in 1 .. size : StageError(minted, i) = "ok",
         CommitProposals(size, batch, minted)
  PROVE  SnapshotInv'
<1>1. Snapshot \in SessionSnapshot /\ Snapshot' \in SessionSnapshot
  BY SnapshotType DEF Snapshot, TypeOK, SessionSnapshot
<1>2. /\ \A envelope \in pending : envelope.seq =< sequence
      /\ \A e, f \in pending : e.id = f.id => e = f
  BY <1>1, VerdictMeans DEF SnapshotInv, Snapshot
<1>3. /\ pending' \subseteq pending \union Staged(size, batch, minted)
      /\ sequence' = sequence + size /\ stored' = stored
  BY DEF CommitProposals, InsertAll
<1>4. size \in Nat /\ sequence \in Nat
  BY BatchAssumption, CountersAssumption DEF TypeOK
<1>5. ASSUME NEW envelope \in pending' PROVE envelope.seq =< sequence'
  <2>1. envelope.seq \in Nat
    BY CountersAssumption DEF TypeOK, Envelope, Sequences
  <2> QED
    BY <1>2, <1>3, <1>4, <2>1, StagedFresh
<1>6. ASSUME NEW e \in pending', NEW f \in pending', e.id = f.id PROVE e = f
  BY <1>2, <1>3, <1>6, StagedFresh
<1>7. RestoreVerdict(Snapshot') = "ok"
  BY <1>1, <1>5, <1>6, VerdictMeans DEF Snapshot
<1> QED
  BY <1>3, <1>7 DEF SnapshotInv, RestoreVerdict

LEMMA SnapshotAnswer ==
  ASSUME SnapshotInv, NEW code, Answer(code)
  PROVE  SnapshotInv'
BY DEF Answer, durable, history, SnapshotInv, RestoreVerdict, Snapshot

\* What a decision and a dispatch do to the counters and to `pending`.
LEMMA DecideShrinks ==
  ASSUME TypeOK, NEW envelope \in pending, NEW answer, Decide(envelope, answer)
  PROVE  pending' \subseteq pending /\ sequence =< sequence' /\ stored' = stored
<1>1. sequence \in Nat
  BY CountersAssumption DEF TypeOK
<1> QED
  BY <1>1 DEF Decide, ReleaseDecided, Grant, Remove

LEMMA DispatchShrinks ==
  ASSUME TypeOK, NEW admission, Dispatch(admission)
  PROVE  pending' = pending /\ sequence =< sequence' /\ stored' = stored
<1>1. sequence \in Nat
  BY CountersAssumption DEF TypeOK
<1> QED
  BY <1>1 DEF Dispatch

LEMMA StepSnapshot == TypeOK /\ TypeOK' /\ SnapshotInv /\ [Next]_vars => SnapshotInv'
<1> SUFFICES ASSUME TypeOK, TypeOK', SnapshotInv, [Next]_vars
             PROVE  SnapshotInv'
  OBVIOUS
<1>0. sequence =< sequence
  BY CountersAssumption DEF TypeOK
<1>1. ASSUME NEW transition, ApplyActivation(transition) PROVE SnapshotInv'
  BY <1>0, <1>1, SnapshotAnswer, SnapshotFrame DEF ApplyActivation
<1>2. ASSUME NEW target, EnsureActivation(target) PROVE SnapshotInv'
  BY <1>1, <1>2, SnapshotAnswer DEF EnsureActivation
<1>3. ASSUME NEW replacement, Rebind(replacement) PROVE SnapshotInv'
  BY <1>0, <1>3, SnapshotAnswer, SnapshotFrame DEF Rebind
<1>4. ASSUME NEW clockUp, Wake(clockUp) PROVE SnapshotInv'
  BY <1>0, <1>4, SnapshotAnswer, SnapshotFrame DEF Wake
<1>5. CASE InferenceUnavailable
  BY <1>5, SnapshotAnswer DEF InferenceUnavailable
<1>6. ASSUME NEW size \in 0 .. MaxBatch, NEW batch \in [1 .. size -> Candidates],
             NEW minted \in [1 .. size -> ProposalIds \union {PortDown}],
             ProposeCandidates(size, batch, minted)
      PROVE  SnapshotInv'
  <2>1. CASE \E code : Answer(code)
    BY <2>1, SnapshotAnswer
  <2>2. CASE /\ \A i \in 1 .. size : StageError(minted, i) = "ok"
             /\ CommitProposals(size, batch, minted)
    BY <2>2, SnapshotCommit
  <2> QED
    BY <1>6, <2>1, <2>2 DEF ProposeCandidates
<1>7. ASSUME NEW id, NEW answer, Admit(id, answer) PROVE SnapshotInv'
  BY <1>7, SnapshotAnswer, DecideShrinks, SnapshotFrame DEF Admit
<1>8. ASSUME NEW admission, Dispatch(admission) PROVE SnapshotInv'
  BY <1>8, DispatchShrinks, SnapshotFrame
<1>9. CASE IntoSnapshot \/ TakeSnapshot
  BY <1>0, <1>9, SnapshotFrame DEF IntoSnapshot, TakeSnapshot, durable
<1>10. CASE ProcessExit \/ Crash
  BY <1>0, <1>10, SnapshotFrame DEF ProcessExit, Crash, durable
<1>11. ASSUME NEW sameLine, Restore(sameLine) PROVE SnapshotInv'
  <2>1. CASE Seat(stored)
    BY <2>1 DEF Seat, SnapshotInv, RestoreVerdict, Snapshot
  <2> QED
    BY <1>11, <2>1, SnapshotAnswer DEF Restore
<1>12. CASE UNCHANGED vars
  BY <1>0, <1>12, SnapshotFrame DEF vars, durable
<1> QED
  BY <1>1, <1>2, <1>3, <1>4, <1>5, <1>6, <1>7, <1>8, <1>9, <1>10, <1>11, <1>12
  DEF Next, Call

\* Whatever the session was doing when a snapshot was taken, `restore` seats it: no
\* snapshot this code writes is one this code refuses as contradictory.
THEOREM SnapshotsSeat == Spec => []OwnSnapshotSeats
<1>1. Init => SnapshotInv
  BY DEF Init, SnapshotInv, RestoreVerdict, Snapshot
<1>2. SnapshotInv => OwnSnapshotSeats
  BY DEF SnapshotInv, OwnSnapshotSeats
<1> QED
  BY <1>1, <1>2, TypeCorrect, StepSnapshot, PTL DEF Spec
=============================================================================
