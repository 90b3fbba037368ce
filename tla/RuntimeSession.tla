--------------------------- MODULE RuntimeSession ---------------------------
(***************************************************************************)
(* The session kernel of crates/aiai-runtime: one bounded activation of a  *)
(* replaceable runtime on behalf of one durable subject.                   *)
(*                                                                         *)
(* Every method of RuntimeSession takes `&mut self` (or consumes a value), *)
(* so a call is one atomic step; what is interleaved is the order of the   *)
(* calls, what the ports answer, the Admitted values the caller still      *)
(* holds, and the restarts between a stored snapshot and the session it    *)
(* seats.  `proposed`, `admitted`, `effects` and `decisions` are history:  *)
(* what the session emitted and what the authority port answered.  No call *)
(* reads it.  A session seated on a snapshot older than the crash it       *)
(* recovers from continues from that snapshot, so its history is what was  *)
(* emitted up to there (RollBack).  A call leaves its result in `outcome`: *)
(* "ok" or an error code.                                                  *)
(*                                                                         *)
(* MaxSequence and MaxRevision stand for u64::MAX, the ceiling of the two  *)
(* DecimalU64 counters; the code's behaviour at the ceiling is modelled.   *)
(***************************************************************************)
EXTENDS Naturals, FailureTaxonomy

CONSTANTS
  ProposalIds,   \* what the identifier port can mint
  Candidates,    \* requested capability and payload of a candidate, as one value
  Capabilities,
  Subjects,
  Computations,  \* controller, runtime and model of a binding, as one value
  MaxSequence,   \* ceiling of the emission sequence
  MaxRevision,   \* ceiling of the session revision
  MaxBatch,      \* bound on the candidates of one proposal round
  MaxCrashes,    \* bound on crashes; 0 also means no snapshot but the last is kept
  PortDown,      \* a port answers PortError
  Withhold       \* AuthorityDecision::Withhold

ASSUME CountersAssumption == MaxSequence \in Nat /\ MaxRevision \in Nat
ASSUME BatchAssumption == MaxBatch \in Nat
ASSUME CrashAssumption == MaxCrashes \in Nat
ASSUME PortAssumption == PortDown \notin ProposalIds \union Capabilities
ASSUME WithholdAssumption == Withhold \notin Capabilities \union {PortDown}

VARIABLES
  running,     \* the session is seated in a process
  binding, scope, activation, sequence, revision, pending,
  held,        \* Admitted values the caller has not dispatched
  stored,      \* the snapshot the product keeps
  crashes,
  proposed, admitted, effects, decisions,
  outcome      \* result of the last call

durable == <<binding, scope, activation, sequence, revision, pending>>
history == <<proposed, admitted, effects, decisions>>
vars == <<running, durable, held, stored, crashes, history, outcome>>

-----------------------------------------------------------------------------
(* Values.                                                                 *)

Sequences == 1 .. MaxSequence

Envelope == [id : ProposalIds, seq : Sequences, content : Candidates]

\* `origin` (the proposal's own number) is history, not part of the envelope.
Admission == [id : ProposalIds, seq : Sequences, content : Candidates,
              capability : Capabilities, origin : Sequences]

\* `admission` (the number of the admission it consumed) is history.
Effect == [seq : Sequences, content : Candidates, admission : Sequences]

Binding == [subject : Subjects, computation : Computations]

ActivationState == {"dormant", "active", "quiescing"}

Decision == [proposal : Envelope, answer : Capabilities \union {Withhold}]

SessionSnapshot ==
  [binding : Binding, scope : SUBSET Capabilities, activation : ActivationState,
   sequence : 0 .. MaxSequence, revision : 0 .. MaxRevision,
   pending : SUBSET Envelope]

Outcomes == ErrorCodes \union {"ok"}

TypeOK ==
  /\ running \in BOOLEAN
  /\ binding \in Binding
  /\ scope \in SUBSET Capabilities
  /\ activation \in ActivationState
  /\ sequence \in 0 .. MaxSequence
  /\ revision \in 0 .. MaxRevision
  /\ pending \in SUBSET Envelope
  /\ held \in SUBSET Admission
  /\ stored \in SessionSnapshot
  /\ proposed \in SUBSET Envelope
  /\ admitted \in SUBSET Admission
  /\ effects \in SUBSET Effect
  /\ decisions \in SUBSET Decision
  /\ crashes \in 0 .. MaxCrashes
  /\ outcome \in Outcomes

-----------------------------------------------------------------------------
(* Activation, scope and counters.                                         *)

MayInitiate(state) == state = "active"

MaySettleInFlight(state) == state \in {"active", "quiescing"}

\* <<state, transition, next state>> for every pair `apply` defines.
Transitions == {<<"dormant", "wake", "active">>,
                <<"active", "quiesce", "quiescing">>,
                <<"quiescing", "settle", "dormant">>}

Permits_AnyGrant(granted) == granted \in Capabilities  \* mutant: no scope check
Permits(granted) == granted \in scope

\* DecimalU64::next answers None at the ceiling.
HasNext_OneMore(counter, ceiling) == counter =< ceiling  \* mutant: off by one
HasNext(counter, ceiling) == counter < ceiling

\* bump_revision, the last fallible step of the call that uses it.
BumpRevision ==
  IF HasNext(revision, MaxRevision)
    THEN revision' = revision + 1 /\ outcome' = "ok"
    ELSE revision' = revision /\ outcome' = "sequence_exhausted"

\* The call returns without having changed anything.
Answer(code) ==
  /\ outcome' = code
  /\ UNCHANGED <<running, durable, held, stored, crashes, history>>

-----------------------------------------------------------------------------
(* Activation and binding.                                                 *)

\* The activation is assigned before the revision is bumped.
ApplyActivation(transition) ==
  /\ running
  /\ \/ \E next \in ActivationState :
          /\ <<activation, transition, next>> \in Transitions
          /\ activation' = next
          /\ BumpRevision
          /\ UNCHANGED <<running, binding, scope, sequence, pending, held, stored,
                         crashes, history>>
     \/ /\ \A next \in ActivationState :
             <<activation, transition, next>> \notin Transitions
        /\ Answer("runtime_inactive")

\* `transition_to` resolves the target to no transition, to one, or to none defined.
EnsureActivation(target) ==
  /\ running
  /\ \/ /\ target = activation
        /\ Answer("ok")
     \/ \E transition \in {"wake", "quiesce", "settle"} :
          /\ <<activation, transition, target>> \in Transitions
          /\ ApplyActivation(transition)
     \/ /\ target # activation
        /\ \A transition \in {"wake", "quiesce", "settle"} :
             <<activation, transition, target>> \notin Transitions
        /\ Answer("runtime_inactive")

SameSubject_Computation(replacement) ==  \* mutant: compares the wrong part
  replacement.computation = binding.computation
SameSubject(replacement) == replacement.subject = binding.subject

\* The binding is assigned before the revision is bumped.
Rebind(replacement) ==
  /\ running
  /\ \/ /\ ~SameSubject(replacement)
        /\ Answer("subject_continuity_violation")
     \/ /\ SameSubject(replacement)
        /\ binding' = replacement
        /\ BumpRevision
        /\ UNCHANGED <<running, scope, activation, sequence, pending, held, stored,
                       crashes, history>>

Wake_BumpsFirst(clockUp) ==  \* mutant: the revision is bumped before the clock is read
  /\ running
  /\ UNCHANGED <<running, binding, scope, activation, sequence, pending, held, stored,
                 crashes, history>>
  /\ IF MayInitiate(activation) /\ HasNext(revision, MaxRevision)
       THEN revision' = revision + 1
       ELSE revision' = revision
  /\ outcome' = IF clockUp THEN "ok" ELSE "missing_context"

Wake(clockUp) ==
  /\ running
  /\ \/ /\ ~MayInitiate(activation)
        /\ Answer("runtime_inactive")
     \/ /\ MayInitiate(activation)
        /\ ~clockUp
        /\ Answer("missing_context")
     \/ /\ MayInitiate(activation)
        /\ clockUp
        /\ BumpRevision
        /\ UNCHANGED <<running, binding, scope, activation, sequence, pending, held,
                       stored, crashes, history>>

-----------------------------------------------------------------------------
(* Proposing.  A round is `size` candidates and, for each, what the        *)
(* identifier port answers: minted[i] is an identifier or PortDown.        *)

ContainsKey(map, id) == \E envelope \in map : envelope.id = id

\* BTreeMap::insert of every staged envelope: a key already there is replaced.
InsertAll(map, staged) ==
  {envelope \in map : ~ContainsKey(staged, envelope.id)} \union staged

Remove_Keeps(map, id) == map  \* mutant: the entry is read, not removed
Remove(map, id) == {envelope \in map : envelope.id # id}

\* The identifier of candidate i is one the session or the batch already holds.
Repeated_InBatch(minted, i) ==  \* mutant: only the batch is searched
  \E j \in 1 .. i - 1 : minted[j] = minted[i]
Repeated(minted, i) ==
  ContainsKey(pending, minted[i]) \/ \E j \in 1 .. i - 1 : minted[j] = minted[i]

\* The first step that fails while candidate i is staged, if one does.
StageError(minted, i) ==
  IF minted[i] = PortDown THEN "missing_context"
  ELSE IF Repeated(minted, i) THEN "duplicate_proposal_id"
  ELSE IF sequence + i > MaxSequence THEN "sequence_exhausted"
  ELSE "ok"

Staged_OneAhead(size, batch, minted) ==  \* mutant: numbers start one too high
  {[id |-> minted[i], seq |-> sequence + i + 1, content |-> batch[i]] : i \in 1 .. size}
Staged(size, batch, minted) ==
  {[id |-> minted[i], seq |-> sequence + i, content |-> batch[i]] : i \in 1 .. size}

CommitProposals(size, batch, minted) ==
  /\ pending' = InsertAll(pending, Staged(size, batch, minted))
  /\ proposed' = proposed \union Staged(size, batch, minted)
  /\ sequence' = sequence + size
  /\ revision' = revision + 1
  /\ outcome' = "ok"
  /\ UNCHANGED <<running, binding, scope, activation, held, stored, crashes, admitted,
                 effects, decisions>>

\* Stage every candidate, reserve the revision, then commit.
ProposeCandidates(size, batch, minted) ==
  /\ running
  /\ \/ /\ ~MayInitiate(activation)
        /\ Answer("runtime_inactive")
     \/ /\ MayInitiate(activation)
        /\ \E i \in 1 .. size :
             /\ StageError(minted, i) # "ok"
             /\ \A j \in 1 .. i - 1 : StageError(minted, j) = "ok"
             /\ Answer(StageError(minted, i))
     \/ /\ MayInitiate(activation)
        /\ \A i \in 1 .. size : StageError(minted, i) = "ok"
        /\ ~HasNext(revision, MaxRevision)
        /\ Answer("sequence_exhausted")
     \/ /\ MayInitiate(activation)
        /\ \A i \in 1 .. size : StageError(minted, i) = "ok"
        /\ HasNext(revision, MaxRevision)
        /\ CommitProposals(size, batch, minted)

\* `propose` when the inference port is down; when it answers, the call goes on
\* as ProposeCandidates.
InferenceUnavailable ==
  /\ running
  /\ IF MayInitiate(activation) THEN Answer("inference_unavailable")
                                ELSE Answer("runtime_inactive")

-----------------------------------------------------------------------------
(* Admission.  `answer` is what the authority port says about the pending  *)
(* envelope: a granted capability, Withhold, or PortDown.                  *)

\* The revision is reserved before the entry is removed.
ReleaseDecided(envelope, code) ==
  IF HasNext(revision, MaxRevision)
    THEN /\ pending' = Remove(pending, envelope.id)
         /\ revision' = revision + 1
         /\ outcome' = code
    ELSE /\ outcome' = "sequence_exhausted"
         /\ UNCHANGED <<pending, revision>>

AdmissionOf_LastNumber(envelope, granted) ==  \* mutant: the number before `next`
  [id |-> envelope.id, seq |-> sequence, content |-> envelope.content,
   capability |-> granted, origin |-> envelope.seq]
AdmissionOf(envelope, granted) ==
  [id |-> envelope.id, seq |-> sequence + 1, content |-> envelope.content,
   capability |-> granted, origin |-> envelope.seq]

\* Both counters are reserved before the entry is removed.
Grant(envelope, granted) ==
  IF HasNext(sequence, MaxSequence) /\ HasNext(revision, MaxRevision)
    THEN /\ pending' = Remove(pending, envelope.id)
         /\ sequence' = sequence + 1
         /\ revision' = revision + 1
         /\ held' = held \union {AdmissionOf(envelope, granted)}
         /\ admitted' = admitted \union {AdmissionOf(envelope, granted)}
         /\ outcome' = "ok"
    ELSE /\ outcome' = "sequence_exhausted"
         /\ UNCHANGED <<pending, sequence, revision, held, admitted>>

Decide(envelope, answer) ==
  /\ decisions' = decisions \union {[proposal |-> envelope, answer |-> answer]}
  /\ UNCHANGED <<running, binding, scope, activation, stored, crashes, proposed, effects>>
  /\ \/ /\ answer = Withhold
        /\ ReleaseDecided(envelope, "authority_withheld")
        /\ UNCHANGED <<sequence, held, admitted>>
     \/ /\ answer # Withhold
        /\ ~Permits(answer)
        /\ ReleaseDecided(envelope, "authority_scope_exceeded")
        /\ UNCHANGED <<sequence, held, admitted>>
     \/ /\ answer # Withhold
        /\ Permits(answer)
        /\ Grant(envelope, answer)

\* The gate comes first, then the lookup; the authority is asked only about an
\* envelope the session holds.
Admit(id, answer) ==
  /\ running
  /\ \/ /\ ~MaySettleInFlight(activation)
        /\ Answer("runtime_inactive")
     \/ /\ MaySettleInFlight(activation)
        /\ ~ContainsKey(pending, id)
        /\ Answer("unknown_proposal")
     \/ /\ MaySettleInFlight(activation)
        /\ \E envelope \in pending :
             /\ envelope.id = id
             /\ \/ answer = PortDown /\ Answer("missing_context")
                \/ answer # PortDown /\ Decide(envelope, answer)

\* `admission` is taken by value: the caller loses it whatever happens.
Consume_Copies(admission) == held' = held  \* mutant: Admitted is Clone
Consume(admission) == held' = held \ {admission}

Dispatch_GatedLate(admission) ==  \* mutant: a gate is asked once the value is taken
  /\ running
  /\ Consume(admission)
  /\ UNCHANGED <<running, binding, scope, activation, pending, stored, crashes,
                 proposed, admitted, decisions>>
  /\ \/ /\ ~MaySettleInFlight(activation)
        /\ outcome' = "runtime_inactive"
        /\ UNCHANGED <<sequence, revision, effects>>
     \/ /\ MaySettleInFlight(activation) /\ HasNext(sequence, MaxSequence)
        /\ sequence' = sequence + 1
        /\ BumpRevision
        /\ effects' = effects \union {[seq |-> sequence + 1, content |-> admission.content,
                                        admission |-> admission.seq]}

\* No gate is consulted, and the sequence is advanced before the revision is bumped.
Dispatch(admission) ==
  /\ running
  /\ Consume(admission)
  /\ UNCHANGED <<running, binding, scope, activation, pending, stored, crashes,
                 proposed, admitted, decisions>>
  /\ \/ /\ ~HasNext(sequence, MaxSequence)
        /\ outcome' = "sequence_exhausted"
        /\ UNCHANGED <<sequence, revision, effects>>
     \/ /\ HasNext(sequence, MaxSequence)
        /\ sequence' = sequence + 1
        /\ BumpRevision
        /\ effects' = IF HasNext(revision, MaxRevision)
                        THEN effects \union {[seq |-> sequence + 1,
                                              content |-> admission.content,
                                              admission |-> admission.seq]}
                        ELSE effects

-----------------------------------------------------------------------------
(* Reports and snapshots.                                                  *)

\* What turn_ok answers for a set of identifiers.
TurnOk(ids) ==
  IF \A id \in ids : ContainsKey(pending, id)
    THEN [outcome |-> "ok", session_revision |-> revision,
          proposals |-> {envelope \in pending : envelope.id \in ids}]
    ELSE [outcome |-> "unknown_proposal", session_revision |-> revision,
          proposals |-> {}]

Snapshot == [binding |-> binding, scope |-> scope, activation |-> activation,
             sequence |-> sequence, revision |-> revision, pending |-> pending]

\* What `restore` finds wrong with a snapshot of its own contract line.
RestoreVerdict(snapshot) ==
  IF \E envelope \in snapshot.pending : envelope.seq > snapshot.sequence
    THEN "malformed_envelope"
  ELSE IF \E e, f \in snapshot.pending : e # f /\ e.id = f.id
    THEN "duplicate_proposal_id"
  ELSE "ok"

\* What was emitted after the snapshot, and what was answered since then about
\* envelopes the snapshot still holds, is no part of the session it seats.
RollBack(snapshot) ==
  /\ proposed' = {e \in proposed : e.seq =< snapshot.sequence}
  /\ admitted' = {a \in admitted : a.seq =< snapshot.sequence}
  /\ effects' = {e \in effects : e.seq =< snapshot.sequence}
  /\ decisions' = {d \in decisions : /\ d.proposal.seq =< snapshot.sequence
                                    /\ d.proposal \notin snapshot.pending \ pending}

Seat_FromZero(snapshot) ==  \* mutant: numbers start again
  /\ running' = TRUE
  /\ binding' = snapshot.binding
  /\ scope' = snapshot.scope
  /\ activation' = snapshot.activation
  /\ sequence' = 0
  /\ revision' = snapshot.revision
  /\ pending' = snapshot.pending
  /\ outcome' = "ok"
  /\ RollBack(snapshot)
  /\ UNCHANGED <<held, stored, crashes>>
Seat_KeepsRevision(snapshot) ==  \* mutant: the revision is not taken from the snapshot
  /\ running' = TRUE
  /\ binding' = snapshot.binding
  /\ scope' = snapshot.scope
  /\ activation' = snapshot.activation
  /\ sequence' = snapshot.sequence
  /\ pending' = snapshot.pending
  /\ outcome' = "ok"
  /\ RollBack(snapshot)
  /\ UNCHANGED <<revision, held, stored, crashes>>
Seat(snapshot) ==
  /\ running' = TRUE
  /\ binding' = snapshot.binding
  /\ scope' = snapshot.scope
  /\ activation' = snapshot.activation
  /\ sequence' = snapshot.sequence
  /\ revision' = snapshot.revision
  /\ pending' = snapshot.pending
  /\ outcome' = "ok"
  /\ RollBack(snapshot)
  /\ UNCHANGED <<held, stored, crashes>>

\* into_snapshot: the session ends.  Its variables keep their last value, which
\* no call reads until Seat assigns them again.
IntoSnapshot ==
  /\ running
  /\ running' = FALSE
  /\ stored' = Snapshot
  /\ outcome' = "ok"
  /\ UNCHANGED <<durable, held, crashes, history>>

\* The process that held the Admitted values ends after the session was stored.
ProcessExit ==
  /\ ~running
  /\ held # {}
  /\ held' = {}
  /\ outcome' = "ok"
  /\ UNCHANGED <<running, durable, stored, crashes, history>>

\* snapshot() taken while the session goes on.
TakeSnapshot ==
  /\ MaxCrashes > 0
  /\ running
  /\ stored' = Snapshot
  /\ outcome' = "ok"
  /\ UNCHANGED <<running, durable, held, crashes, history>>

\* The process dies with the session and every Admitted value in it.
Crash ==
  /\ running
  /\ crashes < MaxCrashes
  /\ crashes' = crashes + 1
  /\ running' = FALSE
  /\ held' = {}
  /\ outcome' = "ok"
  /\ UNCHANGED <<durable, stored, history>>

\* `sameLine`: the build that restores implements the snapshot's contract line.
Restore(sameLine) ==
  /\ ~running
  /\ \/ /\ ~sameLine
        /\ Answer("unsupported_contract_version")
     \/ /\ sameLine
        /\ IF RestoreVerdict(stored) = "ok" THEN Seat(stored)
                                            ELSE Answer(RestoreVerdict(stored))

-----------------------------------------------------------------------------
\* A session is opened dormant, with the scope and binding its owner chose; the
\* product has stored it.
Init ==
  /\ running = TRUE
  /\ binding \in Binding
  /\ scope \in SUBSET Capabilities
  /\ activation = "dormant"
  /\ sequence = 0
  /\ revision = 0
  /\ pending = {}
  /\ held = {}
  /\ stored = Snapshot
  /\ proposed = {}
  /\ admitted = {}
  /\ effects = {}
  /\ decisions = {}
  /\ crashes = 0
  /\ outcome = "ok"

Call ==
  \/ \E transition \in {"wake", "quiesce", "settle"} : ApplyActivation(transition)
  \/ \E target \in ActivationState : EnsureActivation(target)
  \/ \E replacement \in Binding : Rebind(replacement)
  \/ \E clockUp \in BOOLEAN : Wake(clockUp)
  \/ InferenceUnavailable
  \/ \E size \in 0 .. MaxBatch :
       \E batch \in [1 .. size -> Candidates],
          minted \in [1 .. size -> ProposalIds \union {PortDown}] :
         ProposeCandidates(size, batch, minted)
  \/ \E id \in ProposalIds, answer \in Capabilities \union {Withhold, PortDown} :
       Admit(id, answer)
  \/ \E admission \in held : Dispatch(admission)

Next ==
  \/ Call
  \/ IntoSnapshot
  \/ ProcessExit
  \/ TakeSnapshot
  \/ Crash
  \/ \E sameLine \in BOOLEAN : Restore(sameLine)

Spec == Init /\ [][Next]_vars
-----------------------------------------------------------------------------
(* Properties.                                                             *)

\* A session and what it emitted is, after a crash, what RollBack leaves of it: each
\* property held of what is undone in the state before.

\* An Admitted value, and with it every effect, goes back to a proposal this
\* session minted earlier under that identifier with that content, to an answer
\* of the authority port about that very envelope, and to a capability of the
\* session's scope (session.rs propose, admit, dispatch).
GrantedInScope(admission) ==
  /\ admission.capability \in scope
  /\ [proposal |-> [id |-> admission.id, seq |-> admission.origin,
                    content |-> admission.content],
      answer |-> admission.capability] \in decisions

EffectsAreAuthorised ==
  /\ \A admission \in held \union admitted : GrantedInScope(admission)
  /\ \A effect \in effects : \E admission \in admitted :
       admission.seq = effect.admission /\ admission.content = effect.content

\* One proposal is admitted at most once and one admission becomes at most one
\* effect, unless a crash undid the first: the Admitted value is consumed, and an
\* admitted proposal is never pending again (session.rs admit, dispatch, restore).
AtMostOneEffect ==
  /\ \A a, b \in admitted : a.origin = b.origin => a = b
  /\ \A e, f \in effects : e.admission = f.admission => e = f
  /\ \A a \in admitted, envelope \in pending : a.origin # envelope.seq
  /\ \A a \in held, e \in effects : a.seq # e.admission

\* A proposal leaves the session only after the authority decided it: whatever was
\* minted is still pending, or there is an answer about it (session.rs admit,
\* "released only on a terminal authority decision").
NoProposalLost ==
  \A envelope \in proposed :
    envelope \in pending \/ \E decision \in decisions : decision.proposal = envelope

\* The snapshot the product stored is always one `restore` seats: no pending
\* envelope runs ahead of the counter, and no identifier appears twice.
OwnSnapshotSeats == RestoreVerdict(stored) = "ok"

\* Emission numbers strictly increase over proposals, admissions and effects
\* together, so a session never issues a number twice; a restore goes on with the
\* numbers after its snapshot's (session.rs propose, admit, dispatch, restore).
Emitted == {e.seq : e \in proposed} \union {a.seq : a \in admitted}
             \union {e.seq : e \in effects}

Increases ==
  /\ \A n \in Emitted' \ Emitted : \A m \in Emitted : m < n
  /\ \A e \in proposed' \ proposed : e.seq \notin Emitted
  /\ \A a \in admitted' \ admitted : a.seq \notin Emitted
  /\ \A e \in effects' \ effects : e.seq \notin Emitted

EmissionsIncrease == [][Increases]_vars

\* The revision names the session's state: it goes back only when a snapshot older
\* than a crash is seated, and two states with one revision give the same report for
\* every set of identifiers, which is what a TurnOk carries a revision for, restarts
\* included.  Below the ceiling the binding, the activation and the sequence are
\* covered too (at it three methods assign before they bump; see
\* ExhaustionFailsClosed).
Revised ==
  /\ revision' < revision => crashes > 0 /\ ~running /\ running'
  /\ revision' = revision =>
       /\ \A ids \in SUBSET ProposalIds : TurnOk(ids)' = TurnOk(ids)
       /\ HasNext(revision, MaxRevision) => UNCHANGED <<binding, activation, sequence>>

RevisionNamesState == [][Revised]_vars

\* What the kind of a failure says is what the call did (error.rs FailureKind).  A
\* port that is down, a closed gate or a contradiction decided nothing and changed
\* nothing, so a failed round is not partly committed and the call can be made again.
\* A decision that was not the one wanted is on record, took exactly the proposal it
\* is about and nothing else, and moved the revision.  Exhaustion met a ceiling, and
\* emitted nothing and released no proposal.
NothingHappened == UNCHANGED <<running, durable, held, stored, crashes, history>>

DecidedAgainst(envelope, answers) ==
  /\ pending' = pending \ {envelope}
  /\ \E answer \in answers :
       decisions' = decisions \union {[proposal |-> envelope, answer |-> answer]}
  /\ revision' = revision + 1
  /\ UNCHANGED <<running, binding, scope, activation, sequence, held, stored, crashes,
                 proposed, admitted, effects>>

AtCeiling ==
  revision = MaxRevision \/ sequence = MaxSequence \/ sequence + MaxBatch > MaxSequence

MeansItsKind ==
  /\ outcome' \in Unavailable \union Gated \union Rejected => NothingHappened
  /\ outcome' \in Withheld =>
       \E envelope \in pending :
         DecidedAgainst(envelope, IF outcome' = "authority_withheld"
                                    THEN {Withhold} ELSE Capabilities \ scope)
  /\ outcome' \in Exhausted =>
       AtCeiling /\ UNCHANGED <<pending, proposed, admitted, effects>>

FailuresMeanTheirKind == [][MeansItsKind]_vars

\* A permission a caller gives up becomes the one effect it permits, with its content,
\* or the process that held it is gone, or a counter is at its ceiling: no other
\* answer may cost a permission, since its proposal can never be decided again
\* (session.rs dispatch takes Admitted by value; admission.rs "moved into dispatch").
SpentOnEffect(admission) ==
  \E effect \in effects' \ effects :
    effect.admission = admission.seq /\ effect.content = admission.content

PermissionsSpent ==
  \A admission \in held \ held' :
    SpentOnEffect(admission) \/ ~running' \/ (outcome' \in Exhausted /\ AtCeiling)

PermissionsEndInEffects == [][PermissionsSpent]_vars

\* Whatever happens, restarts and rebinds included, the session serves one subject
\* under one scope, and a seated session is the one that was stored.
Continues ==
  /\ binding'.subject = binding.subject
  /\ scope' = scope
  /\ ~running /\ running' => Snapshot' = stored

SubjectContinues == [][Continues]_vars

\* Claim (error.rs:106-107, "A counter reached its ceiling. It fails closed"):
\* a call that reports sequence_exhausted has changed nothing.
ExhaustionFailsClosed ==
  [][outcome' = "sequence_exhausted" => UNCHANGED durable]_vars

\* Claim (activation.rs:13-14, "The runtime initiates nothing and finishes
\* nothing"): a dormant session emits no effect request.
DormantFinishesNothing ==
  [][running /\ activation = "dormant" => UNCHANGED effects]_vars
=============================================================================
