------------------------- MODULE SessionOrderProofs -------------------------
(***************************************************************************)
(* Theorems about the order of a session's emissions and the provenance of *)
(* its effects, for every value of the constants, any crashes and any      *)
(* snapshot seated after one.                                              *)
(***************************************************************************)
EXTENDS RuntimeSessionProofs

-----------------------------------------------------------------------------
(* A step numbers what it emits above the counter it started from.         *)

NumberedAbove ==
  /\ \A e \in proposed' \ proposed : e.seq > sequence
  /\ \A a \in admitted' \ admitted : a.seq > sequence
  /\ \A e \in effects' \ effects : e.seq > sequence

LEMMA AboveFrame ==
  ASSUME UNCHANGED <<proposed, admitted, effects>>
  PROVE  NumberedAbove
BY DEF NumberedAbove

LEMMA AboveAnswer ==
  ASSUME NEW code, Answer(code)
  PROVE  NumberedAbove
BY AboveFrame DEF Answer, history

LEMMA AboveDecide ==
  ASSUME TypeOK, NEW envelope \in pending, NEW answer, Decide(envelope, answer)
  PROVE  NumberedAbove
<1>1. sequence \in Nat
  BY CountersAssumption DEF TypeOK
<1>2. UNCHANGED <<proposed, effects>>
  BY DEF Decide
<1>3. \A a \in admitted' \ admitted : a.seq = sequence + 1
  BY DEF Decide, Grant, AdmissionOf
<1> QED
  BY <1>1, <1>2, <1>3 DEF NumberedAbove

LEMMA AboveDispatch ==
  ASSUME TypeOK, NEW admission, Dispatch(admission)
  PROVE  NumberedAbove
<1>1. sequence \in Nat
  BY CountersAssumption DEF TypeOK
<1>2. UNCHANGED <<proposed, admitted>>
  BY DEF Dispatch
<1>3. \A e \in effects' \ effects : e.seq = sequence + 1
  BY DEF Dispatch
<1> QED
  BY <1>1, <1>2, <1>3 DEF NumberedAbove

LEMMA StepNumbers == TypeOK /\ [Next]_vars => NumberedAbove
<1> SUFFICES ASSUME TypeOK, [Next]_vars
             PROVE  NumberedAbove
  OBVIOUS
<1>1. ASSUME NEW transition, ApplyActivation(transition) PROVE NumberedAbove
  BY <1>1, AboveAnswer, AboveFrame DEF ApplyActivation, history
<1>2. ASSUME NEW target, EnsureActivation(target) PROVE NumberedAbove
  BY <1>1, <1>2, AboveAnswer DEF EnsureActivation
<1>3. ASSUME NEW replacement, Rebind(replacement) PROVE NumberedAbove
  BY <1>3, AboveAnswer, AboveFrame DEF Rebind, history
<1>4. ASSUME NEW clockUp, Wake(clockUp) PROVE NumberedAbove
  BY <1>4, AboveAnswer, AboveFrame DEF Wake, history
<1>5. CASE InferenceUnavailable
  BY <1>5, AboveAnswer DEF InferenceUnavailable
<1>6. ASSUME NEW size \in 0 .. MaxBatch, NEW batch \in [1 .. size -> Candidates],
             NEW minted \in [1 .. size -> ProposalIds \union {PortDown}],
             ProposeCandidates(size, batch, minted)
      PROVE  NumberedAbove
  <2>1. CASE \E code : Answer(code)
    BY <2>1, AboveAnswer
  <2>2. CASE /\ \A i \in 1 .. size : StageError(minted, i) = "ok"
             /\ CommitProposals(size, batch, minted)
    <3>1. \A e \in Staged(size, batch, minted) : e.seq \in Nat /\ sequence < e.seq
      <4>1. Staged(size, batch, minted) \in SUBSET Envelope
        BY <2>2, StagedType
      <4> QED
        BY <2>2, <4>1, StagedFresh DEF Envelope, Sequences
    <3>2. sequence \in Nat
      BY CountersAssumption DEF TypeOK
    <3> QED
      BY <2>2, <3>1, <3>2 DEF CommitProposals, NumberedAbove
  <2> QED
    BY <1>6, <2>1, <2>2 DEF ProposeCandidates
<1>7. ASSUME NEW id, NEW answer, Admit(id, answer) PROVE NumberedAbove
  BY <1>7, AboveAnswer, AboveDecide DEF Admit
<1>8. ASSUME NEW admission \in held, Dispatch(admission) PROVE NumberedAbove
  BY <1>8, AboveDispatch
<1>9. CASE IntoSnapshot \/ TakeSnapshot \/ ProcessExit \/ Crash \/ UNCHANGED vars
  BY <1>9, AboveFrame
  DEF IntoSnapshot, TakeSnapshot, ProcessExit, Crash, vars, history
<1>10. ASSUME NEW sameLine, Restore(sameLine) PROVE NumberedAbove
  BY <1>10, AboveAnswer DEF Restore, Seat, RollBack, NumberedAbove
<1> QED
  BY <1>1, <1>2, <1>3, <1>4, <1>5, <1>6, <1>7, <1>8, <1>9, <1>10 DEF Next, Call

-----------------------------------------------------------------------------
(* Emission order, through any restarts.  OrderInv: a session that is not   *)
(* seated is the stored one, or died and left nothing in its caller's hands; *)
(* everything emitted has a number at or below the counter, an admission     *)
(* one above its proposal's, an effect one above its admission's; distinct   *)
(* numbers name distinct things; what is pending or was decided was          *)
(* proposed, what is held was admitted.  LineInv: the stored snapshot is an  *)
(* earlier state of this history, so that what RollBack leaves of it is      *)
(* ordered again.                                                            *)

OrderInv ==
  /\ ~running => stored = Snapshot \/ (held = {} /\ crashes > 0)
  /\ pending \subseteq proposed
  /\ held \subseteq admitted
  /\ \A d \in decisions : d.proposal \in proposed
  /\ \A e \in proposed : e.seq =< sequence
  /\ \A a \in admitted : a.seq =< sequence /\ a.origin < a.seq
  /\ \A e \in effects : e.seq =< sequence /\ e.admission < e.seq
  /\ \A e, f \in proposed : e.seq = f.seq => e = f
  /\ \A a, b \in admitted : a.seq = b.seq => a = b
  /\ AtMostOneEffect
  /\ NoProposalLost

\* What was pending then is what was proposed until then and not decided until then.
LineInv ==
  /\ stored.sequence =< sequence
  /\ stored.pending \subseteq proposed
  /\ \A e \in pending : e.seq =< stored.sequence => e \in stored.pending
  /\ \A e \in proposed : e.seq =< stored.sequence =>
       e \in stored.pending \/ \E d \in decisions : d.proposal = e
  /\ \A a \in admitted :
       a.origin =< stored.sequence =>
         (a.seq > stored.sequence <=> \E e \in stored.pending : e.seq = a.origin)

\* Every number in use is a natural number.
LEMMA NumbersNat ==
  ASSUME TypeOK
  PROVE  /\ sequence \in Nat /\ stored.sequence \in Nat
         /\ \A e \in proposed : e.seq \in Nat
         /\ \A e \in pending \union stored.pending : e.seq \in Nat
         /\ \A a \in admitted : a.seq \in Nat /\ a.origin \in Nat
         /\ \A a \in held : a.seq \in Nat /\ a.origin \in Nat
         /\ \A e \in effects : e.seq \in Nat /\ e.admission \in Nat
BY CountersAssumption
DEF TypeOK, SessionSnapshot, Envelope, Admission, Effect, Sequences

\* Steps that emit nothing and change nothing pending.
LEMMA OrderFrame ==
  ASSUME OrderInv, sequence' = sequence, held' \subseteq held,
         UNCHANGED <<pending, proposed, admitted, effects, decisions>>,
         ~running' => stored' = Snapshot' \/ (held' = {} /\ crashes' > 0)
  PROVE  OrderInv'
BY DEF OrderInv, AtMostOneEffect, NoProposalLost

LEMMA OrderAnswer ==
  ASSUME OrderInv, NEW code, Answer(code)
  PROVE  OrderInv'
BY DEF Answer, durable, history, OrderInv, AtMostOneEffect, NoProposalLost, Snapshot

LEMMA OrderCommit ==
  ASSUME TypeOK, OrderInv, running,
         NEW size \in 0 .. MaxBatch, NEW batch \in [1 .. size -> Candidates],
         NEW minted \in [1 .. size -> ProposalIds \union {PortDown}],
         \A i \in 1 .. size : StageError(minted, i) = "ok",
         CommitProposals(size, batch, minted)
  PROVE  OrderInv'
<1> DEFINE staged == Staged(size, batch, minted)
<1>1. /\ pending' = InsertAll(pending, staged) /\ proposed' = proposed \union staged
      /\ sequence' = sequence + size /\ running' = running
      /\ UNCHANGED <<held, admitted, effects, decisions>>
  BY DEF CommitProposals
<1>2. size \in Nat /\ sequence \in Nat /\ sequence' \in Nat /\ sequence =< sequence'
  BY <1>1, BatchAssumption, CountersAssumption DEF TypeOK
<1>3. /\ \A e \in staged : e.seq \in Nat /\ sequence < e.seq /\ e.seq =< sequence'
      /\ \A e, f \in staged : e.seq = f.seq => e = f
      /\ \A e \in staged, f \in pending : e.id # f.id
  <2>1. staged \in SUBSET Envelope
    BY StagedType
  <2> QED
    BY <1>1, <2>1, StagedFresh DEF Envelope, Sequences
<1>4. pending' = pending \union staged
  BY <1>1, <1>3 DEF InsertAll, ContainsKey
<1>5. /\ \A e \in proposed : e.seq \in Nat /\ e.seq =< sequence
      /\ \A a \in admitted : a.seq \in Nat /\ a.origin \in Nat
                             /\ a.seq =< sequence /\ a.origin < a.seq
      /\ \A e \in effects : e.seq \in Nat /\ e.admission \in Nat
                            /\ e.seq =< sequence /\ e.admission < e.seq
  BY NumbersNat DEF OrderInv
<1>6. \A e, f \in proposed' : e.seq = f.seq => e = f
  BY <1>1, <1>2, <1>3, <1>5 DEF OrderInv
<1>7. \A e \in proposed' : e.seq =< sequence'
  BY <1>1, <1>2, <1>3, <1>5
<1>8. /\ \A a \in admitted' : a.seq =< sequence' /\ a.origin < a.seq
      /\ \A e \in effects' : e.seq =< sequence' /\ e.admission < e.seq
  BY <1>1, <1>2, <1>5
<1>9. \A a \in admitted', envelope \in pending' : a.origin # envelope.seq
  BY <1>1, <1>2, <1>3, <1>4, <1>5 DEF OrderInv, AtMostOneEffect
<1>10. AtMostOneEffect'
  BY <1>1, <1>9 DEF OrderInv, AtMostOneEffect
<1>11. NoProposalLost'
  BY <1>1, <1>4 DEF OrderInv, NoProposalLost
<1>12. \A d \in decisions' : d.proposal \in proposed'
  BY <1>1 DEF OrderInv
<1> QED
  BY <1>1, <1>4, <1>6, <1>7, <1>8, <1>10, <1>11, <1>12 DEF OrderInv

LEMMA OrderDecide ==
  ASSUME TypeOK, OrderInv, running, NEW envelope \in pending,
         \A f \in pending : f.id = envelope.id => f = envelope,
         NEW answer, Decide(envelope, answer)
  PROVE  OrderInv'
<1>1. /\ UNCHANGED <<running, proposed, effects>>
      /\ decisions' = decisions \union {[proposal |-> envelope, answer |-> answer]}
  BY DEF Decide
<1>2. \/ pending' = pending
      \/ pending' = pending \ {envelope}
  BY DEF Decide, ReleaseDecided, Grant, Remove
<1>3. NoProposalLost'
  <2>1. \E d \in decisions' : d.proposal = envelope
    <3>1. PICK d : d = [proposal |-> envelope, answer |-> answer]
      OBVIOUS
    <3>2. d.proposal = envelope /\ d \in decisions'
      BY <1>1, <3>1
    <3> QED
      BY <3>2
  <2> QED
    BY <1>1, <1>2, <2>1 DEF OrderInv, NoProposalLost
<1>0. \A d \in decisions' : d.proposal \in proposed'
  BY <1>1 DEF OrderInv
<1>4. CASE UNCHANGED <<sequence, held, admitted>>
  <2>1. AtMostOneEffect'
    BY <1>1, <1>2, <1>4 DEF OrderInv, AtMostOneEffect
  <2> QED
    BY <1>0, <1>1, <1>2, <1>3, <1>4, <2>1 DEF OrderInv
<1>5. CASE /\ pending' = Remove(pending, envelope.id)
           /\ sequence' = sequence + 1
           /\ held' = held \union {AdmissionOf(envelope, answer)}
           /\ admitted' = admitted \union {AdmissionOf(envelope, answer)}
  <2>1. PICK new : new = AdmissionOf(envelope, answer)
    OBVIOUS
  <2>2. new.seq = sequence + 1 /\ new.origin = envelope.seq
    BY <2>1 DEF AdmissionOf
  <2>3. sequence \in Nat
    BY CountersAssumption DEF TypeOK
  <2>4. /\ envelope \in proposed /\ envelope.seq \in Nat /\ envelope.seq =< sequence
        /\ \A a \in admitted : a.seq \in Nat /\ a.origin \in Nat
                               /\ a.seq =< sequence /\ a.origin < a.seq
        /\ \A e \in proposed : e.seq \in Nat /\ e.seq =< sequence
        /\ \A e \in effects : e.seq \in Nat /\ e.admission \in Nat
                              /\ e.seq =< sequence /\ e.admission < e.seq
    BY NumbersNat DEF OrderInv
  <2>5. \A f \in pending' : f \in pending /\ f # envelope
    BY <1>5 DEF Remove
  <2>6. \A a, b \in admitted' : a.origin = b.origin => a = b
    BY <1>5, <2>1, <2>2 DEF OrderInv, AtMostOneEffect
  <2>7. \A a \in admitted', f \in pending' : a.origin # f.seq
    BY <1>5, <2>1, <2>2, <2>4, <2>5 DEF OrderInv, AtMostOneEffect
  <2>8. \A a \in held', e \in effects' : a.seq # e.admission
    BY <1>1, <1>5, <2>1, <2>2, <2>3, <2>4 DEF OrderInv, AtMostOneEffect
  <2>9. AtMostOneEffect'
    BY <1>1, <2>6, <2>7, <2>8 DEF OrderInv, AtMostOneEffect
  <2>10. \A a, b \in admitted' : a.seq = b.seq => a = b
    BY <1>5, <2>1, <2>2, <2>3, <2>4 DEF OrderInv
  <2>11. /\ \A e \in proposed' : e.seq =< sequence'
         /\ \A a \in admitted' : a.seq =< sequence' /\ a.origin < a.seq
         /\ \A e \in effects' : e.seq =< sequence' /\ e.admission < e.seq
    BY <1>1, <1>5, <2>1, <2>2, <2>3, <2>4
  <2> QED
    BY <1>0, <1>1, <1>3, <1>5, <2>5, <2>9, <2>10, <2>11 DEF OrderInv
<1> QED
  BY <1>4, <1>5 DEF Decide, Grant

LEMMA OrderDispatch ==
  ASSUME TypeOK, OrderInv, NEW admission \in held, Dispatch(admission)
  PROVE  OrderInv'
<1>1. /\ UNCHANGED <<pending, proposed, admitted, decisions>> /\ running /\ running'
      /\ held' = held \ {admission}
      /\ sequence' = sequence \/ sequence' = sequence + 1
  BY DEF Dispatch, Consume
<1>2. /\ sequence \in Nat /\ admission.seq \in Nat /\ admission.seq =< sequence
      /\ \A a \in admitted : a.seq \in Nat /\ a.origin \in Nat
                             /\ a.seq =< sequence /\ a.origin < a.seq
      /\ \A e \in proposed : e.seq \in Nat /\ e.seq =< sequence
      /\ \A e \in effects : e.seq \in Nat /\ e.admission \in Nat
                            /\ e.seq =< sequence /\ e.admission < e.seq
  BY NumbersNat DEF OrderInv
<1>3. /\ \A e \in proposed' : e.seq =< sequence'
      /\ \A a \in admitted' : a.seq =< sequence' /\ a.origin < a.seq
      /\ \A d \in decisions' : d.proposal \in proposed'
  BY <1>1, <1>2 DEF OrderInv
<1>4. CASE effects' = effects
  <2>1. \A e \in effects' : e.seq =< sequence' /\ e.admission < e.seq
    BY <1>1, <1>2, <1>4
  <2> QED
    BY <1>1, <1>3, <1>4, <2>1 DEF OrderInv, AtMostOneEffect, NoProposalLost
<1>5. CASE /\ sequence' = sequence + 1
           /\ effects' = effects \union {[seq |-> sequence + 1,
                                         content |-> admission.content,
                                         admission |-> admission.seq]}
  <2>1. PICK new : new = [seq |-> sequence + 1, content |-> admission.content,
                          admission |-> admission.seq]
    OBVIOUS
  <2>2. new.seq = sequence + 1 /\ new.admission = admission.seq
    BY <2>1
  <2>3. \A e \in effects' : e.seq =< sequence' /\ e.admission < e.seq
    BY <1>2, <1>5, <2>1, <2>2
  <2>4. \A e, f \in effects' : e.admission = f.admission => e = f
    BY <1>5, <2>1, <2>2 DEF OrderInv, AtMostOneEffect
  <2>5. \A a \in held' : a.seq # admission.seq
    BY <1>1 DEF OrderInv
  <2>6. \A a \in held', e \in effects' : a.seq # e.admission
    BY <1>1, <1>5, <2>1, <2>2, <2>5 DEF OrderInv, AtMostOneEffect
  <2>7. AtMostOneEffect'
    BY <1>1, <2>4, <2>6 DEF OrderInv, AtMostOneEffect
  <2> QED
    BY <1>1, <1>3, <2>3, <2>7 DEF OrderInv, NoProposalLost
<1> QED
  BY <1>4, <1>5 DEF Dispatch

\* A session that ends without being stored leaves its caller nothing.
LEMMA OrderCrash ==
  ASSUME TypeOK, OrderInv, Crash
  PROVE  OrderInv'
<1>1. held' = {} /\ crashes' > 0 /\ UNCHANGED <<sequence, pending, history>>
  BY CrashAssumption DEF Crash, TypeOK, durable
<1> QED
  BY <1>1, OrderFrame DEF history

\* What is seated is ordered: the records of the snapshot's time are kept together
\* with what they refer to, since references go to smaller numbers.
LEMMA OrderSeat ==
  ASSUME TypeOK, SnapshotInv, OrderInv, LineInv, ~running, Seat(stored)
  PROVE  OrderInv' /\ stored' = Snapshot'
<1>1. /\ running' /\ sequence' = stored.sequence /\ pending' = stored.pending
      /\ held' = held /\ stored' = stored
      /\ proposed' = {e \in proposed : e.seq =< stored.sequence}
      /\ admitted' = {a \in admitted : a.seq =< stored.sequence}
      /\ effects' = {e \in effects : e.seq =< stored.sequence}
      /\ decisions' = {d \in decisions : /\ d.proposal.seq =< stored.sequence
                                        /\ d.proposal \notin stored.pending \ pending}
  BY DEF Seat, RollBack
<1>2. \A e \in stored.pending : e.seq =< stored.sequence
  BY VerdictMeans DEF SnapshotInv, TypeOK
<1>3. pending' \subseteq proposed'
  BY <1>1, <1>2 DEF LineInv
<1>4. held' \subseteq admitted'
  <2>1. CASE held = {}
    BY <1>1, <2>1
  <2>2. CASE stored = Snapshot
    <3>1. stored.sequence = sequence
      BY <2>2 DEF Snapshot
    <3> QED
      BY <1>1, <3>1 DEF OrderInv
  <2> QED
    BY <2>1, <2>2 DEF OrderInv
<1>5. NoProposalLost'
  <2> SUFFICES ASSUME NEW e \in proposed', e \notin pending'
               PROVE  \E d \in decisions' : d.proposal = e
    BY DEF NoProposalLost
  <2>1. PICK d \in decisions : d.proposal = e
    BY <1>1 DEF LineInv
  <2> QED
    BY <1>1, <2>1
<1>6. \A a \in admitted', e \in pending' : a.origin # e.seq
  <2> SUFFICES ASSUME NEW a \in admitted', NEW e \in pending', a.origin = e.seq
               PROVE  FALSE
    OBVIOUS
  <2>1. a \in admitted /\ a.seq =< stored.sequence /\ a.origin =< stored.sequence
    BY <1>1, <1>2
  <2>2. a.seq > stored.sequence
    BY <1>1, <2>1 DEF LineInv
  <2> QED
    BY <2>1, <2>2, NumbersNat
<1>7. AtMostOneEffect'
  BY <1>1, <1>6 DEF OrderInv, AtMostOneEffect
<1>8. \A d \in decisions' : d.proposal \in proposed'
  BY <1>1 DEF OrderInv
<1>9. stored' = Snapshot'
  BY DEF Seat, Snapshot, TypeOK, SessionSnapshot
<1> QED
  BY <1>1, <1>3, <1>4, <1>5, <1>7, <1>8, <1>9 DEF OrderInv

LEMMA StepOrder ==
  TypeOK /\ SnapshotInv /\ OrderInv /\ LineInv /\ [Next]_vars => OrderInv'
<1> SUFFICES ASSUME TypeOK, SnapshotInv, OrderInv, LineInv, [Next]_vars
             PROVE  OrderInv'
  OBVIOUS
<1>0. /\ Snapshot \in SessionSnapshot
      /\ \A e, f \in pending : e.id = f.id => e = f
  <2>1. Snapshot \in SessionSnapshot
    BY SnapshotType DEF Snapshot, TypeOK, SessionSnapshot
  <2> QED
    BY <2>1, VerdictMeans DEF SnapshotInv, Snapshot
<1>1. ASSUME NEW transition, ApplyActivation(transition) PROVE OrderInv'
  BY <1>1, OrderAnswer, OrderFrame DEF ApplyActivation, history
<1>2. ASSUME NEW target, EnsureActivation(target) PROVE OrderInv'
  BY <1>1, <1>2, OrderAnswer DEF EnsureActivation
<1>3. ASSUME NEW replacement, Rebind(replacement) PROVE OrderInv'
  BY <1>3, OrderAnswer, OrderFrame DEF Rebind, history
<1>4. ASSUME NEW clockUp, Wake(clockUp) PROVE OrderInv'
  BY <1>4, OrderAnswer, OrderFrame DEF Wake, history
<1>5. CASE InferenceUnavailable
  BY <1>5, OrderAnswer DEF InferenceUnavailable
<1>6. ASSUME NEW size \in 0 .. MaxBatch, NEW batch \in [1 .. size -> Candidates],
             NEW minted \in [1 .. size -> ProposalIds \union {PortDown}],
             ProposeCandidates(size, batch, minted)
      PROVE  OrderInv'
  <2>1. CASE \E code : Answer(code)
    BY <2>1, OrderAnswer
  <2>2. CASE /\ \A i \in 1 .. size : StageError(minted, i) = "ok"
             /\ CommitProposals(size, batch, minted)
    <3>1. running
      BY <1>6 DEF ProposeCandidates
    <3> QED
      BY <2>2, <3>1, OrderCommit
  <2> QED
    BY <1>6, <2>1, <2>2 DEF ProposeCandidates
<1>7. ASSUME NEW id, NEW answer, Admit(id, answer) PROVE OrderInv'
  <2>1. CASE \E code : Answer(code)
    BY <2>1, OrderAnswer
  <2>2. CASE \E envelope \in pending : Decide(envelope, answer)
    <3>1. PICK envelope \in pending : Decide(envelope, answer)
      BY <2>2
    <3>2. \A f \in pending : f.id = envelope.id => f = envelope
      BY <1>0
    <3>3. running
      BY <1>7 DEF Admit
    <3> QED
      BY <3>1, <3>2, <3>3, OrderDecide
  <2> QED
    BY <1>7, <2>1, <2>2 DEF Admit
<1>8. ASSUME NEW admission \in held, Dispatch(admission) PROVE OrderInv'
  BY <1>8, OrderDispatch
<1>9. CASE IntoSnapshot \/ TakeSnapshot
  <2>1. stored' = Snapshot /\ Snapshot' = Snapshot
    BY <1>9 DEF IntoSnapshot, TakeSnapshot, durable, Snapshot
  <2> QED
    BY <1>9, <2>1, OrderFrame DEF IntoSnapshot, TakeSnapshot, durable, history
<1>10. CASE ProcessExit
  <2>1. ~running /\ stored' = stored /\ Snapshot' = Snapshot
    BY <1>10 DEF ProcessExit, durable, Snapshot
  <2> QED
    BY <1>10, <2>1, OrderFrame DEF ProcessExit, durable, history, OrderInv
<1>11. CASE Crash
  BY <1>11, OrderCrash
<1>12. ASSUME NEW sameLine, Restore(sameLine) PROVE OrderInv'
  BY <1>12, OrderSeat, OrderAnswer DEF Restore
<1>13. CASE UNCHANGED vars
  BY <1>13 DEF vars, durable, history, OrderInv, AtMostOneEffect, NoProposalLost,
               Snapshot
<1> QED
  BY <1>1, <1>2, <1>3, <1>4, <1>5, <1>6, <1>7, <1>8, <1>9, <1>10, <1>11, <1>12,
     <1>13 DEF Next, Call

\* A snapshot of the present is an earlier state of what follows.
LEMMA LineFresh == TypeOK /\ OrderInv /\ stored = Snapshot => LineInv
<1> SUFFICES ASSUME TypeOK, OrderInv, stored = Snapshot
             PROVE  LineInv
  OBVIOUS
<1>1. stored.sequence = sequence /\ stored.pending = pending
  BY DEF Snapshot
<1>2. \A a \in admitted : ~(a.seq > sequence)
  BY NumbersNat DEF OrderInv
<1>3. \A a \in admitted, e \in pending : e.seq # a.origin
  BY DEF OrderInv, AtMostOneEffect
<1>4. sequence =< sequence
  BY NumbersNat
<1> QED
  BY <1>1, <1>2, <1>3, <1>4 DEF LineInv, OrderInv, NoProposalLost

LEMMA LineFreshNext == (TypeOK /\ OrderInv /\ stored = Snapshot => LineInv)'
BY LineFresh, PTL

\* Steps that store nothing and take nothing back: what they add has a new number.
LEMMA LineFrame ==
  ASSUME TypeOK, TypeOK', LineInv, NumberedAbove, stored' = stored, sequence =< sequence',
         proposed \subseteq proposed', decisions \subseteq decisions',
         admitted' = admitted, pending' \subseteq pending \union (proposed' \ proposed)
  PROVE  LineInv'
<1>1. \A e \in proposed' \ proposed : ~(e.seq =< stored.sequence)
  BY NumbersNat DEF LineInv, NumberedAbove, TypeOK, Envelope, Sequences
<1>2. stored.sequence =< sequence'
  <2>1. sequence' \in Nat
    BY CountersAssumption DEF TypeOK
  <2> QED
    BY <2>1, NumbersNat DEF LineInv
<1>3. \A e \in pending' : e.seq =< stored.sequence => e \in stored.pending
  BY <1>1 DEF LineInv
<1>4. \A e \in proposed' : e.seq =< stored.sequence =>
        e \in stored.pending \/ \E d \in decisions' : d.proposal = e
  BY <1>1 DEF LineInv
<1> QED
  BY <1>2, <1>3, <1>4 DEF LineInv

\* An admission is numbered after the snapshot, of an envelope that was minted after
\* it or is pending in it.
LEMMA LineDecide ==
  ASSUME TypeOK, LineInv, OrderInv, NEW envelope \in pending, NEW answer,
         Decide(envelope, answer)
  PROVE  LineInv'
<1>1. /\ stored' = stored /\ proposed' = proposed /\ decisions \subseteq decisions'
      /\ pending' \subseteq pending /\ sequence =< sequence'
  BY DecideShrinks DEF Decide
<1>2. \A a \in admitted' \ admitted : a.seq = sequence + 1 /\ a.origin = envelope.seq
  BY DEF Decide, Grant, AdmissionOf
<1>3. admitted \subseteq admitted'
  BY DEF Decide, Grant
<1>4. sequence \in Nat /\ sequence' \in Nat /\ stored.sequence =< sequence'
  <2>1. sequence' = sequence \/ sequence' = sequence + 1
    BY DEF Decide, Grant
  <2> QED
    BY <1>1, <2>1, NumbersNat DEF LineInv
<1>5. \A a \in admitted' :
        a.origin =< stored.sequence =>
          (a.seq > stored.sequence <=> \E e \in stored.pending : e.seq = a.origin)
  <2> SUFFICES ASSUME NEW a \in admitted', a \notin admitted, a.origin =< stored.sequence
               PROVE  a.seq > stored.sequence /\ \E e \in stored.pending : e.seq = a.origin
    BY DEF LineInv
  <2>1. a.seq > stored.sequence
    BY <1>2, NumbersNat DEF LineInv
  <2>2. envelope \in stored.pending
    BY <1>2 DEF LineInv
  <2> QED
    BY <1>2, <2>1, <2>2
<1> QED
  BY <1>1, <1>4, <1>5 DEF LineInv

LEMMA StepLine ==
  TypeOK /\ TypeOK' /\ SnapshotInv /\ OrderInv /\ OrderInv' /\ LineInv /\ [Next]_vars
    => LineInv'
<1> SUFFICES ASSUME TypeOK, TypeOK', SnapshotInv, OrderInv, OrderInv', LineInv, [Next]_vars
             PROVE  LineInv'
  OBVIOUS
<1>0. NumberedAbove /\ sequence =< sequence
  BY StepNumbers, NumbersNat
<1>1. CASE UNCHANGED <<sequence, pending, stored, history>>
  BY <1>0, <1>1, LineFrame DEF history
<1>2. ASSUME NEW code, Answer(code) PROVE LineInv'
  BY <1>1, <1>2 DEF Answer, durable
<1>3. CASE \/ \E transition : ApplyActivation(transition)
           \/ \E target : EnsureActivation(target)
           \/ \E replacement : Rebind(replacement)
           \/ \E clockUp : Wake(clockUp)
           \/ InferenceUnavailable
  BY <1>1, <1>2, <1>3 DEF ApplyActivation, EnsureActivation, Rebind, Wake,
     InferenceUnavailable
<1>4. ASSUME NEW size \in 0 .. MaxBatch, NEW batch \in [1 .. size -> Candidates],
             NEW minted \in [1 .. size -> ProposalIds \union {PortDown}],
             ProposeCandidates(size, batch, minted)
      PROVE  LineInv'
  <2>1. CASE /\ \A i \in 1 .. size : StageError(minted, i) = "ok"
             /\ CommitProposals(size, batch, minted)
    <3>1. size \in Nat /\ sequence \in Nat
      BY BatchAssumption, NumbersNat
    <3>2. \A e \in Staged(size, batch, minted) : e \notin proposed
      <4>1. \A e \in Staged(size, batch, minted) : sequence < e.seq
        BY <2>1, StagedFresh
      <4>2. \A e \in proposed : ~(sequence < e.seq)
        BY NumbersNat DEF OrderInv
      <4> QED
        BY <4>1, <4>2
    <3> QED
      BY <1>0, <2>1, <3>1, <3>2, LineFrame DEF CommitProposals, InsertAll
  <2>2. CASE \E code : Answer(code)
    BY <1>2, <2>2
  <2> QED
    BY <1>4, <2>1, <2>2 DEF ProposeCandidates
<1>5. ASSUME NEW id, NEW answer, Admit(id, answer) PROVE LineInv'
  BY <1>2, <1>5, LineDecide DEF Admit
<1>6. ASSUME NEW admission, Dispatch(admission) PROVE LineInv'
  BY <1>0, <1>6, DispatchShrinks, LineFrame DEF Dispatch
<1>7. CASE IntoSnapshot \/ TakeSnapshot
  <2>1. stored' = Snapshot'
    BY <1>7 DEF IntoSnapshot, TakeSnapshot, durable, Snapshot
  <2> QED
    BY <2>1, LineFreshNext
<1>8. CASE ProcessExit \/ Crash \/ UNCHANGED vars
  BY <1>1, <1>8 DEF ProcessExit, Crash, vars, durable
<1>9. ASSUME NEW sameLine, Restore(sameLine) PROVE LineInv'
  BY <1>2, <1>9, OrderSeat, LineFreshNext DEF Restore
<1> QED
  BY <1>3, <1>4, <1>5, <1>6, <1>7, <1>8, <1>9 DEF Next, Call

LEMMA InitOrder == Init => OrderInv /\ LineInv
BY CountersAssumption
DEF Init, OrderInv, LineInv, AtMostOneEffect, NoProposalLost, Snapshot

LEMMA InitSnapshot == Init => SnapshotInv
BY DEF Init, SnapshotInv, RestoreVerdict, Snapshot

\* Whatever a session emits is in order, and the stored snapshot is an earlier state
\* of it, through any number of crashes and recoveries.
THEOREM Ordered == Spec => [](OrderInv /\ LineInv)
<1>1. TypeOK /\ TypeOK' /\ SnapshotInv /\ OrderInv /\ LineInv /\ [Next]_vars =>
        OrderInv' /\ LineInv'
  BY StepOrder, StepLine
<1> QED
  BY <1>1, InitOrder, InitSnapshot, TypeCorrect, StepSnapshot, PTL DEF Spec

\* One proposal becomes at most one admission and one admission at most one effect,
\* however calls and restarts interleave; only a crash undoes one, and then it is gone
\* from the session that is seated.
THEOREM OneEffect == Spec => []AtMostOneEffect
<1>1. OrderInv => AtMostOneEffect
  BY DEF OrderInv
<1> QED
  BY <1>1, Ordered, PTL

\* A proposal leaves the session only on an answer of the authority about it: a
\* recovery keeps what its snapshot holds.
THEOREM ProposalsKept == Spec => []NoProposalLost
<1>1. OrderInv => NoProposalLost
  BY DEF OrderInv
<1> QED
  BY <1>1, Ordered, PTL

-----------------------------------------------------------------------------
(* Numbers.                                                                *)

\* Emission numbers strictly increase over proposals, admissions and effects
\* together: a session issues no number twice, whatever it was restored from.
THEOREM NumbersIncrease == Spec => EmissionsIncrease
<1>1. ASSUME TypeOK, TypeOK', OrderInv, NumberedAbove
      PROVE  Increases
  <2>1. /\ sequence \in Nat
        /\ \A m \in Emitted : m \in Nat /\ m =< sequence
    <3>1. /\ \A e \in proposed : e.seq \in Nat /\ e.seq =< sequence
          /\ \A a \in admitted : a.seq \in Nat /\ a.seq =< sequence
          /\ \A e \in effects : e.seq \in Nat /\ e.seq =< sequence
      BY <1>1 DEF OrderInv, TypeOK, Envelope, Admission, Effect, Sequences
    <3> QED
      BY <1>1, <3>1, CountersAssumption DEF Emitted, TypeOK
  <2>2. ASSUME NEW n, n > sequence
        PROVE  n \notin Emitted
    BY <2>1, <2>2
  <2>3. ASSUME NEW n \in Emitted' \ Emitted
        PROVE  n > sequence
    BY <1>1, <2>3 DEF Emitted, NumberedAbove
  <2>4. ASSUME NEW n \in Emitted' \ Emitted, NEW m \in Emitted
        PROVE  m < n
    <3>1. n > sequence
      BY <2>3, <2>4
    <3>2. n \in Nat
      BY <1>1, <2>4 DEF Emitted, TypeOK, Envelope, Admission, Effect, Sequences
    <3> QED
      BY <2>1, <2>4, <3>1, <3>2
  <2> QED
    BY <1>1, <2>2, <2>4 DEF Increases, NumberedAbove
<1>2. TypeOK /\ TypeOK' /\ OrderInv /\ [Next]_vars => [Increases]_vars
  BY <1>1, StepNumbers
<1> QED
  BY <1>2, Ordered, TypeCorrect, PTL DEF Spec, EmissionsIncrease
-----------------------------------------------------------------------------
(* Provenance: no effect without an answer of the authority, inside scope.  *)
(* The invariant adds to the property what restarts rely on: the scope in   *)
(* the stored snapshot is the session's, and an Admitted value the caller   *)
(* holds is one this session emitted.  What RollBack leaves goes back to     *)
(* decisions it leaves too, because references go to smaller numbers.       *)

AuthorityInv ==
  /\ EffectsAreAuthorised
  /\ held \subseteq admitted
  /\ stored.scope = scope

\* Steps that admit nothing and dispatch nothing.
LEMMA AuthorityFrame ==
  ASSUME AuthorityInv, scope' = scope, held' \subseteq held, admitted' = admitted,
         decisions \subseteq decisions', effects' = effects, stored'.scope = scope
  PROVE  AuthorityInv'
BY DEF AuthorityInv, EffectsAreAuthorised, GrantedInScope

LEMMA AuthorityAnswer ==
  ASSUME AuthorityInv, NEW code, Answer(code)
  PROVE  AuthorityInv'
BY AuthorityFrame DEF Answer, durable, history, AuthorityInv

\* A decision keeps it: an admission is made only of an envelope the authority just
\* answered about, and only when the scope permits the capability.
LEMMA AuthorityDecide ==
  ASSUME TypeOK, AuthorityInv, NEW envelope \in pending,
         NEW answer \in Capabilities \union {Withhold}, Decide(envelope, answer)
  PROVE  AuthorityInv'
<1>1. /\ scope' = scope /\ stored' = stored /\ effects' = effects
      /\ decisions' = decisions \union {[proposal |-> envelope, answer |-> answer]}
  BY DEF Decide
<1>2. CASE UNCHANGED <<held, admitted>>
  BY <1>1, <1>2, AuthorityFrame DEF AuthorityInv
<1>3. CASE /\ answer # Withhold
           /\ Permits(answer)
           /\ held' = held \union {AdmissionOf(envelope, answer)}
           /\ admitted' = admitted \union {AdmissionOf(envelope, answer)}
  <2>0. PICK new : new = AdmissionOf(envelope, answer)
    OBVIOUS
  <2>1. /\ new.id = envelope.id /\ new.origin = envelope.seq
        /\ new.content = envelope.content /\ new.capability = answer
    BY <2>0 DEF AdmissionOf
  <2>2. envelope = [id |-> envelope.id, seq |-> envelope.seq, content |-> envelope.content]
    BY DEF TypeOK, Envelope
  <2>3. GrantedInScope(new)'
    BY <1>1, <1>3, <2>1, <2>2 DEF GrantedInScope, Permits
  <2>4. ASSUME NEW a \in held \union admitted PROVE GrantedInScope(a)'
    BY <1>1 DEF AuthorityInv, EffectsAreAuthorised, GrantedInScope
  <2>5. ASSUME NEW e \in effects'
        PROVE  \E a \in admitted' : a.seq = e.admission /\ a.content = e.content
    BY <1>1, <1>3 DEF AuthorityInv, EffectsAreAuthorised
  <2>6. EffectsAreAuthorised'
    BY <1>3, <2>0, <2>3, <2>4, <2>5 DEF EffectsAreAuthorised
  <2> QED
    BY <1>1, <1>3, <2>6 DEF AuthorityInv
<1> QED
  BY <1>2, <1>3 DEF Decide, Grant

\* An effect has the content of the Admitted value it consumes.
LEMMA AuthorityDispatch ==
  ASSUME AuthorityInv, NEW admission \in held, Dispatch(admission)
  PROVE  AuthorityInv'
<1>1. /\ scope' = scope /\ stored' = stored /\ admitted' = admitted
      /\ decisions' = decisions /\ held' \subseteq held
  BY DEF Dispatch, Consume
<1>2. ASSUME NEW e \in effects'
      PROVE  \E a \in admitted' : a.seq = e.admission /\ a.content = e.content
  <2>1. CASE e \in effects
    BY <1>1, <2>1 DEF AuthorityInv, EffectsAreAuthorised
  <2>2. CASE e \notin effects
    <3>1. e = [seq |-> sequence + 1, content |-> admission.content,
               admission |-> admission.seq]
      BY <2>2 DEF Dispatch
    <3> QED
      BY <1>1, <3>1 DEF AuthorityInv
  <2> QED
    BY <2>1, <2>2
<1>3. EffectsAreAuthorised'
  BY <1>1, <1>2 DEF AuthorityInv, EffectsAreAuthorised, GrantedInScope
<1> QED
  BY <1>1, <1>3 DEF AuthorityInv

LEMMA AuthoritySeat ==
  ASSUME TypeOK, SnapshotInv, OrderInv, LineInv, AuthorityInv, ~running, Seat(stored)
  PROVE  AuthorityInv'
<1>1. /\ scope' = scope /\ stored' = stored
      /\ admitted' = {a \in admitted : a.seq =< stored.sequence}
      /\ effects' = {e \in effects : e.seq =< stored.sequence}
      /\ decisions' = {d \in decisions : /\ d.proposal.seq =< stored.sequence
                                        /\ d.proposal \notin stored.pending \ pending}
  BY DEF Seat, RollBack, AuthorityInv
<1>2. held' \subseteq admitted'
  BY OrderSeat DEF OrderInv
<1>3. ASSUME NEW a \in admitted' PROVE GrantedInScope(a)'
  <2>1. PICK d \in decisions :
          d = [proposal |-> [id |-> a.id, seq |-> a.origin, content |-> a.content],
               answer |-> a.capability]
    BY <1>1 DEF AuthorityInv, EffectsAreAuthorised, GrantedInScope
  <2>2. d.proposal.seq = a.origin
    BY <2>1
  <2>3. a.origin =< stored.sequence /\ ~(a.seq > stored.sequence)
    BY <1>1, NumbersNat DEF OrderInv
  <2>4. d.proposal \notin stored.pending
    BY <1>1, <2>2, <2>3 DEF LineInv
  <2>5. d \in decisions'
    BY <1>1, <2>2, <2>3, <2>4
  <2> QED
    BY <1>1, <2>1, <2>5 DEF AuthorityInv, EffectsAreAuthorised, GrantedInScope
<1>4. ASSUME NEW e \in effects'
      PROVE  \E a \in admitted' : a.seq = e.admission /\ a.content = e.content
  <2>1. PICK a \in admitted : a.seq = e.admission /\ a.content = e.content
    BY <1>1 DEF AuthorityInv, EffectsAreAuthorised
  <2>2. a.seq =< stored.sequence
    BY <1>1, <2>1, NumbersNat DEF OrderInv
  <2> QED
    BY <1>1, <2>1, <2>2
<1> QED
  BY <1>1, <1>2, <1>3, <1>4 DEF AuthorityInv, EffectsAreAuthorised

LEMMA StepAuthority ==
  TypeOK /\ SnapshotInv /\ OrderInv /\ LineInv /\ AuthorityInv /\ [Next]_vars
    => AuthorityInv'
<1> SUFFICES ASSUME TypeOK, SnapshotInv, OrderInv, LineInv, AuthorityInv, [Next]_vars
             PROVE  AuthorityInv'
  OBVIOUS
<1>1. ASSUME NEW transition, ApplyActivation(transition) PROVE AuthorityInv'
  BY <1>1, AuthorityAnswer, AuthorityFrame DEF ApplyActivation, history, AuthorityInv
<1>2. ASSUME NEW target, EnsureActivation(target) PROVE AuthorityInv'
  BY <1>1, <1>2, AuthorityAnswer DEF EnsureActivation
<1>3. ASSUME NEW replacement, Rebind(replacement) PROVE AuthorityInv'
  BY <1>3, AuthorityAnswer, AuthorityFrame DEF Rebind, history, AuthorityInv
<1>4. ASSUME NEW clockUp, Wake(clockUp) PROVE AuthorityInv'
  BY <1>4, AuthorityAnswer, AuthorityFrame DEF Wake, history, AuthorityInv
<1>5. CASE InferenceUnavailable
  BY <1>5, AuthorityAnswer DEF InferenceUnavailable
<1>6. ASSUME NEW size, NEW batch, NEW minted, ProposeCandidates(size, batch, minted)
      PROVE  AuthorityInv'
  <2>1. CASE CommitProposals(size, batch, minted)
    BY <2>1, AuthorityFrame DEF CommitProposals, AuthorityInv
  <2>2. CASE \E code : Answer(code)
    BY <2>2, AuthorityAnswer
  <2> QED
    BY <1>6, <2>1, <2>2 DEF ProposeCandidates
<1>7. ASSUME NEW id, NEW answer \in Capabilities \union {Withhold, PortDown},
             Admit(id, answer)
      PROVE  AuthorityInv'
  <2>1. ASSUME NEW envelope \in pending, answer # PortDown, Decide(envelope, answer)
        PROVE  AuthorityInv'
    <3>1. answer \in Capabilities \union {Withhold}
      BY <2>1
    <3> QED
      BY <2>1, <3>1, AuthorityDecide
  <2> QED
    BY <1>7, <2>1, AuthorityAnswer DEF Admit
<1>8. ASSUME NEW admission \in held, Dispatch(admission) PROVE AuthorityInv'
  BY <1>8, AuthorityDispatch
<1>9. CASE IntoSnapshot \/ TakeSnapshot
  <2>1. stored'.scope = scope
    BY <1>9 DEF IntoSnapshot, TakeSnapshot, Snapshot
  <2> QED
    BY <1>9, <2>1, AuthorityFrame DEF IntoSnapshot, TakeSnapshot, durable, history
<1>10. CASE ProcessExit \/ Crash
  BY <1>10, AuthorityFrame DEF ProcessExit, Crash, durable, history, AuthorityInv
<1>11. ASSUME NEW sameLine, Restore(sameLine) PROVE AuthorityInv'
  BY <1>11, AuthoritySeat, AuthorityAnswer DEF Restore
<1>12. CASE UNCHANGED vars
  BY <1>12, AuthorityFrame DEF vars, durable, history, AuthorityInv
<1> QED
  BY <1>1, <1>2, <1>3, <1>4, <1>5, <1>6, <1>7, <1>8, <1>9, <1>10, <1>11, <1>12
  DEF Next, Call

\* Whatever the ports answer, however often the session is restarted and however old
\* the snapshot it is seated on, an effect is requested only for a proposal the
\* authority port granted, with that content and inside the delegation scope.
THEOREM Authorised == Spec => []EffectsAreAuthorised
<1>1. Init => AuthorityInv
  BY DEF Init, AuthorityInv, EffectsAreAuthorised, Snapshot
<1>2. AuthorityInv => EffectsAreAuthorised
  BY DEF AuthorityInv
<1> QED
  BY <1>1, <1>2, TypeCorrect, InitSnapshot, StepSnapshot, Ordered, StepAuthority, PTL
  DEF Spec
=============================================================================
