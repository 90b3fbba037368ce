------------------------- MODULE ProposalLifecycle --------------------------
(***************************************************************************)
(* What a session promises about every proposal, whatever the ports, the   *)
(* caller and the restarts do: a proposal number is minted once, with one  *)
(* payload; it stays pending until it is decided; the decision is taken    *)
(* once; an admitted proposal becomes at most one effect, and that effect  *)
(* has the payload the proposal was minted with.  Only a recovery from a   *)
(* crash takes any of this back.                                           *)
(***************************************************************************)
CONSTANTS
  Numbers,
  Payloads,
  Recovers    \* a session may be seated on a snapshot older than its last state

VARIABLES
  stage,      \* where each proposal number stands
  payload,    \* what it was minted with: {} before, one payload after
  delivered   \* the payload of the effect it became, if it did

vars == <<stage, payload, delivered>>

Stage == {"unused", "pending", "refused", "admitted", "lost", "dispatched"}

Init ==
  /\ stage = [n \in Numbers |-> "unused"]
  /\ payload = [n \in Numbers |-> {}]
  /\ delivered = [n \in Numbers |-> {}]

Move(from, to, batch) ==
  /\ \A n \in batch : stage[n] = from
  /\ stage' = [n \in Numbers |-> IF n \in batch THEN to ELSE stage[n]]

Mint(batch) ==
  /\ Move("unused", "pending", batch)
  /\ \E choice \in [batch -> Payloads] :
       payload' = [n \in Numbers |-> IF n \in batch THEN {choice[n]} ELSE payload[n]]
  /\ UNCHANGED delivered

Refuse(n) == Move("pending", "refused", {n}) /\ UNCHANGED <<payload, delivered>>

Admit(n) == Move("pending", "admitted", {n}) /\ UNCHANGED <<payload, delivered>>

Dispatch(n) ==
  /\ Move("admitted", "dispatched", {n})
  /\ delivered' = [delivered EXCEPT ![n] = payload[n]]
  /\ UNCHANGED payload

\* The permission is gone and no effect was requested.
Lose(batch) == Move("admitted", "lost", batch) /\ UNCHANGED <<payload, delivered>>

\* A recovery: no permission survived the crash; proposals decided after the
\* snapshot are pending again with their payload, effects emitted after it are
\* undone, and what was minted after it never was.
Recover(again, undone, forgotten) ==
  /\ Recovers
  /\ \A n \in Numbers : stage[n] # "admitted"
  /\ \A n \in again : stage[n] # "unused"
  /\ \A n \in undone : stage[n] = "dispatched"
  /\ stage' = [n \in Numbers |-> IF n \in again THEN "pending"
                                ELSE IF n \in undone THEN "lost"
                                ELSE IF n \in forgotten THEN "unused" ELSE stage[n]]
  /\ payload' = [n \in Numbers |-> IF n \in forgotten THEN {} ELSE payload[n]]
  /\ delivered' = [n \in Numbers |->
                     IF n \in again \union undone \union forgotten THEN {}
                                                                ELSE delivered[n]]

Next ==
  \/ \E batch \in SUBSET Numbers : Mint(batch) \/ Lose(batch)
  \/ \E n \in Numbers : Refuse(n) \/ Admit(n) \/ Dispatch(n)
  \/ \E again, undone \in SUBSET Numbers :
       \E forgotten \in SUBSET (Numbers \ (again \union undone)) :
         Recover(again, undone, forgotten)

Spec == Init /\ [][Next]_vars
=============================================================================
