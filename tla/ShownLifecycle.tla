--------------------------- MODULE ShownLifecycle ---------------------------
(***************************************************************************)
(* What a product is shown of a browser-local model: the states it is led  *)
(* through, in an order it can rely on.  A model becomes loaded only by a  *)
(* load the product asked for and did not cancel, and only out of          *)
(* `loading`; a cancelled load gives up without a failure; text comes from *)
(* `ready` alone; a failure is left by an explicit call.                   *)
(***************************************************************************)
VARIABLES
  shown,    \* the state the product renders
  loaded,   \* a model is loaded
  request   \* the load in progress: "none", "asked" for, or "cancelled"

vars == <<shown, loaded, request>>

Idle == [kind |-> "idle"]
Probing == [kind |-> "probing"]
Ready == [kind |-> "ready"]
Generating == [kind |-> "generating"]
Loading(cached) == [kind |-> "loading", cachedBeforeLoad |-> cached]
Supported == {[kind |-> "supported", cached |-> cached] : cached \in BOOLEAN}
Failed(operation, modelLoaded) ==
  [kind |-> "failed", operation |-> operation, modelLoaded |-> modelLoaded]

Init == shown = Idle /\ loaded = FALSE /\ request = "none"

Show(state) == shown' = state /\ UNCHANGED <<loaded, request>>

\* Nothing is loaded or being loaded.
Empty == ~loaded /\ request = "none"

Probe ==
  /\ Empty
  /\ shown.kind \in {"idle", "supported", "unavailable", "failed"}
  /\ Show(Probing)

Answer ==
  /\ shown = Probing
  /\ shown' \in Supported \union {Failed("probe", FALSE)} \/ shown'.kind = "unavailable"
  /\ UNCHANGED <<loaded, request>>

\* A device of which nothing is known is probed first, one that was refused stays so.
Ask ==
  /\ Empty
  /\ \/ shown \in Supported /\ shown' = Loading(shown.cached)
     \/ shown.kind \in {"idle", "failed"} /\ shown' = Probing
  /\ request' = "asked"
  /\ UNCHANGED loaded

Cancel == request = "asked" /\ request' = "cancelled" /\ UNCHANGED <<shown, loaded>>

Download == request = "asked" /\ shown \in Supported /\ Show(Loading(shown.cached))

Succeed ==
  /\ request = "asked" /\ shown.kind = "loading"
  /\ shown' = Ready /\ loaded' = TRUE
  /\ UNCHANGED request

Fail == request = "asked" /\ shown.kind = "loading" /\ Show(Failed("load", FALSE))

GiveUp ==
  /\ request = "cancelled" /\ ~loaded
  /\ \/ shown.kind = "loading" /\ \E state \in Supported \union {Idle} : Show(state)
     \/ shown.kind \in {"supported", "unavailable", "failed"} /\ Show(Idle)

\* A load that is over has left `loading`, and one that nobody cancelled has an outcome.
Settle ==
  /\ \/ request = "asked" /\ shown.kind \in {"ready", "generating", "failed", "unavailable"}
     \/ request = "cancelled" /\ shown.kind \notin {"probing", "loading"}
  /\ request' = "none"
  /\ UNCHANGED <<shown, loaded>>

\* The cache was read again after an eviction.
Reread ==
  /\ Empty /\ shown \in Supported
  /\ \E state \in Supported \union {Idle} : Show(state)

Generate == loaded /\ shown = Ready /\ Show(Generating)

Stop == loaded /\ shown = Generating /\ Show(Ready)

Break == loaded /\ shown = Generating /\ Show(Failed("generate", TRUE))

\* load() with a model loaded.
Recover == loaded /\ request = "none" /\ shown.kind = "failed" /\ Show(Ready)

Unload ==
  /\ loaded /\ request = "none" /\ shown.kind \in {"ready", "failed"}
  /\ loaded' \in BOOLEAN
  /\ \/ shown' = Failed("unload", TRUE)
     \/ ~loaded' /\ shown' \in Supported
  /\ UNCHANGED request

Next ==
  \/ Probe \/ Answer \/ Reread
  \/ Ask \/ Cancel \/ Download \/ Succeed \/ Fail \/ GiveUp \/ Settle
  \/ Generate \/ Stop \/ Break \/ Recover \/ Unload

Spec == Init /\ [][Next]_vars
=============================================================================
