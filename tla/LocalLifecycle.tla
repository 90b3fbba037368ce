--------------------------- MODULE LocalLifecycle ---------------------------
(* What LocalInference shows a product that awaits its lifecycle calls is     *)
(* the lifecycle it is told of (ShownLifecycle): a model counts as loaded     *)
(* until an unload that took its engine has reported.                         *)
EXTENDS LocalInference

ModelLoaded == engine # None \/ \E t \in Tasks : pc[t] = "unload_cache"

Request ==
  IF loadOperation = None THEN "none"
  ELSE IF aborted[loadOperation] THEN "cancelled" ELSE "asked"

Visible == INSTANCE ShownLifecycle WITH
  shown <- state, loaded <- ModelLoaded, request <- Request

\* Whatever the host answers and whenever a load is cancelled, a product is led through
\* the documented lifecycle: no step shows a state it cannot come to from the last one
\* (runtime.ts #setState; docs/browser-local-inference.md "Lifecycle").
FollowsLifecycle == Visible!Spec
=============================================================================
