-------------------------- MODULE MCLocalInference --------------------------
(* LocalInference on a few slots and engines.  Slots and engines are only     *)
(* compared, so each set is symmetric; the liveness run uses no symmetry.     *)
EXTENDS LocalLifecycle, TLC

CONSTANTS Extra  \* a feature an entry may declare

Symmetry == Permutations(Tasks) \union Permutations(Engines)

Entry(name, tokens, declared, half, context, sliding, sink) ==
  [id |-> [name |-> name, tokens |-> tokens], sources |-> "pinned",
   requiredFeatures |-> declared, half |-> half,
   context |-> context, sliding |-> sliding, sink |-> sink]

\* An identifier that states half precision, with a sliding window; its full-precision
\* fallback; an entry that states nothing and declares a feature of its own; one whose
\* two tokens contradict each other; one with a fixed window.
half == Entry("chat", <<"f16">>, {}, TRUE, "absent", "positive", "zero")
full == Entry("chat", <<"f32">>, {}, FALSE, "absent", "absent", "absent")
plain == Entry("own", << >>, {Extra}, FALSE, "absent", "absent", "absent")
twice == Entry("odd", <<"f16", "f32">>, {}, TRUE, "absent", "absent", "absent")
fixed == Entry("wide", <<"f16">>, {Extra}, TRUE, "positive", "absent", "absent")

\* The last four are refused: both windows, a sink without a window, one identifier
\* twice, artifacts behind a branch.
MCCatalogs ==
  {<<half, full>>, <<plain, half>>, <<twice, fixed>>, <<fixed, plain>>,
   <<[half EXCEPT !.context = "positive"]>>, <<[full EXCEPT !.sink = "zero"], half>>,
   <<full, full>>, <<[half EXCEPT !.sources = "moving"]>>}

OneCatalog == {<<half, full>>, <<[half EXCEPT !.context = "positive"], full>>}

Adapter(features, limits) == [features |-> features, limits |-> limits]

MCAdapters ==
  {Adapter(f, {"enough"}) : f \in SUBSET Features}
    \union {Adapter({ShaderF16}, l) : l \in {{"short", "enough"}, {"unreported"}}}

TwoAdapters == {Adapter({}, {"enough"}), Adapter({ShaderF16}, {"enough", "unreported"})}
=============================================================================
