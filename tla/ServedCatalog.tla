---------------------------- MODULE ServedCatalog ----------------------------
(***************************************************************************)
(* Which models a product serves and which of them a device can run:       *)
(* catalog.ts, quantization.ts, selection.ts and the capability checks of  *)
(* contracts.ts in packages/aiai-webllm, and what webllm-host.ts makes of  *)
(* an entry.                                                               *)
(*                                                                         *)
(* An entry is a record.  `id` carries the quantisation tokens among the   *)
(* segments of an identifier; `sources` is one word for what its URLs and  *)
(* hashes are; a window is a word, since the code only asks whether it is  *)
(* set and proper; `half` is what its library really computes in, which no *)
(* code can see.  A bare identifier is an entry that declares nothing.     *)
(***************************************************************************)
EXTENDS Naturals, Sequences

CONSTANTS
  Features,   \* names of adapter features
  ShaderF16   \* SHADER_F16

ASSUME ShaderAssumption == ShaderF16 \in Features

Identifier == [name : STRING, tokens : Seq({"f16", "f32"})]
Window == {"absent", "positive", "zero", "improper"}

ServedModel ==
  [id : Identifier, sources : {"pinned", "moving", "malformed"},
   requiredFeatures : SUBSET Features, half : BOOLEAN,
   context : Window, sliding : Window, sink : Window]

\* How the adapter reports the limits the engine demands: each is short, enough or
\* not reported.
DeviceCapability ==
  [features : SUBSET Features, limits : SUBSET {"short", "enough", "unreported"}]

-----------------------------------------------------------------------------
(* What an entry needs, and what a device lacks of it.                     *)

\* An identifier that carries no token or several has not stated its quantisation.
ParseQuantization(id) == IF Len(id.tokens) = 1 THEN {id.tokens[1]} ELSE {}

RequiredFeaturesFor(id, declared) ==
  declared \union (IF "f16" \in ParseQuantization(id) THEN {ShaderF16} ELSE {})

EffectiveRequiredFeatures(model) == RequiredFeaturesFor(model.id, model.requiredFeatures)

\* A limit that is not reported is not short.
BelowRuntimeFloor(capability) == "short" \in capability.limits

MissingFeatures(capability, required) == required \ capability.features

-----------------------------------------------------------------------------
(* What a catalog may say.                                                 *)

WindowsFit(model) ==
  /\ model.context \in {"absent", "positive"}
  /\ model.sliding \in {"absent", "positive"}
  /\ model.sink \in {"absent", "positive", "zero"}
  /\ model.context = "absent" \/ model.sliding = "absent"
  /\ model.sink = "absent" \/ model.sliding # "absent"

ValidModel(model) == model.sources = "pinned" /\ WindowsFit(model)

ValidCatalog(models) ==
  /\ models # << >>
  /\ \A i \in DOMAIN models :
       ValidModel(models[i]) /\ \A j \in 1 .. i - 1 : models[j].id # models[i].id

-----------------------------------------------------------------------------
(* Selection: the first entry the device can run.                          *)

Selected(i) == [selected |-> TRUE, entry |-> i, reason |-> "none"]
NoneSelected(reason) == [selected |-> FALSE, entry |-> 0, reason |-> reason]

SelectServedModel_Declared(models, capability) ==  \* mutant: declared features alone
  LET fits(i) == MissingFeatures(capability, models[i].requiredFeatures) = {}
  IN  IF BelowRuntimeFloor(capability) THEN NoneSelected("device_limits_insufficient")
      ELSE IF \A i \in DOMAIN models : ~fits(i) THEN NoneSelected("model_features_unavailable")
      ELSE Selected(CHOOSE i \in DOMAIN models : fits(i) /\ \A j \in 1 .. i - 1 : ~fits(j))

SelectServedModel(models, capability) ==
  LET fits(i) == MissingFeatures(capability, EffectiveRequiredFeatures(models[i])) = {}
  IN  IF BelowRuntimeFloor(capability) THEN NoneSelected("device_limits_insufficient")
      ELSE IF \A i \in DOMAIN models : ~fits(i) THEN NoneSelected("model_features_unavailable")
      ELSE Selected(CHOOSE i \in DOMAIN models : fits(i) /\ \A j \in 1 .. i - 1 : ~fits(j))

-----------------------------------------------------------------------------
(* What the host hands to the pinned engine, and what the engine makes of  *)
(* it.                                                                     *)

\* A sliding window switches the fixed one off.
ToChatOverrides(model) ==
  [context |-> IF model.sliding = "absent" THEN model.context ELSE "off",
   sliding |-> model.sliding]

ToModelRecord(model) ==
  [required_features |-> EffectiveRequiredFeatures(model),
   overrides |-> ToChatOverrides(model)]

\* mlc-chat-config.json of a model "normally declares a positive context window"
\* (webllm-host.ts 74-76); a record overrides it.
ContextWindow(record) ==
  IF record.overrides.context = "absent" THEN "positive" ELSE record.overrides.context

\* The engine refuses two positive windows, a device below its floor, and one without
\* a feature the record lists; without its feature a half-precision library does not
\* compile.
EngineStarts(model, capability) ==
  LET record == ToModelRecord(model)
  IN  /\ ~(ContextWindow(record) = "positive" /\ record.overrides.sliding = "positive")
      /\ ~BelowRuntimeFloor(capability)
      /\ record.required_features \subseteq capability.features
      /\ model.half => ShaderF16 \in capability.features
=============================================================================
