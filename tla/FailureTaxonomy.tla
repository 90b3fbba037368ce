--------------------------- MODULE FailureTaxonomy ---------------------------
(***************************************************************************)
(* The closed failure vocabulary of contract line 0.2.0 and how every      *)
(* consumer classifies it (crates/aiai-contracts/src/error.rs, mirrored by *)
(* packages/aiai-contracts/src/error.ts).  The kernel answers these codes, *)
(* the wire carries them.                                                  *)
(***************************************************************************)

ErrorCodes == {"malformed_envelope", "unsupported_contract_version", "unknown_variant",
               "missing_context", "runtime_inactive", "inference_unavailable",
               "subject_continuity_violation", "unknown_proposal",
               "duplicate_proposal_id", "authority_withheld",
               "authority_scope_exceeded", "sequence_exhausted",
               "signal_schema_violation"}

ContextPorts == {"clock", "identifier_generation", "inference", "authority"}

VariantKinds == {"wake_reason", "proposal_kind", "action_archetype", "archetype_field"}

SchemaViolations == {"unknown_archetype", "unknown_field", "missing_field",
                     "value_out_of_domain", "excess_precision", "excess_cardinality",
                     "non_canonical_encoding", "invalid_field_combination",
                     "schema_version_mismatch"}

Unavailable == {"missing_context", "inference_unavailable"}
Withheld    == {"authority_withheld", "authority_scope_exceeded"}
Gated       == {"runtime_inactive"}
Exhausted   == {"sequence_exhausted"}
Rejected    == ErrorCodes \ (Unavailable \union Withheld \union Gated \union Exhausted)

\* Words of the vocabulary: a token and the enumeration it belongs to.
WordsOf(enumeration, tokens) == {enumeration} \X tokens

Vocabulary020 == WordsOf("code", ErrorCodes) \union WordsOf("port", ContextPorts)
                   \union WordsOf("variant_kind", VariantKinds)
                   \union WordsOf("schema_violation", SchemaViolations)
=============================================================================
