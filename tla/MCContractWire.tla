--------------------------- MODULE MCContractWire ---------------------------
(* ContractWire between one kernel and one host, over five builds: 0.2.0, a   *)
(* patch of it, another line below 1.0, and two minors of a released line.    *)
(* Only 0.2.0 exists; the other vocabularies are invented, each differing     *)
(* from its neighbour as the assumption on vocabularies allows.               *)
EXTENDS ContractWire, TLC

Release(major, minor, patch) == [major |-> major, minor |-> minor, patch |-> patch]

MCBuilds == {Release(0, 2, 0), Release(0, 2, 1), Release(0, 3, 0), Release(1, 0, 0),
             Release(1, 1, 0)}

\* A few words of each enumeration of 0.2.0 stand for all of them.
Few == {<<"code", c>> : c \in {"unsupported_contract_version", "missing_context",
                               "runtime_inactive", "authority_withheld",
                               "unknown_variant", "signal_schema_violation"}}
         \union {<<"port", "clock">>, <<"port", "inference">>,
                 <<"variant_kind", "wake_reason">>,
                 <<"schema_violation", "unknown_field">>}

ASSUME Few \subseteq Vocabulary020

Storage == <<"port", "storage">>
Stale == <<"schema_violation", "stale_field">>

MCVocabulary ==
  [version \in MCBuilds |->
     CASE version.major = 0 /\ version.minor = 2 -> Few
       [] version = Release(0, 3, 0) -> (Few \ {<<"port", "inference">>}) \union {Storage}
       [] version = Release(1, 0, 0) -> Few \union {Storage}
       [] version = Release(1, 1, 0) -> Few \union {Storage, Stale}]

\* Documents of foreign products: every kind of member the decoders treat apart.
ForeignErrors ==
  [code : {"missing_context", "no_such_code"}, operation : Operations \union {None, Null},
   details : Sentinels \union
     [members : {{}, {<<"port", "clock">>}, {Storage}, {Stale}, {<<"port", Null>>},
                 {<<"comment", "given">>}, {<<"field", Mangled>>}}],
   extra : BOOLEAN]

ATurn == [version |-> Release(0, 2, 0), operation |-> CHOOSE o \in Operations : TRUE]
AnError == [code |-> "missing_context", operation |-> None, details |-> [members |-> {Storage}],
            extra |-> FALSE]

MCForeign ==
  [text : {"canonical"}, ok : {None}, error : ForeignErrors, extra : {FALSE},
   repeated : {{}}]
    \union [text : {"canonical", "number_token", "lenient"}, ok : Sentinels \union {ATurn},
            error : Sentinels \union {AnError}, extra : BOOLEAN, repeated : {{}}]
    \union {document \in [text : {"canonical"}, ok : Sentinels \union {ATurn},
                           error : Sentinels \union {AnError}, extra : {FALSE},
                           repeated : (SUBSET {"ok", "error"}) \ {{}}] :
              \A member \in document.repeated : document[member] # None}
=============================================================================
