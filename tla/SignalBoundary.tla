--------------------------- MODULE SignalBoundary ---------------------------
(***************************************************************************)
(* The closed-schema signal boundary (crates/aiai-signal): a client that   *)
(* transforms what it observed, a validator that admits or refuses         *)
(* whatever arrives, and the registries both read, which governance        *)
(* replaces at any time and not on both sides at once.                     *)
(*                                                                         *)
(* The crate holds no transport and no corpus; they are modelled here from *)
(* how its two entry points are meant to be used (lib.rs, validate.rs):    *)
(* the transport may lose, delay, repeat and reorder a signal, and a       *)
(* client may skip the transform.                                          *)
(*                                                                         *)
(* Field names are numbers, ordered as the BTreeMaps order their tokens.   *)
(* A sequence domain nests one level: its item domain is an enumeration or *)
(* quantized.                                                              *)
(***************************************************************************)
EXTENDS Integers, Sequences, FiniteSets

CONSTANTS
    Archetypes,    \* the archetype tokens
    Schemas,       \* the declarations governance may register
    Observations,  \* what the client may observe
    Payloads,      \* what a client that skips the transform may send
    None,          \* an absent value
    MaxCorpus      \* bound: signals the corpus holds

ScalarDomain(domain) ==
    \/ domain.kind = "enumeration"
    \/ /\ domain.kind = "quantized"
       /\ domain.min \in Nat /\ domain.max \in Nat /\ domain.step \in Nat \ {0}

\* What the types of a FieldDomain guarantee: unsigned bounds and a step that is not zero.
FieldDomain(domain) ==
    \/ ScalarDomain(domain)
    \/ domain.kind = "sequence" /\ ScalarDomain(domain.item) /\ domain.max_len \in Nat

\* What the types of a SignalValue guarantee: one variant, an unsigned measure, a Vec of items.
ScalarShape(value) ==
    value.kind = "measure" =>
        value.measure \in Nat /\ value = [kind |-> "measure", measure |-> value.measure]
Shape(value) ==
    /\ ScalarShape(value)
    /\ value.kind = "sequence" =>
          /\ value = [kind |-> "sequence", items |-> value.items]
          /\ value.items \in Seq({value.items[i] : i \in DOMAIN value.items})
          /\ \A i \in DOMAIN value.items : ScalarShape(value.items[i])

FieldMap(fields) ==
    /\ fields = [f \in DOMAIN fields |-> fields[f]]
    /\ DOMAIN fields \subseteq Nat
    /\ \A f \in DOMAIN fields : Shape(fields[f])

\* What the types of a FieldCombination guarantee: it names two fields.
FieldCombination(combination) ==
    \/ /\ combination.kind = "mutually_exclusive"
       /\ combination.left \in Nat /\ combination.right \in Nat
    \/ /\ combination.kind = "required_with"
       /\ combination.present \in Nat /\ combination.requires \in Nat

ASSUME SchemasAssumption ==
    /\ None \notin Schemas \cup Nat
    /\ \A schema \in Schemas :
          /\ schema.archetype \in Archetypes
          /\ DOMAIN schema.required \subseteq Nat
          /\ DOMAIN schema.optional \subseteq Nat
          /\ \A f \in DOMAIN schema.required : FieldDomain(schema.required[f])
          /\ \A f \in DOMAIN schema.optional : FieldDomain(schema.optional[f])
          /\ DOMAIN schema.combinations \subseteq Nat
          /\ \A i \in DOMAIN schema.combinations : FieldCombination(schema.combinations[i])

ASSUME InputsAssumption ==
    /\ \A o \in Observations : o.archetype \in Archetypes /\ FieldMap(o.fields)
    /\ \A p \in Payloads : p.archetype \in Archetypes /\ FieldMap(p.fields)

ASSUME CorpusAssumption == MaxCorpus \in Nat

VARIABLES
    client,    \* the client's SchemaRegistry: archetype -> schema or None
    server,    \* the validating side's SchemaRegistry
    wire,      \* signals in flight: [signal, made], one at a time
    corpus,    \* the signals admitted
    returned   \* what the last transform or validate returned, and on what

vars == <<client, server, wire, corpus, returned>>

-----------------------------------------------------------------------------
(* Values, domains and what one call on a field returns.                   *)

Token(t) == [kind |-> "token", token |-> t]
Measure(n) == [kind |-> "measure", measure |-> n]
Sequence(vs) == [kind |-> "sequence", items |-> vs]

Enumeration(allowed) == [kind |-> "enumeration", allowed |-> allowed]
Quantized(min, max, step) == [kind |-> "quantized", min |-> min, max |-> max, step |-> step]
SequenceOf(item, max_len) == [kind |-> "sequence", item |-> item, max_len |-> max_len]

Least(S) == CHOOSE i \in S : \A j \in S : i <= j
Lesser(m, n) == IF m <= n THEN m ELSE n

\* FieldDomain::check on the two scalar domains, and its shape mismatch.
CheckScalar(domain, value) ==
    CASE domain.kind = "enumeration" /\ value.kind = "token" ->
            IF value.token \in domain.allowed THEN "ok" ELSE "value_out_of_domain"
      [] domain.kind = "quantized" /\ value.kind = "measure" ->
            IF value.measure \notin domain.min .. domain.max THEN "value_out_of_domain"
            ELSE IF (value.measure - domain.min) % domain.step # 0 THEN "excess_precision"
            ELSE "ok"
      [] OTHER -> "non_canonical_encoding"

\* FieldDomain::check: repairs nothing, stops at the first bad item.
Check(domain, value) ==
    IF domain.kind # "sequence" \/ value.kind # "sequence" THEN CheckScalar(domain, value)
    ELSE IF Len(value.items) > domain.max_len THEN "excess_cardinality"
    ELSE LET bad == {i \in DOMAIN value.items : CheckScalar(domain.item, value.items[i]) # "ok"}
         IN  IF bad = {} THEN "ok" ELSE CheckScalar(domain.item, value.items[Least(bad)])

Fault(violation) == [kind |-> "fault", violation |-> violation]
Panic == [kind |-> "panic"]
IsValue(result) == result.kind \in {"token", "measure", "sequence"}

\* Mutant: the floor counts its steps from zero.
Floor_FromZero(domain, measure) ==
    LET clamped == IF measure < domain.min THEN domain.min ELSE Lesser(measure, domain.max)
    IN  clamped - (clamped % domain.step)

\* u64::clamp then the floor onto a step counted from min.
Floor(domain, measure) ==
    LET clamped == IF measure < domain.min THEN domain.min ELSE Lesser(measure, domain.max)
    IN  clamped - ((clamped - domain.min) % domain.step)

\* FieldDomain::generalize on the two scalar domains; u64::clamp panics when min > max.
GeneralizeScalar(domain, value) ==
    CASE domain.kind = "enumeration" /\ value.kind = "token" ->
            IF value.token \in domain.allowed THEN value ELSE Fault("value_out_of_domain")
      [] domain.kind = "quantized" /\ value.kind = "measure" ->
            IF domain.min > domain.max THEN Panic ELSE Measure(Floor(domain, value.measure))
      [] OTHER -> Fault("non_canonical_encoding")

\* FieldDomain::generalize: truncates first, so what is cut off is never looked at.
Generalize(domain, value) ==
    IF domain.kind # "sequence" \/ value.kind # "sequence" THEN GeneralizeScalar(domain, value)
    ELSE LET kept == SubSeq(value.items, 1, Lesser(Len(value.items), domain.max_len))
             made == [i \in DOMAIN kept |-> GeneralizeScalar(domain.item, kept[i])]
             bad  == {i \in DOMAIN kept : ~IsValue(made[i])}
         IN  IF bad = {} THEN Sequence(made) ELSE made[Least(bad)]

-----------------------------------------------------------------------------
(* Schemas, and what the two entry points return.                          *)

DeclaredFields(schema) == DOMAIN schema.required \cup DOMAIN schema.optional

\* ArchetypeSchema::domain: a required declaration hides an optional one.
DeclaredDomain(schema, field) ==
    IF field \in DOMAIN schema.required THEN schema.required[field] ELSE schema.optional[field]

Broken(combination, present) ==
    CASE combination.kind = "mutually_exclusive" ->
            combination.left \in present /\ combination.right \in present
      [] combination.kind = "required_with" ->
            combination.present \in present /\ combination.requires \notin present

\* The field a broken rule is reported at.
Blamed(combination) ==
    IF combination.kind = "mutually_exclusive" THEN combination.right ELSE combination.requires

Refused(violation, field) == [outcome |-> "refused", violation |-> violation, field |-> field]
Panicked == [outcome |-> "panicked"]
Admitted == [outcome |-> "ok"]
Made(signal) == [outcome |-> "ok", signal |-> signal]

\* Mutant: only the first of the rules is read.
CheckCombinations_FirstOnly(schema, present) ==
    IF schema.combinations # << >> /\ Broken(schema.combinations[1], present)
    THEN Refused("invalid_field_combination", Blamed(schema.combinations[1]))
    ELSE Admitted

\* Mutant: whichever rule is broken, the first one's field is reported.
CheckCombinations_BlamesFirst(schema, present) ==
    IF \E i \in DOMAIN schema.combinations : Broken(schema.combinations[i], present)
    THEN Refused("invalid_field_combination", Blamed(schema.combinations[1]))
    ELSE Admitted

\* ArchetypeSchema::check_combinations: the first rule the fields break.
CheckCombinations(schema, present) ==
    LET broken == {i \in DOMAIN schema.combinations : Broken(schema.combinations[i], present)}
    IN  IF broken = {} THEN Admitted
        ELSE Refused("invalid_field_combination", Blamed(schema.combinations[Least(broken)]))

\* What the required loop of `transform` makes of each field.
Required(schema, fields) ==
    [f \in DOMAIN schema.required |->
        IF f \in DOMAIN fields THEN Generalize(schema.required[f], fields[f])
        ELSE Fault("missing_field")]

\* Mutant: optional fields are carried as they were observed.
Optional_AsObserved(schema, fields) ==
    [f \in DOMAIN schema.optional \cap DOMAIN fields |-> fields[f]]

\* What its optional loop makes of the fields that were observed.
Optional(schema, fields) ==
    [f \in DOMAIN schema.optional \cap DOMAIN fields |->
        Generalize(schema.optional[f], fields[f])]

Failed(results) == {f \in DOMAIN results : ~IsValue(results[f])}
Stopped(results) ==
    LET first == Least(Failed(results))
    IN  IF results[first] = Panic THEN Panicked ELSE Refused(results[first].violation, first)

\* transform: required fields, then optional ones, which overwrite, then the joint rules.
Transform(registry, observation) ==
    LET schema   == registry[observation.archetype]
        required == Required(schema, observation.fields)
        optional == Optional(schema, observation.fields)
        fields   == [f \in DOMAIN required \cup DOMAIN optional |->
                        IF f \in DOMAIN optional THEN optional[f] ELSE required[f]]
        joint    == CheckCombinations(schema, DOMAIN fields)
    IN  IF schema = None THEN Refused("unknown_archetype", None)
        ELSE IF Failed(required) # {} THEN Stopped(required)
        ELSE IF Failed(optional) # {} THEN Stopped(optional)
        ELSE IF joint # Admitted THEN joint
        ELSE Made([schema_version |-> schema.schema_version,
                   archetype      |-> schema.archetype,
                   fields         |-> fields])

\* validate: the version, presence, each carried field in order, then the joint rules.
Validate(registry, signal) ==
    LET schema  == registry[signal.archetype]
        carried == DOMAIN signal.fields
        missing == DOMAIN schema.required \ carried
        fault   == [f \in carried |->
                       IF f \in DeclaredFields(schema)
                       THEN Check(DeclaredDomain(schema, f), signal.fields[f])
                       ELSE "unknown_field"]
        bad     == {f \in carried : fault[f] # "ok"}
        joint   == CheckCombinations(schema, carried)
    IN  IF schema = None THEN Refused("unknown_archetype", None)
        ELSE IF schema.schema_version # signal.schema_version
             THEN Refused("schema_version_mismatch", None)
        ELSE IF missing # {} THEN Refused("missing_field", Least(missing))
        ELSE IF bad # {} THEN Refused(fault[Least(bad)], Least(bad))
        ELSE IF joint # Admitted THEN joint
        ELSE Admitted

-----------------------------------------------------------------------------
(* The steps.                                                              *)

EmptyRegistry == [a \in Archetypes |-> None]

Init == /\ client = EmptyRegistry
        /\ server = EmptyRegistry
        /\ wire = {}
        /\ corpus = {}
        /\ returned = None

\* Mutant: the declaration is stored under every name.
WithArchetype_EveryName(registry, schema) == [a \in Archetypes |-> schema]

\* SchemaRegistry::with_archetype: replaces any declaration of the same archetype.
WithArchetype(registry, schema) == [registry EXCEPT ![schema.archetype] = schema]

RegisterClient(schema) == /\ client' = WithArchetype(client, schema)
                          /\ returned' = None
                          /\ UNCHANGED <<server, wire, corpus>>

RegisterServer(schema) == /\ server' = WithArchetype(server, schema)
                          /\ returned' = None
                          /\ UNCHANGED <<client, wire, corpus>>

\* The official client transforms an observation and sends what comes out.
Observe(observation) ==
    LET result == Transform(client, observation)
    IN  /\ wire = {}
        /\ returned' = [by |-> "client", on |-> observation, result |-> result]
        /\ wire' = IF result.outcome = "ok"
                   THEN {[signal |-> result.signal, made |-> client[observation.archetype]]}
                   ELSE wire
        /\ UNCHANGED <<client, server, corpus>>

\* A client that skips the transform sends a payload of its own.
SendUntransformed(payload) == /\ wire = {}
                              /\ wire' = {[signal |-> payload, made |-> None]}
                              /\ returned' = None
                              /\ UNCHANGED <<client, server, corpus>>

\* Mutant: what is admitted is repaired by the transform on its way in.
Receive_Repairs(message) ==
    LET result == Transform(server, message.signal)
    IN  /\ Cardinality(corpus) < MaxCorpus
        /\ returned' = [by |-> "server", on |-> message.signal, result |-> result]
        /\ corpus' = IF result.outcome = "ok" THEN corpus \cup {result.signal} ELSE corpus
        /\ UNCHANGED <<client, server, wire>>

\* Mutant: the signal is validated against the registry the client holds.
Receive_ClientRegistry(message) ==
    LET result == Validate(client, message.signal)
    IN  /\ Cardinality(corpus) < MaxCorpus
        /\ returned' = [by |-> "server", on |-> message.signal, result |-> result]
        /\ corpus' = IF result.outcome = "ok" THEN corpus \cup {message.signal} ELSE corpus
        /\ UNCHANGED <<client, server, wire>>

\* A signal arrives and is validated; the transport may still hold a copy of it.
Receive(message) ==
    LET result == Validate(server, message.signal)
    IN  /\ Cardinality(corpus) < MaxCorpus
        /\ returned' = [by |-> "server", on |-> message.signal, result |-> result]
        /\ corpus' = IF result.outcome = "ok" THEN corpus \cup {message.signal} ELSE corpus
        /\ UNCHANGED <<client, server, wire>>

\* The transport loses a signal, or forgets a delivered one.
Drop(message) == /\ wire' = wire \ {message}
                 /\ returned' = None
                 /\ UNCHANGED <<client, server, corpus>>

Next == \/ \E schema \in Schemas : RegisterClient(schema) \/ RegisterServer(schema)
        \/ \E observation \in Observations : Observe(observation)
        \/ \E payload \in Payloads : SendUntransformed(payload)
        \/ \E message \in wire : Receive(message) \/ Drop(message)

Spec == Init /\ [][Next]_vars

-----------------------------------------------------------------------------
(* What a declaration denotes, said without the code's order of checks.    *)

CarriesScalar(domain, value) ==
    CASE domain.kind = "enumeration" -> value.kind = "token" /\ value.token \in domain.allowed
      [] domain.kind = "quantized" ->
            /\ value.kind = "measure"
            /\ \E k \in 0 .. domain.max : /\ value.measure = domain.min + k * domain.step
                                         /\ value.measure <= domain.max

\* The values a field of this domain may carry.
Carries(domain, value) ==
    IF domain.kind # "sequence" THEN CarriesScalar(domain, value)
    ELSE /\ value.kind = "sequence"
         /\ Len(value.items) <= domain.max_len
         /\ \A i \in DOMAIN value.items : CarriesScalar(domain.item, value.items[i])

\* A signal that says only what the declaration lets it say, of this version.
Conforms(schema, signal) ==
    /\ schema # None
    /\ signal.archetype = schema.archetype
    /\ signal.schema_version = schema.schema_version
    /\ DOMAIN schema.required \subseteq DOMAIN signal.fields
    /\ DOMAIN signal.fields \subseteq DeclaredFields(schema)
    /\ \A f \in DOMAIN signal.fields : Carries(DeclaredDomain(schema, f), signal.fields[f])
    /\ \A i \in DOMAIN schema.combinations :
            ~Broken(schema.combinations[i], DOMAIN signal.fields)

\* The field a refusal names is at fault by itself; it names none when it is the declaration
\* or its version that does not fit.
Blames(schema, signal, refusal) ==
    LET fields == signal.fields
        field  == refusal.field
    IN  CASE field = None -> schema = None \/ schema.schema_version # signal.schema_version
          [] refusal.violation = "missing_field" ->
                field \in DOMAIN schema.required \ DOMAIN fields
          [] refusal.violation = "unknown_field" ->
                field \in DOMAIN fields \ DeclaredFields(schema)
          [] refusal.violation = "invalid_field_combination" ->
                /\ \A f \in DOMAIN fields : Carries(DeclaredDomain(schema, f), fields[f])
                /\ \E i \in DOMAIN schema.combinations :
                      /\ Broken(schema.combinations[i], DOMAIN fields)
                      /\ Blamed(schema.combinations[i]) = field
          [] OTHER -> ~Carries(DeclaredDomain(schema, field), fields[field])

\* What the types of a schema let through and its author has to see to: no field is declared
\* both required and optional.
Disjoint(schema) == DOMAIN schema.required \cap DOMAIN schema.optional = {}

Registries == {r \in [Archetypes -> Schemas \cup {None}] :
                  \A a \in Archetypes : r[a] # None => r[a].archetype = a}

(* The properties.                                                         *)

\* Registries hold declarations under their own names; what is in flight came from a
\* transform under some declaration, or from a client that skipped it; only sent signals
\* are in the corpus or were answered.
TypeOK ==
    /\ client \in Registries
    /\ server \in Registries
    /\ Cardinality(wire) <= 1
    /\ \A message \in wire : message.made \in Schemas \cup {None}
    /\ Cardinality(corpus) <= MaxCorpus
    /\ returned # None => /\ returned.by \in {"client", "server"}
                         /\ returned.result.outcome \in {"ok", "refused", "panicked"}

\* Whatever the client observed, what its transform put in flight conforms to the
\* declaration it was made under, even after either registry has moved on: the two halves,
\* written apart (domain.rs `generalize` and `check`), agree.
OutputConforms ==
    \A message \in wire :
        (message.made # None /\ Disjoint(message.made))
            => Conforms(message.made, message.signal)

\* The transform leaves alone exactly the observations that already conform: it carries a
\* conforming one over unchanged, so applying it twice is applying it once, and it never
\* returns as it was one that says more than the declaration allows.
FixedPoints ==
    (returned # None /\ returned.by = "client") =>
        LET schema == client[returned.on.archetype]
            asSent == [schema_version |-> schema.schema_version,
                       archetype      |-> returned.on.archetype,
                       fields         |-> returned.on.fields]
        IN  (schema # None /\ Disjoint(schema)) =>
                (returned.result = Made(asSent) <=> Conforms(schema, asSent))

\* The validator admits a signal exactly when it conforms to what the server declares of its
\* archetype and version now: neither an order of checks nor an early return lets one more
\* in or keeps one more out, for any declaration, the careless ones included.
VerdictExact ==
    (returned # None /\ returned.by = "server") =>
        (returned.result.outcome = "ok"
            <=> Conforms(server[returned.on.archetype], returned.on))

\* A refusal by the validator blames a field that is at fault by itself, whatever else is
\* wrong with the payload.
BlameFits ==
    (returned # None /\ returned.by = "server" /\ returned.result.outcome = "refused") =>
        Blames(server[returned.on.archetype], returned.on, returned.result)

\* The corpus changes only by admitting, as it was sent, one signal in flight that conforms
\* to the server's declaration at that moment; nothing is repaired and nothing taken back.
AdmitsAsSent ==
    [][corpus' # corpus =>
        \E message \in wire :
            /\ corpus' = corpus \cup {message.signal}
            /\ Conforms(server[message.signal.archetype], message.signal)]_vars

\* A signal the transform made is never refused by a server that holds the declaration it
\* was made under, and never admitted by one that has moved to another version.
HonestOutcome ==
    [][\A message \in wire :
        (/\ message.made # None
         /\ Disjoint(message.made)
         /\ returned' # None
         /\ returned'.by = "server") =>
            LET declared == server[message.signal.archetype]
            IN  /\ declared = message.made => returned'.result = Admitted
                /\ (declared # None /\ declared.schema_version # message.made.schema_version)
                      => returned'.result = Refused("schema_version_mismatch", None)]_vars
=============================================================================
