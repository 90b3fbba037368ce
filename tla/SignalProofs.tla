---------------------------- MODULE SignalProofs ----------------------------
(* What the validator decides, for every registry with_archetype builds, every *)
(* declaration its types admit and every payload: proofs about SignalBoundary. *)
EXTENDS SignalBoundary, TLAPS, WellFoundedInduction, FiniteSetTheorems

\* A non-empty set of natural numbers has a least element, the one `Least` names: the field
\* or item at which a loop over a BTreeMap or a Vec stops.
LEMMA LeastIn ==
    ASSUME NEW S, S \subseteq Nat, S # {}
    PROVE  Least(S) \in S
<1>1. PICK x \in S : \A y \in S : <<y, x>> \notin OpToRel(<, Nat)
  BY NatLessThanWellFounded, WFMin, Zenon
<1>2. \A y \in S : x <= y
  <2>1. SUFFICES ASSUME NEW y \in S PROVE x <= y
    OBVIOUS
  <2>2. ~(y < x)
    BY <1>1 DEF OpToRel
  <2>3. QED
    BY <2>2
<1>3. QED
  BY <1>2 DEF Least

\* The test for a whole number of steps, as the code computes it and as it is meant.
LEMMA WholeSteps ==
    ASSUME NEW m \in Nat, NEW step \in Nat \ {0}, NEW bound \in Nat, m <= bound
    PROVE  m % step = 0 <=> \E k \in 0 .. bound : m = k * step
<1>1. ASSUME m % step = 0 PROVE \E k \in 0 .. bound : m = k * step
  <2>1. m = (m \div step) * step
    BY <1>1, SMT
  <2>2. m \div step \in 0 .. bound
    BY SMT
  <2>3. QED
    BY <2>1, <2>2
<1>2. ASSUME NEW k \in 0 .. bound, m = k * step PROVE m % step = 0
  BY <1>2, SMT
<1>3. QED
  BY <1>1, <1>2

\* On an enumeration or a measure `check` accepts exactly the values the domain carries.
LEMMA ScalarExact ==
    ASSUME NEW domain, ScalarDomain(domain), NEW value
    PROVE  CheckScalar(domain, value) = "ok" <=> CarriesScalar(domain, value)
<1>1. CASE domain.kind = "enumeration"
  BY <1>1 DEF CheckScalar, CarriesScalar
<1>2. CASE domain.kind = "quantized" /\ value.kind # "measure"
  BY <1>2 DEF CheckScalar, CarriesScalar
<1>3. CASE domain.kind = "quantized" /\ value.kind = "measure"
  <2>1. /\ domain.min \in Nat /\ domain.max \in Nat /\ domain.step \in Nat \ {0}
    BY <1>3 DEF ScalarDomain
  <2>2. CheckScalar(domain, value) = "ok"
          <=> /\ value.measure \in domain.min .. domain.max
              /\ (value.measure - domain.min) % domain.step = 0
    BY <1>3 DEF CheckScalar
  <2>3. CarriesScalar(domain, value)
          <=> \E k \in 0 .. domain.max : /\ value.measure = domain.min + k * domain.step
                                        /\ value.measure <= domain.max
    BY <1>3 DEF CarriesScalar
  <2>4. ASSUME value.measure \in domain.min .. domain.max
        PROVE  (value.measure - domain.min) % domain.step = 0
                 <=> \E k \in 0 .. domain.max : value.measure = domain.min + k * domain.step
    <3> DEFINE m == value.measure - domain.min
    <3>1. m \in Nat /\ m <= domain.max
      BY <2>1, <2>4
    <3>2. m % domain.step = 0 <=> \E k \in 0 .. domain.max : m = k * domain.step
      <4> HIDE DEF m
      <4> QED
        BY <2>1, <3>1, WholeSteps
    <3>3. ASSUME NEW k \in 0 .. domain.max
          PROVE  m = k * domain.step <=> value.measure = domain.min + k * domain.step
      BY <2>1, <2>4, SMT
    <3>4. QED
      BY <3>2, <3>3
  <2>5. ASSUME NEW k \in 0 .. domain.max, value.measure = domain.min + k * domain.step,
               value.measure <= domain.max
        PROVE  value.measure \in domain.min .. domain.max
    <3>1. k * domain.step \in Nat
      BY <2>1, SMT
    <3>2. QED
      BY <2>1, <2>5, <3>1
  <2>6. QED
    BY <2>1, <2>2, <2>3, <2>4, <2>5
<1>4. QED
  BY <1>1, <1>2, <1>3 DEF ScalarDomain

\* So does it on a sequence: the first bad item is found if there is one.
LEMMA CheckExact ==
    ASSUME NEW domain, FieldDomain(domain), NEW value,
           Shape(value)
    PROVE  Check(domain, value) = "ok" <=> Carries(domain, value)
<1>1. CASE domain.kind # "sequence"
  BY <1>1, ScalarExact DEF Check, Carries, FieldDomain
<1>2. CASE domain.kind = "sequence" /\ value.kind # "sequence"
  BY <1>2 DEF Check, Carries, CheckScalar
<1>3. CASE domain.kind = "sequence" /\ value.kind = "sequence"
  <2>1. ScalarDomain(domain.item) /\ domain.max_len \in Nat
    BY <1>3 DEF FieldDomain, ScalarDomain
  <2>2. Len(value.items) \in Nat /\ DOMAIN value.items \subseteq Nat
    BY <1>3 DEF Shape
  <2> DEFINE bad == {i \in DOMAIN value.items : CheckScalar(domain.item, value.items[i]) # "ok"}
  <2>3. bad = {} <=> \A i \in DOMAIN value.items : CarriesScalar(domain.item, value.items[i])
    BY <2>1, ScalarExact
  <2>4. bad # {} => CheckScalar(domain.item, value.items[Least(bad)]) # "ok"
    <3>1. bad # {} => Least(bad) \in bad
      BY <2>2, LeastIn
    <3>2. QED
      BY <3>1
  <2>5. Check(domain, value) =
          IF Len(value.items) > domain.max_len THEN "excess_cardinality"
          ELSE IF bad = {} THEN "ok" ELSE CheckScalar(domain.item, value.items[Least(bad)])
    BY <1>3 DEF Check
  <2>6. Carries(domain, value)
          <=> /\ Len(value.items) <= domain.max_len
              /\ \A i \in DOMAIN value.items : CarriesScalar(domain.item, value.items[i])
    BY <1>3 DEF Carries
  <2> HIDE DEF bad
  <2>7. QED
    BY <2>1, <2>2, <2>3, <2>4, <2>5, <2>6
<1>4. QED
  BY <1>1, <1>2, <1>3

-----------------------------------------------------------------------------

\* The loop over the joint rules passes exactly when none is broken.
LEMMA CombinationsExact ==
    ASSUME NEW schema \in Schemas, NEW present
    PROVE  CheckCombinations(schema, present) = Admitted
             <=> \A i \in DOMAIN schema.combinations : ~Broken(schema.combinations[i], present)
<1> DEFINE broken == {i \in DOMAIN schema.combinations : Broken(schema.combinations[i], present)}
<1>1. CheckCombinations(schema, present) =
        IF broken = {} THEN Admitted
        ELSE Refused("invalid_field_combination", Blamed(schema.combinations[Least(broken)]))
  BY DEF CheckCombinations
<1>2. broken = {} <=> \A i \in DOMAIN schema.combinations : ~Broken(schema.combinations[i], present)
  OBVIOUS
<1> HIDE DEF broken
<1>3. QED
  BY <1>1, <1>2 DEF Admitted, Refused

\* `validate` admits a payload exactly when it conforms to what the registry declares.
LEMMA ValidateExact ==
    ASSUME NEW registry \in Registries, NEW signal,
           signal.archetype \in Archetypes, FieldMap(signal.fields)
    PROVE  Validate(registry, signal).outcome = "ok"
             <=> Conforms(registry[signal.archetype], signal)
<1> DEFINE schema  == registry[signal.archetype]
           carried == DOMAIN signal.fields
           missing == DOMAIN schema.required \ carried
           fault   == [f \in carried |->
                          IF f \in DeclaredFields(schema)
                          THEN Check(DeclaredDomain(schema, f), signal.fields[f])
                          ELSE "unknown_field"]
           bad     == {f \in carried : fault[f] # "ok"}
           joint   == CheckCombinations(schema, carried)
<1>1. Validate(registry, signal) =
        IF schema = None THEN Refused("unknown_archetype", None)
        ELSE IF schema.schema_version # signal.schema_version
             THEN Refused("schema_version_mismatch", None)
        ELSE IF missing # {} THEN Refused("missing_field", Least(missing))
        ELSE IF bad # {} THEN Refused(fault[Least(bad)], Least(bad))
        ELSE IF joint # Admitted THEN joint
        ELSE Admitted
  BY DEF Validate
<1>2. /\ schema \in Schemas \cup {None}
      /\ schema # None => schema.archetype = signal.archetype
  BY DEF Registries
<1>3. CASE schema = None
  BY <1>1, <1>3 DEF Refused, Conforms
<1>4. CASE schema # None
  <2>1. schema \in Schemas
    BY <1>2, <1>4
  <2>2. missing = {} <=> DOMAIN schema.required \subseteq carried
    OBVIOUS
  <2>3. bad = {}
          <=> /\ carried \subseteq DeclaredFields(schema)
              /\ \A f \in carried : Carries(DeclaredDomain(schema, f), signal.fields[f])
    <3>1. ASSUME NEW f \in carried
          PROVE  fault[f] = "ok"
                   <=> /\ f \in DeclaredFields(schema)
                       /\ Carries(DeclaredDomain(schema, f), signal.fields[f])
      <4>1. CASE f \notin DeclaredFields(schema)
        BY <4>1
      <4>2. CASE f \in DeclaredFields(schema)
        <5>1. FieldDomain(DeclaredDomain(schema, f))
          BY <2>1, <4>2, SchemasAssumption DEF DeclaredFields, DeclaredDomain
        <5>2. Shape(signal.fields[f])
          BY DEF FieldMap
        <5>3. Check(DeclaredDomain(schema, f), signal.fields[f]) = "ok"
                <=> Carries(DeclaredDomain(schema, f), signal.fields[f])
          BY <5>1, <5>2, CheckExact
        <5>4. QED
          BY <4>2, <5>3
      <4>3. QED
        BY <4>1, <4>2
    <3> HIDE DEF fault
    <3>2. QED
      BY <3>1
  <2>4. joint = Admitted
          <=> \A i \in DOMAIN schema.combinations : ~Broken(schema.combinations[i], carried)
    BY <2>1, CombinationsExact
  <2>5. joint # Admitted => joint.outcome # "ok"
    BY DEF CheckCombinations, Admitted, Refused
  <2>6. Conforms(schema, signal)
          <=> /\ schema.schema_version = signal.schema_version
              /\ missing = {}
              /\ bad = {}
              /\ joint = Admitted
    BY <1>2, <1>4, <2>2, <2>3, <2>4 DEF Conforms
  <2> HIDE DEF schema, carried, missing, fault, bad, joint
  <2>7. /\ Admitted.outcome = "ok"
        /\ \A v, f : Refused(v, f).outcome = "refused"
    BY DEF Admitted, Refused
  <2>8. Validate(registry, signal).outcome = "ok" <=> Conforms(schema, signal)
    BY <1>1, <1>4, <2>5, <2>6, <2>7
  <2>9. QED
    BY <2>8 DEF schema
<1>5. QED
  BY <1>3, <1>4

-----------------------------------------------------------------------------

\* A measure floored onto its step and clamped to its bounds is a value of its domain, whether
\* or not the bounds are themselves on a step.
LEMMA FloorCarried ==
    ASSUME NEW domain, domain.min \in Nat, domain.max \in Nat, domain.step \in Nat \ {0},
           domain.min <= domain.max, NEW measure \in Nat
    PROVE  /\ Floor(domain, measure) \in Nat
           /\ Floor(domain, measure) <= domain.max
           /\ \E k \in 0 .. domain.max : Floor(domain, measure) = domain.min + k * domain.step
<1> DEFINE clamped == IF measure < domain.min THEN domain.min ELSE Lesser(measure, domain.max)
           above   == clamped - domain.min
           k       == above \div domain.step
<1>1. clamped \in domain.min .. domain.max
  BY DEF Lesser
<1>2. above \in Nat /\ above <= domain.max
  BY <1>1
<1>3. Floor(domain, measure) = domain.min + (above - (above % domain.step))
  <2>1. Floor(domain, measure) = clamped - (above % domain.step)
    BY DEF Floor
  <2>2. above % domain.step \in Nat
    <3> HIDE DEF above
    <3> QED
      BY <1>2, SMT
  <2> HIDE DEF clamped
  <2>3. QED
    BY <1>1, <2>1, <2>2
<1> HIDE DEF above
<1>4. above - (above % domain.step) = k * domain.step
  BY <1>2, SMT
<1>5. k \in 0 .. domain.max /\ k * domain.step \in Nat /\ k * domain.step <= above
  <2>1. k \in 0 .. domain.max
    BY <1>2, SMT
  <2>2. above % domain.step \in Nat
    BY <1>2, SMT
  <2>3. k * domain.step \in Nat
    BY <2>1, SMT
  <2>4. QED
    BY <1>2, <1>4, <2>1, <2>2, <2>3
<1>6. domain.min + above <= domain.max
  BY <1>1 DEF above
<1> HIDE DEF k
<1>7. QED
  BY <1>2, <1>3, <1>4, <1>5, <1>6

LEMMA ScalarCarried ==
    ASSUME NEW domain, ScalarDomain(domain), NEW value, ScalarShape(value),
           IsValue(GeneralizeScalar(domain, value))
    PROVE  /\ CarriesScalar(domain, GeneralizeScalar(domain, value))
           /\ ScalarShape(GeneralizeScalar(domain, value))
           /\ GeneralizeScalar(domain, value).kind # "sequence"
<1> DEFINE made == GeneralizeScalar(domain, value)
<1>1. CASE domain.kind = "enumeration"
  <2>1. made = value /\ value.kind = "token" /\ value.token \in domain.allowed
    BY <1>1 DEF GeneralizeScalar, Fault, IsValue
  <2>2. QED
    BY <1>1, <2>1 DEF CarriesScalar, ScalarShape
<1>2. CASE domain.kind = "quantized"
  <2>1. /\ value.kind = "measure"
        /\ ~(domain.min > domain.max)
        /\ made = Measure(Floor(domain, value.measure))
    BY <1>2 DEF GeneralizeScalar, Fault, Panic, IsValue
  <2>2. /\ domain.min \in Nat /\ domain.max \in Nat /\ domain.step \in Nat \ {0}
        /\ value.measure \in Nat
    BY <1>2, <2>1 DEF ScalarDomain, ScalarShape
  <2>3. domain.min <= domain.max
    BY <2>1, <2>2
  <2>4. /\ Floor(domain, value.measure) \in Nat
        /\ Floor(domain, value.measure) <= domain.max
        /\ \E k \in 0 .. domain.max :
              Floor(domain, value.measure) = domain.min + k * domain.step
    BY <2>2, <2>3, FloorCarried
  <2>5. made.kind = "measure" /\ made.measure = Floor(domain, value.measure)
    BY <2>1 DEF Measure
  <2> HIDE DEF made
  <2>6. CarriesScalar(domain, made)
    BY <1>2, <2>4, <2>5 DEF CarriesScalar
  <2>7. made = [kind |-> "measure", measure |-> made.measure]
    BY <2>1, <2>5 DEF Measure
  <2>8. QED
    BY <2>4, <2>5, <2>6, <2>7 DEF made, ScalarShape
<1>3. QED
  BY <1>1, <1>2 DEF ScalarDomain

\* Whatever `generalize` does not refuse it brings into the domain, so `check` accepts it.
LEMMA GeneralizeCarried ==
    ASSUME NEW domain, FieldDomain(domain), NEW value, Shape(value),
           IsValue(Generalize(domain, value))
    PROVE  /\ Carries(domain, Generalize(domain, value))
           /\ Shape(Generalize(domain, value))
<1>1. CASE domain.kind # "sequence"
  <2>1. Generalize(domain, value) = GeneralizeScalar(domain, value) /\ ScalarDomain(domain)
    BY <1>1 DEF Generalize, FieldDomain
  <2>2. ScalarShape(value)
    BY DEF Shape
  <2>3. QED
    BY <1>1, <2>1, <2>2, ScalarCarried DEF Carries, Shape
<1>2. CASE domain.kind = "sequence" /\ value.kind # "sequence"
  BY <1>2 DEF Generalize, GeneralizeScalar, Fault, IsValue
<1>3. CASE domain.kind = "sequence" /\ value.kind = "sequence"
  <2> DEFINE kept == SubSeq(value.items, 1, Lesser(Len(value.items), domain.max_len))
             made == [i \in DOMAIN kept |-> GeneralizeScalar(domain.item, kept[i])]
             bad  == {i \in DOMAIN kept : ~IsValue(made[i])}
  <2>1. Generalize(domain, value) = IF bad = {} THEN Sequence(made) ELSE made[Least(bad)]
    BY <1>3 DEF Generalize
  <2>2. domain.max_len \in Nat /\ ScalarDomain(domain.item)
    BY <1>3 DEF FieldDomain, ScalarDomain
  <2>3. /\ value.items \in Seq({value.items[i] : i \in DOMAIN value.items})
        /\ \A i \in DOMAIN value.items : ScalarShape(value.items[i])
    BY <1>3 DEF Shape
  <2>4. /\ DOMAIN kept = 1 .. Len(kept)
        /\ Len(kept) \in Nat
        /\ Len(kept) <= domain.max_len
        /\ \A i \in DOMAIN kept : ScalarShape(kept[i])
    BY <2>2, <2>3 DEF Lesser
  <2> HIDE DEF kept
  <2>5. bad # {} => ~IsValue(made[Least(bad)])
    <3>1. bad \subseteq Nat
      BY <2>4
    <3>2. bad # {} => Least(bad) \in bad
      <4> HIDE DEF bad
      <4> QED
        BY <3>1, LeastIn
    <3>3. QED
      BY <3>2
  <2>6. bad = {}
    <3> HIDE DEF made, bad
    <3> QED
      BY <2>1, <2>5
  <2>7. ASSUME NEW i \in DOMAIN kept
        PROVE  CarriesScalar(domain.item, made[i]) /\ ScalarShape(made[i])
    <3>1. made[i] = GeneralizeScalar(domain.item, kept[i]) /\ IsValue(made[i])
      BY <2>6
    <3>2. QED
      BY <2>2, <2>4, <3>1, ScalarCarried
  <2>8. /\ DOMAIN made = 1 .. Len(kept)
        /\ made \in Seq({made[i] : i \in DOMAIN made})
        /\ Len(made) <= domain.max_len
    BY <2>4
  <2>9. /\ Generalize(domain, value).kind = "sequence"
        /\ Generalize(domain, value).items = made
        /\ Generalize(domain, value) = [kind |-> "sequence", items |-> made]
    BY <2>1, <2>6 DEF Sequence
  <2>10. DOMAIN made = DOMAIN kept
    BY DEF made
  <2> HIDE DEF made, bad
  <2>11. Carries(domain, Generalize(domain, value))
    BY <1>3, <2>7, <2>8, <2>9, <2>10 DEF Carries
  <2>12. Shape(Generalize(domain, value))
    BY <2>7, <2>8, <2>9, <2>10 DEF Shape, ScalarShape
  <2>13. QED
    BY <2>11, <2>12
<1>4. QED
  BY <1>1, <1>2, <1>3

\* What `transform` makes is a signal of the declaration it read, and conforms to it if no field
\* is declared twice.
LEMMA TransformConforms ==
    ASSUME NEW registry \in Registries, NEW observation \in Observations,
           Transform(registry, observation).outcome = "ok"
    PROVE  LET signal == Transform(registry, observation).signal
           IN  /\ signal.archetype \in Archetypes
               /\ FieldMap(signal.fields)
               /\ Disjoint(registry[observation.archetype])
                    => Conforms(registry[observation.archetype], signal)
<1> DEFINE schema   == registry[observation.archetype]
           required == Required(schema, observation.fields)
           optional == Optional(schema, observation.fields)
           fields   == [f \in DOMAIN required \cup DOMAIN optional |->
                           IF f \in DOMAIN optional THEN optional[f] ELSE required[f]]
           joint    == CheckCombinations(schema, DOMAIN fields)
           made     == [schema_version |-> schema.schema_version,
                        archetype      |-> schema.archetype,
                        fields         |-> fields]
<1>1. Transform(registry, observation) =
        IF schema = None THEN Refused("unknown_archetype", None)
        ELSE IF Failed(required) # {} THEN Stopped(required)
        ELSE IF Failed(optional) # {} THEN Stopped(optional)
        ELSE IF joint # Admitted THEN joint
        ELSE Made(made)
  BY DEF Transform
<1>2. \A results : Stopped(results).outcome # "ok"
  BY DEF Stopped, Panicked, Refused
<1>3. joint # Admitted => joint.outcome # "ok"
  BY DEF CheckCombinations, Admitted, Refused
<1>4. /\ schema # None
      /\ Failed(required) = {} /\ Failed(optional) = {}
      /\ joint = Admitted
      /\ Transform(registry, observation).signal = made
  <2> HIDE DEF schema, required, optional, joint, made
  <2>1. \A v, f : Refused(v, f).outcome = "refused"
    BY DEF Refused
  <2>2. QED
    BY <1>1, <1>2, <1>3, <2>1 DEF Made
<1>5. observation.archetype \in Archetypes /\ FieldMap(observation.fields)
  BY InputsAssumption
<1>6. /\ schema \in Schemas /\ schema.archetype \in Archetypes
      /\ DOMAIN schema.required \subseteq Nat /\ DOMAIN schema.optional \subseteq Nat
      /\ \A f \in DOMAIN schema.required : FieldDomain(schema.required[f])
      /\ \A f \in DOMAIN schema.optional : FieldDomain(schema.optional[f])
  BY <1>4, <1>5, SchemasAssumption DEF Registries
<1>7. /\ DOMAIN required = DOMAIN schema.required
      /\ DOMAIN optional = DOMAIN schema.optional \cap DOMAIN observation.fields
  BY DEF Required, Optional
<1>8. ASSUME NEW f \in DOMAIN optional
      PROVE  Carries(schema.optional[f], optional[f]) /\ Shape(optional[f])
  <2>1. optional[f] = Generalize(schema.optional[f], observation.fields[f])
    BY <1>8 DEF Optional
  <2>2. IsValue(optional[f])
    BY <1>4, <1>8 DEF Failed
  <2>3. FieldDomain(schema.optional[f]) /\ Shape(observation.fields[f])
    BY <1>5, <1>6, <1>7, <1>8 DEF FieldMap
  <2> HIDE DEF optional, schema
  <2>4. QED
    BY <2>1, <2>2, <2>3, GeneralizeCarried
<1>9. ASSUME NEW f \in DOMAIN required
      PROVE  Carries(schema.required[f], required[f]) /\ Shape(required[f])
  <2>1. IsValue(required[f])
    BY <1>4, <1>9 DEF Failed
  <2>2. f \in DOMAIN observation.fields
    BY <1>9, <2>1 DEF Required, Fault, IsValue
  <2>3. required[f] = Generalize(schema.required[f], observation.fields[f])
    BY <1>9, <2>2 DEF Required
  <2>4. FieldDomain(schema.required[f]) /\ Shape(observation.fields[f])
    BY <1>5, <1>6, <1>7, <1>9, <2>2 DEF FieldMap
  <2> HIDE DEF required, schema
  <2>5. QED
    BY <2>1, <2>3, <2>4, GeneralizeCarried
<1> HIDE DEF schema, required, optional
<1>10. DOMAIN fields = DOMAIN required \cup DOMAIN optional
  OBVIOUS
<1>11. ASSUME NEW f \in DOMAIN fields
       PROVE  /\ f \in DOMAIN optional => fields[f] = optional[f]
              /\ f \notin DOMAIN optional => f \in DOMAIN required /\ fields[f] = required[f]
  BY <1>11
<1>12. made.archetype = schema.archetype /\ made.schema_version = schema.schema_version
       /\ made.fields = fields
  OBVIOUS
<1>13. FieldMap(fields)
  <2>1. fields = [f \in DOMAIN fields |-> fields[f]]
    OBVIOUS
  <2> HIDE DEF fields, made
  <2> QED
    BY <1>6, <1>7, <1>8, <1>9, <1>10, <1>11, <2>1 DEF FieldMap
<1> HIDE DEF fields, made
<1>14. ASSUME Disjoint(schema) PROVE Conforms(schema, made)
  <2>1. \A f \in DOMAIN fields : Carries(DeclaredDomain(schema, f), fields[f])
    BY <1>7, <1>8, <1>9, <1>10, <1>11, <1>14 DEF Disjoint, DeclaredDomain
  <2>2. \A i \in DOMAIN schema.combinations : ~Broken(schema.combinations[i], DOMAIN fields)
    BY <1>4, <1>6, CombinationsExact DEF joint
  <2>3. QED
    BY <1>4, <1>7, <1>10, <1>12, <2>1, <2>2 DEF Conforms, DeclaredFields
<1>15. QED
  BY <1>4, <1>6, <1>12, <1>13, <1>14 DEF schema

-----------------------------------------------------------------------------

\* What both theorems rest on: each registry keeps a declaration under its own name, and
\* what is in flight is a signal of a known shape, whoever made it.
WireInv == /\ client \in Registries
           /\ server \in Registries
           /\ \A message \in wire : /\ message.signal.archetype \in Archetypes
                                    /\ FieldMap(message.signal.fields)

LEMMA RegistryKept ==
    ASSUME NEW registry \in Registries, NEW schema \in Schemas
    PROVE  WithArchetype(registry, schema) \in Registries
BY SchemasAssumption DEF WithArchetype, Registries

LEMMA WireStep ==
    ASSUME WireInv, [Next]_vars
    PROVE  WireInv'
<1>1. ASSUME NEW schema \in Schemas, RegisterClient(schema) PROVE WireInv'
  BY <1>1, RegistryKept DEF RegisterClient, WireInv
<1>2. ASSUME NEW schema \in Schemas, RegisterServer(schema) PROVE WireInv'
  BY <1>2, RegistryKept DEF RegisterServer, WireInv
<1>3. ASSUME NEW observation \in Observations, Observe(observation) PROVE WireInv'
  <2>1. CASE Transform(client, observation).outcome = "ok"
    <3>1. wire' = {[signal |-> Transform(client, observation).signal,
                    made   |-> client[observation.archetype]]}
      BY <1>3, <2>1 DEF Observe
    <3>2. LET signal == Transform(client, observation).signal
          IN  signal.archetype \in Archetypes /\ FieldMap(signal.fields)
      BY <2>1, TransformConforms DEF WireInv
    <3>3. QED
      BY <1>3, <3>1, <3>2 DEF Observe, WireInv
  <2>2. CASE Transform(client, observation).outcome # "ok"
    BY <1>3, <2>2 DEF Observe, WireInv
  <2>3. QED
    BY <2>1, <2>2
<1>4. ASSUME NEW payload \in Payloads, SendUntransformed(payload) PROVE WireInv'
  BY <1>4, InputsAssumption DEF SendUntransformed, WireInv
<1>5. ASSUME NEW message \in wire, Receive(message) PROVE WireInv'
  BY <1>5 DEF Receive, WireInv
<1>6. ASSUME NEW message \in wire, Drop(message) PROVE WireInv'
  BY <1>6 DEF Drop, WireInv
<1>7. CASE UNCHANGED vars
  BY <1>7 DEF WireInv, vars
<1>8. QED
  BY <1>1, <1>2, <1>3, <1>4, <1>5, <1>6, <1>7 DEF Next

LEMMA WireInit == Init => WireInv
BY DEF Init, EmptyRegistry, WireInv, Registries

\* The validator admits exactly what conforms to the server's declaration of the archetype
\* and version, whatever was declared and whoever sent it (validate.rs `validate`).
THEOREM Exact == Spec => []VerdictExact
<1>1. Init => VerdictExact
  BY DEF Init, VerdictExact
<1>2. ASSUME WireInv, VerdictExact, [Next]_vars PROVE VerdictExact'
  <2>1. ASSUME NEW schema \in Schemas, RegisterClient(schema) \/ RegisterServer(schema)
        PROVE  VerdictExact'
    BY <2>1 DEF RegisterClient, RegisterServer, VerdictExact
  <2>2. ASSUME NEW observation \in Observations, Observe(observation) PROVE VerdictExact'
    BY <2>2 DEF Observe, VerdictExact
  <2>3. ASSUME NEW payload \in Payloads, SendUntransformed(payload) PROVE VerdictExact'
    BY <2>3 DEF SendUntransformed, VerdictExact
  <2>4. ASSUME NEW message \in wire, Receive(message) PROVE VerdictExact'
    <3>1. Validate(server, message.signal).outcome = "ok"
            <=> Conforms(server[message.signal.archetype], message.signal)
      BY <1>2, ValidateExact DEF WireInv
    <3>2. /\ returned' = [by     |-> "server", on |-> message.signal,
                          result |-> Validate(server, message.signal)]
          /\ server' = server
      BY <2>4 DEF Receive
    <3>3. QED
      BY <3>1, <3>2 DEF VerdictExact
  <2>5. ASSUME NEW message \in wire, Drop(message) PROVE VerdictExact'
    BY <2>5 DEF Drop, VerdictExact
  <2>6. CASE UNCHANGED vars
    BY <1>2, <2>6 DEF VerdictExact, vars
  <2>7. QED
    BY <1>2, <2>1, <2>2, <2>3, <2>4, <2>5, <2>6 DEF Next
<1>3. QED
  BY <1>1, <1>2, WireInit, WireStep, PTL DEF Spec

\* The corpus grows by one conforming signal at a time, as it was sent, and nothing leaves it.
THEOREM Admissions == Spec => AdmitsAsSent
<1>1. ASSUME WireInv, [Next]_vars, corpus' # corpus
      PROVE  \E message \in wire :
                /\ corpus' = corpus \cup {message.signal}
                /\ Conforms(server[message.signal.archetype], message.signal)
  <2>1. PICK message \in wire : Receive(message)
    BY <1>1 DEF Next, RegisterClient, RegisterServer, Observe, SendUntransformed, Drop, vars
  <2>2. Validate(server, message.signal).outcome = "ok"
    BY <1>1, <2>1 DEF Receive
  <2>3. Conforms(server[message.signal.archetype], message.signal)
    BY <1>1, <2>2, ValidateExact DEF WireInv
  <2>4. corpus' = corpus \cup {message.signal}
    BY <2>1, <2>2 DEF Receive
  <2>5. QED
    BY <2>3, <2>4
<1>2. ASSUME WireInv, [Next]_vars
      PROVE  [corpus' # corpus =>
                \E message \in wire :
                    /\ corpus' = corpus \cup {message.signal}
                    /\ Conforms(server[message.signal.archetype], message.signal)]_vars
  BY <1>1, <1>2
<1>3. QED
  BY <1>2, WireInit, WireStep, PTL DEF Spec, AdmitsAsSent

\* A signal the transform made conforms to the declaration it was made under, for every
\* declaration that names no field twice: `generalize` lands where `check` looks, bounds off
\* the step and bounds the wrong way round included (transform.rs, domain.rs).
THEOREM Outputs == Spec => []OutputConforms
<1>1. Init => OutputConforms
  BY DEF Init, OutputConforms
<1>2. ASSUME WireInv, OutputConforms, [Next]_vars PROVE OutputConforms'
  <2>1. ASSUME NEW schema \in Schemas, RegisterClient(schema) \/ RegisterServer(schema)
        PROVE  OutputConforms'
    BY <1>2, <2>1 DEF RegisterClient, RegisterServer, OutputConforms
  <2>2. ASSUME NEW observation \in Observations, Observe(observation) PROVE OutputConforms'
    <3>1. CASE Transform(client, observation).outcome = "ok"
      <4>1. Disjoint(client[observation.archetype]) =>
              Conforms(client[observation.archetype], Transform(client, observation).signal)
        BY <1>2, <3>1, TransformConforms DEF WireInv
      <4>2. wire' = {[signal |-> Transform(client, observation).signal,
                      made   |-> client[observation.archetype]]}
        BY <2>2, <3>1 DEF Observe
      <4>3. QED
        BY <4>1, <4>2 DEF OutputConforms
    <3>2. CASE Transform(client, observation).outcome # "ok"
      BY <1>2, <2>2, <3>2 DEF Observe, OutputConforms
    <3>3. QED
      BY <3>1, <3>2
  <2>3. ASSUME NEW payload \in Payloads, SendUntransformed(payload) PROVE OutputConforms'
    BY <2>3 DEF SendUntransformed, OutputConforms
  <2>4. ASSUME NEW message \in wire, Receive(message) \/ Drop(message) PROVE OutputConforms'
    BY <1>2, <2>4 DEF Receive, Drop, OutputConforms
  <2>5. CASE UNCHANGED vars
    BY <1>2, <2>5 DEF OutputConforms, vars
  <2>6. QED
    BY <1>2, <2>1, <2>2, <2>3, <2>4, <2>5 DEF Next
<1>3. QED
  BY <1>1, <1>2, WireInit, WireStep, PTL DEF Spec

\* What `check` answers when it does not accept.
LEMMA Violations ==
    \A domain, value :
        Check(domain, value) \in {"ok", "value_out_of_domain", "excess_precision",
                                  "non_canonical_encoding", "excess_cardinality"}
<1>1. \A domain, value :
        CheckScalar(domain, value) \in {"ok", "value_out_of_domain", "excess_precision",
                                        "non_canonical_encoding"}
  BY DEF CheckScalar
<1>2. QED
  BY <1>1 DEF Check

\* Whatever the registry and the payload, a refusal names a field at fault by itself.
LEMMA ValidateBlames ==
    ASSUME NEW registry \in Registries, NEW signal, NEW schema, NEW result,
           signal.archetype \in Archetypes, FieldMap(signal.fields),
           schema = registry[signal.archetype],
           result = Validate(registry, signal),
           result.outcome = "refused"
    PROVE  Blames(schema, signal, result)
<1> DEFINE carried == DOMAIN signal.fields
           missing == DOMAIN schema.required \ carried
           fault   == [f \in carried |->
                          IF f \in DeclaredFields(schema)
                          THEN Check(DeclaredDomain(schema, f), signal.fields[f])
                          ELSE "unknown_field"]
           bad     == {f \in carried : fault[f] # "ok"}
           joint   == CheckCombinations(schema, carried)
<1>1. result =
        IF schema = None THEN Refused("unknown_archetype", None)
        ELSE IF schema.schema_version # signal.schema_version
             THEN Refused("schema_version_mismatch", None)
        ELSE IF missing # {} THEN Refused("missing_field", Least(missing))
        ELSE IF bad # {} THEN Refused(fault[Least(bad)], Least(bad))
        ELSE IF joint # Admitted THEN joint
        ELSE Admitted
  BY DEF Validate
<1>2. \A v, f : Refused(v, f).violation = v /\ Refused(v, f).field = f
  BY DEF Refused
<1>3. CASE schema = None \/ schema.schema_version # signal.schema_version
  <2>1. /\ result.field = None
        /\ result.violation \in {"unknown_archetype", "schema_version_mismatch"}
    <3> HIDE DEF missing, bad, joint, fault
    <3> QED
      BY <1>1, <1>2, <1>3
  <2> QED
    BY <1>3, <2>1 DEF Blames
<1>4. CASE schema # None /\ schema.schema_version = signal.schema_version
  <2>1. schema \in Schemas
    BY <1>4 DEF Registries
  <2>2. None \notin Nat /\ carried \subseteq Nat /\ DOMAIN schema.required \subseteq Nat
    BY <2>1, SchemasAssumption DEF FieldMap
  <2>3. CASE missing # {}
    <3>1. Least(missing) \in missing
      <4>1. missing \subseteq Nat
        BY <2>2
      <4> QED
        BY <2>3, <4>1, LeastIn
    <3>2. result.violation = "missing_field" /\ result.field = Least(missing)
      <4> HIDE DEF missing, bad, joint, fault
      <4> QED
        BY <1>1, <1>2, <1>4, <2>3
    <3>3. result.field # None
      BY <2>2, <3>1, <3>2
    <3> QED
      BY <3>1, <3>2, <3>3 DEF Blames
  <2>4. CASE missing = {} /\ bad # {}
    <3> DEFINE field == Least(bad)
    <3>1. field \in bad
      <4>1. bad \subseteq Nat
        BY <2>2
      <4> HIDE DEF bad
      <4> QED
        BY <2>4, <4>1, LeastIn
    <3>2. result.violation = fault[field] /\ result.field = field
      <4> HIDE DEF missing, bad, joint, fault
      <4> QED
        BY <1>1, <1>2, <1>4, <2>4
    <3> HIDE DEF field
    <3>3. field \in carried /\ fault[field] # "ok" /\ field # None
      BY <2>2, <3>1
    <3>4. CASE field \notin DeclaredFields(schema)
      <4>1. result.violation = "unknown_field"
        BY <3>2, <3>3, <3>4
      <4> QED
        BY <3>2, <3>3, <3>4, <4>1 DEF Blames
    <3>5. CASE field \in DeclaredFields(schema)
      <4>1. fault[field] = Check(DeclaredDomain(schema, field), signal.fields[field])
        BY <3>3, <3>5
      <4>2. FieldDomain(DeclaredDomain(schema, field)) /\ Shape(signal.fields[field])
        BY <2>1, <3>3, <3>5, SchemasAssumption DEF DeclaredFields, DeclaredDomain, FieldMap
      <4>3. ~Carries(DeclaredDomain(schema, field), signal.fields[field])
        BY <3>3, <4>1, <4>2, CheckExact
      <4>4. result.violation \in {"value_out_of_domain", "excess_precision",
                                  "non_canonical_encoding", "excess_cardinality"}
        BY <3>2, <3>3, <4>1, Violations
      <4> QED
        BY <3>2, <3>3, <4>3, <4>4 DEF Blames
    <3> QED
      BY <3>4, <3>5
  <2>5. CASE missing = {} /\ bad = {} /\ joint # Admitted
    <3> DEFINE broken == {i \in DOMAIN schema.combinations :
                            Broken(schema.combinations[i], carried)}
               rule == schema.combinations[Least(broken)]
    <3>1. joint = Refused("invalid_field_combination", Blamed(rule)) /\ broken # {}
      BY <2>5 DEF CheckCombinations
    <3>2. Least(broken) \in broken
      <4>1. broken \subseteq Nat
        BY <2>1, SchemasAssumption
      <4> HIDE DEF broken
      <4> QED
        BY <3>1, <4>1, LeastIn
    <3>3. Blamed(rule) # None
      <4>1. FieldCombination(rule)
        BY <2>1, <3>2, SchemasAssumption
      <4> HIDE DEF rule
      <4> QED
        BY <2>2, <4>1 DEF FieldCombination, Blamed
    <3>4. result.violation = "invalid_field_combination" /\ result.field = Blamed(rule)
      <4>1. result = joint
        <5> HIDE DEF missing, bad, joint, fault
        <5> QED
          BY <1>1, <1>4, <2>5
      <4> HIDE DEF joint, rule
      <4> QED
        BY <1>2, <3>1, <4>1
    <3>5. ASSUME NEW f \in carried
          PROVE  Carries(DeclaredDomain(schema, f), signal.fields[f])
      <4>1. fault[f] = "ok"
        BY <2>5
      <4>2. f \in DeclaredFields(schema)
        BY <4>1
      <4>3. Check(DeclaredDomain(schema, f), signal.fields[f]) = "ok"
        BY <4>1, <4>2
      <4>4. FieldDomain(DeclaredDomain(schema, f)) /\ Shape(signal.fields[f])
        BY <2>1, <4>2, SchemasAssumption DEF DeclaredFields, DeclaredDomain, FieldMap
      <4> QED
        BY <4>3, <4>4, CheckExact
    <3> HIDE DEF rule
    <3>6. \E i \in DOMAIN schema.combinations :
            /\ Broken(schema.combinations[i], DOMAIN signal.fields)
            /\ Blamed(schema.combinations[i]) = result.field
      BY <3>2, <3>4 DEF rule
    <3> QED
      BY <3>3, <3>4, <3>5, <3>6 DEF Blames
  <2>6. CASE missing = {} /\ bad = {} /\ joint = Admitted
    <3>1. result = Admitted
      <4> HIDE DEF missing, bad, joint, fault
      <4> QED
        BY <1>1, <1>4, <2>6
    <3> QED
      BY <3>1 DEF Admitted
  <2> QED
    BY <2>3, <2>4, <2>5, <2>6
<1> QED
  BY <1>3, <1>4

\* A refusal blames a field that is at fault by itself, for every declaration and payload
\* (validate.rs `validate`).
THEOREM Blame == Spec => []BlameFits
<1>1. Init => BlameFits
  BY DEF Init, BlameFits
<1>2. ASSUME WireInv, BlameFits, [Next]_vars PROVE BlameFits'
  <2>1. ASSUME NEW schema \in Schemas, RegisterClient(schema) \/ RegisterServer(schema)
        PROVE  BlameFits'
    BY <2>1 DEF RegisterClient, RegisterServer, BlameFits
  <2>2. ASSUME NEW observation \in Observations, Observe(observation) PROVE BlameFits'
    BY <2>2 DEF Observe, BlameFits
  <2>3. ASSUME NEW payload \in Payloads, SendUntransformed(payload) PROVE BlameFits'
    BY <2>3 DEF SendUntransformed, BlameFits
  <2>4. ASSUME NEW message \in wire, Receive(message) PROVE BlameFits'
    <3>1. Validate(server, message.signal).outcome = "refused" =>
            Blames(server[message.signal.archetype], message.signal,
                   Validate(server, message.signal))
      BY <1>2, ValidateBlames DEF WireInv
    <3>2. /\ returned' = [by     |-> "server", on |-> message.signal,
                          result |-> Validate(server, message.signal)]
          /\ server' = server
      BY <2>4 DEF Receive
    <3>3. /\ returned'.on = message.signal
          /\ returned'.result = Validate(server, message.signal)
      BY <3>2
    <3>4. returned'.result.outcome = "refused" =>
            Blames(server'[returned'.on.archetype], returned'.on, returned'.result)
      BY <3>1, <3>2, <3>3
    <3> QED
      BY <3>4 DEF BlameFits
  <2>5. ASSUME NEW message \in wire, Drop(message) PROVE BlameFits'
    BY <2>5 DEF Drop, BlameFits
  <2>6. CASE UNCHANGED vars
    BY <1>2, <2>6 DEF BlameFits, vars
  <2> QED
    BY <1>2, <2>1, <2>2, <2>3, <2>4, <2>5, <2>6 DEF Next
<1> QED
  BY <1>1, <1>2, WireInit, WireStep, PTL DEF Spec

\* One signal is in flight at a time, a made one under a declaration that was registered.
OneInFlight ==
    /\ \A m, n \in wire : m = n
    /\ \A message \in wire : message.made \in Schemas \cup {None}

LEMMA StepOneInFlight ==
    ASSUME WireInv, OneInFlight, [Next]_vars
    PROVE  OneInFlight'
<1>1. ASSUME NEW observation \in Observations, Observe(observation) PROVE OneInFlight'
  <2>1. client[observation.archetype] \in Schemas \cup {None}
    BY InputsAssumption DEF WireInv, Registries
  <2>2. wire' = wire \/ wire' = {[signal |-> Transform(client, observation).signal,
                                 made   |-> client[observation.archetype]]}
    BY <1>1 DEF Observe
  <2> QED
    BY <2>1, <2>2 DEF OneInFlight
<1>2. ASSUME NEW payload \in Payloads, SendUntransformed(payload) PROVE OneInFlight'
  BY <1>2 DEF SendUntransformed, OneInFlight
<1>3. CASE wire' \subseteq wire
  BY <1>3 DEF OneInFlight
<1> QED
  BY <1>1, <1>2, <1>3 DEF Next, RegisterClient, RegisterServer, Receive, Drop, vars

\* What the transform made is admitted where the declaration it was made under still
\* stands, and refused by version where another one does (validate.rs, transform.rs).
THEOREM Honest == Spec => HonestOutcome
<1>1. Init => OneInFlight
  BY DEF Init, OneInFlight
<1> DEFINE Fair(message) ==
      (/\ message.made # None
       /\ Disjoint(message.made)
       /\ returned' # None
       /\ returned'.by = "server") =>
          LET declared == server[message.signal.archetype]
          IN  /\ declared = message.made => returned'.result = Admitted
              /\ (declared # None /\ declared.schema_version # message.made.schema_version)
                    => returned'.result = Refused("schema_version_mismatch", None)
<1>2. ASSUME WireInv, OneInFlight, OutputConforms, Next, NEW message \in wire
      PROVE  Fair(message)
  <2>1. SUFFICES ASSUME message.made # None, Disjoint(message.made),
                        returned' # None, returned'.by = "server"
                 PROVE  Fair(message)
    OBVIOUS
  <2>2. Receive(message)
    <3>1. \E m \in wire : Receive(m)
      BY <1>2, <2>1 DEF Next, RegisterClient, RegisterServer, Observe, SendUntransformed, Drop
    <3> QED
      BY <1>2, <3>1 DEF OneInFlight
  <2>3. returned'.result = Validate(server, message.signal)
    BY <2>2 DEF Receive
  <2>4. Conforms(message.made, message.signal)
    BY <1>2, <2>1 DEF OutputConforms
  <2> DEFINE declared == server[message.signal.archetype]
  <2>5. ASSUME declared = message.made PROVE returned'.result = Admitted
    <3>1. Validate(server, message.signal).outcome = "ok"
      BY <1>2, <2>4, <2>5, ValidateExact DEF WireInv
    <3>2. \A v, f : Refused(v, f).outcome # "ok"
      BY DEF Refused
    <3>3. Validate(server, message.signal).outcome = "ok" =>
            Validate(server, message.signal) = Admitted
      BY <3>2 DEF Validate, CheckCombinations
    <3> QED
      BY <2>3, <3>1, <3>3
  <2>6. ASSUME declared # None, declared.schema_version # message.made.schema_version
        PROVE  returned'.result = Refused("schema_version_mismatch", None)
    BY <2>3, <2>4, <2>6 DEF Conforms, Validate
  <2> QED
    BY <2>5, <2>6
<1>3. ASSUME WireInv, OneInFlight, OutputConforms, [Next]_vars
      PROVE  [\A message \in wire : Fair(message)]_vars
  BY <1>2, <1>3
<1> QED
  BY <1>1, <1>3, WireInit, WireStep, StepOneInFlight, Outputs, PTL DEF Spec, HonestOutcome

\* Registries, flight and corpus keep their types, and every call returns one of its
\* outcomes (schema.rs, transform.rs, validate.rs).
THEOREM TypeCorrect == Spec => []TypeOK
<1> DEFINE CorpusBound == IsFiniteSet(corpus) /\ Cardinality(corpus) <= MaxCorpus
           Returned == returned # None =>
                         /\ returned.by \in {"client", "server"}
                         /\ returned.result.outcome \in {"ok", "refused", "panicked"}
           Inv == OneInFlight /\ CorpusBound /\ Returned
<1>1. Init => Inv
  BY CorpusAssumption, FS_EmptySet DEF Init, OneInFlight
<1>2. ASSUME WireInv, Inv, [Next]_vars PROVE Inv'
  <2>1. OneInFlight'
    BY <1>2, StepOneInFlight
  <2>2. CorpusBound'
    <3>1. CASE corpus' = corpus
      BY <1>2, <3>1
    <3>2. ASSUME NEW message \in wire, Cardinality(corpus) < MaxCorpus,
                 corpus' = corpus \cup {message.signal}
          PROVE  CorpusBound'
      <4>1. /\ IsFiniteSet(corpus')
            /\ \/ Cardinality(corpus') = Cardinality(corpus)
               \/ Cardinality(corpus') = Cardinality(corpus) + 1
        BY <1>2, <3>2, FS_AddElement
      <4>2. Cardinality(corpus) \in Nat
        BY <1>2, FS_CardinalityType
      <4> QED
        BY <3>2, <4>1, <4>2, CorpusAssumption
    <3> QED
      BY <1>2, <3>1, <3>2
         DEF Next, RegisterClient, RegisterServer, Observe, SendUntransformed, Receive, Drop,
         vars
  <2>3. Returned'
    <3>1. \A registry, observation :
            Transform(registry, observation).outcome \in {"ok", "refused", "panicked"}
      BY DEF Transform, Refused, Stopped, Panicked, CheckCombinations, Admitted, Made
    <3>2. \A registry, signal :
            Validate(registry, signal).outcome \in {"ok", "refused", "panicked"}
      BY DEF Validate, Refused, CheckCombinations, Admitted
    <3> QED
      BY <1>2, <3>1, <3>2
         DEF Next, RegisterClient, RegisterServer, Observe, SendUntransformed, Receive, Drop,
         vars
  <2> QED
    BY <2>1, <2>2, <2>3
<1>3. WireInv /\ Inv => TypeOK
  <2>1. ASSUME OneInFlight PROVE Cardinality(wire) <= 1
    <3>1. CASE wire = {}
      BY <3>1, FS_EmptySet
    <3>2. CASE wire # {}
      <4>1. PICK m \in wire : wire = {m}
        BY <2>1, <3>2 DEF OneInFlight
      <4>2. Cardinality({m}) = 1
        BY FS_Singleton
      <4> QED
        BY <4>1, <4>2
    <3> QED
      BY <3>1, <3>2
  <2> QED
    BY <2>1 DEF WireInv, TypeOK, OneInFlight
<1> QED
  BY <1>1, <1>2, <1>3, WireInit, WireStep, PTL DEF Spec

-----------------------------------------------------------------------------

\* `generalize` hands a value its domain already carries back as it was.
LEMMA ScalarUnchanged ==
    ASSUME NEW domain, ScalarDomain(domain), NEW value, ScalarShape(value),
           CarriesScalar(domain, value)
    PROVE  GeneralizeScalar(domain, value) = value /\ IsValue(value)
<1>1. CASE domain.kind = "enumeration"
  BY <1>1 DEF CarriesScalar, GeneralizeScalar, IsValue
<1>2. CASE domain.kind = "quantized"
  <2>1. /\ domain.min \in Nat /\ domain.max \in Nat /\ domain.step \in Nat \ {0}
        /\ value.kind = "measure" /\ value.measure \in Nat
        /\ value = Measure(value.measure)
    BY <1>2 DEF ScalarDomain, CarriesScalar, ScalarShape, Measure
  <2>2. PICK k \in 0 .. domain.max : /\ value.measure = domain.min + k * domain.step
                                     /\ value.measure <= domain.max
    BY <1>2 DEF CarriesScalar
  <2>3. k * domain.step \in Nat
    BY <2>1, SMT
  <2> DEFINE above == value.measure - domain.min
  <2>4. above \in Nat /\ above <= domain.max /\ above = k * domain.step
    BY <2>1, <2>2, <2>3
  <2>5. above % domain.step = 0
    <3> HIDE DEF above
    <3> QED
      BY <2>1, <2>4, WholeSteps
  <2>6. domain.min <= value.measure /\ value.measure <= domain.max
    BY <2>1, <2>2, <2>3
  <2>7. Floor(domain, value.measure) = value.measure
    <3> DEFINE clamped == IF value.measure < domain.min THEN domain.min
                          ELSE Lesser(value.measure, domain.max)
    <3>1. clamped = value.measure
      BY <2>1, <2>6 DEF Lesser
    <3>2. Floor(domain, value.measure) = clamped - ((clamped - domain.min) % domain.step)
      BY DEF Floor
    <3> HIDE DEF clamped
    <3>3. (clamped - domain.min) % domain.step = 0
      BY <2>5, <3>1
    <3> QED
      BY <2>1, <3>1, <3>2, <3>3
  <2>8. ~(domain.min > domain.max)
    BY <2>1, <2>6
  <2> QED
    BY <1>2, <2>1, <2>7, <2>8 DEF GeneralizeScalar, IsValue
<1> QED
  BY <1>1, <1>2 DEF ScalarDomain

LEMMA Unchanged ==
    ASSUME NEW domain, FieldDomain(domain), NEW value, Shape(value), Carries(domain, value)
    PROVE  Generalize(domain, value) = value /\ IsValue(value)
<1>1. CASE domain.kind # "sequence"
  <2>1. /\ Generalize(domain, value) = GeneralizeScalar(domain, value)
        /\ ScalarDomain(domain) /\ ScalarShape(value) /\ CarriesScalar(domain, value)
    BY <1>1 DEF Generalize, FieldDomain, Shape, Carries
  <2> QED
    BY <2>1, ScalarUnchanged
<1>2. CASE domain.kind = "sequence"
  <2> DEFINE items == value.items
             kept  == SubSeq(items, 1, Lesser(Len(items), domain.max_len))
             made  == [i \in DOMAIN kept |-> GeneralizeScalar(domain.item, kept[i])]
             bad   == {i \in DOMAIN kept : ~IsValue(made[i])}
  <2>1. /\ value.kind = "sequence" /\ Len(items) <= domain.max_len
        /\ \A i \in DOMAIN items : CarriesScalar(domain.item, items[i])
    BY <1>2 DEF Carries
  <2>2. /\ items \in Seq({items[i] : i \in DOMAIN items})
        /\ \A i \in DOMAIN items : ScalarShape(items[i])
        /\ value = Sequence(items)
    BY <2>1 DEF Shape, Sequence
  <2>3. ScalarDomain(domain.item) /\ domain.max_len \in Nat
    BY <1>2 DEF FieldDomain, ScalarDomain
  <2>4. Generalize(domain, value) = IF bad = {} THEN Sequence(made) ELSE made[Least(bad)]
    BY <1>2, <2>1 DEF Generalize
  <2>5. Lesser(Len(items), domain.max_len) = Len(items)
    BY <2>1 DEF Lesser
  <2>6. kept = items
    <3> HIDE DEF items
    <3> QED
      BY <2>2, <2>5
  <2> HIDE DEF items, kept
  <2>7. \A i \in DOMAIN items : GeneralizeScalar(domain.item, items[i]) = items[i]
                               /\ IsValue(items[i])
    BY <2>1, <2>2, <2>3, ScalarUnchanged
  <2>8. made = items
    <3>1. items = [i \in DOMAIN items |-> items[i]]
      BY <2>2
    <3> QED
      BY <2>6, <2>7, <3>1
  <2>9. bad = {}
    BY <2>6, <2>7
  <2> HIDE DEF made, bad
  <2> QED
    BY <2>1, <2>2, <2>4, <2>8, <2>9 DEF IsValue
<1> QED
  BY <1>1, <1>2

\* An observation that conforms as it stands comes out of `transform` as it went in.
LEMMA TransformKeeps ==
    ASSUME NEW registry \in Registries, NEW observation \in Observations,
           NEW schema, schema = registry[observation.archetype],
           NEW asSent,
           asSent = [schema_version |-> schema.schema_version,
                     archetype      |-> observation.archetype,
                     fields         |-> observation.fields],
           Disjoint(schema), Conforms(schema, asSent)
    PROVE  Transform(registry, observation) = Made(asSent)
<1> DEFINE observed == observation.fields
           required == Required(schema, observed)
           optional == Optional(schema, observed)
           fields   == [f \in DOMAIN required \cup DOMAIN optional |->
                           IF f \in DOMAIN optional THEN optional[f] ELSE required[f]]
           joint    == CheckCombinations(schema, DOMAIN fields)
           made     == [schema_version |-> schema.schema_version,
                        archetype      |-> schema.archetype,
                        fields         |-> fields]
<1>1. Transform(registry, observation) =
        IF schema = None THEN Refused("unknown_archetype", None)
        ELSE IF Failed(required) # {} THEN Stopped(required)
        ELSE IF Failed(optional) # {} THEN Stopped(optional)
        ELSE IF joint # Admitted THEN joint
        ELSE Made(made)
  BY DEF Transform
<1>2. /\ schema # None
      /\ schema.archetype = observation.archetype
      /\ DOMAIN schema.required \subseteq DOMAIN observed
      /\ DOMAIN observed \subseteq DOMAIN schema.required \cup DOMAIN schema.optional
      /\ \A f \in DOMAIN observed : Carries(DeclaredDomain(schema, f), observed[f])
      /\ \A i \in DOMAIN schema.combinations :
            ~Broken(schema.combinations[i], DOMAIN observed)
  BY DEF Conforms, DeclaredFields
<1>3. observation.archetype \in Archetypes /\ FieldMap(observed)
  BY InputsAssumption
<1>4. /\ schema \in Schemas
      /\ \A f \in DOMAIN schema.required : FieldDomain(schema.required[f])
      /\ \A f \in DOMAIN schema.optional : FieldDomain(schema.optional[f])
      /\ DOMAIN schema.combinations \subseteq Nat
  BY <1>2, <1>3, SchemasAssumption DEF Registries
<1>5. /\ DOMAIN required = DOMAIN schema.required
      /\ DOMAIN optional = DOMAIN schema.optional \cap DOMAIN observed
  BY DEF Required, Optional
<1>6. ASSUME NEW f \in DOMAIN required
      PROVE  required[f] = observed[f] /\ IsValue(observed[f])
  <2>1. f \in DOMAIN observed /\ f \in DOMAIN schema.required
    BY <1>2, <1>5, <1>6
  <2>2. required[f] = Generalize(schema.required[f], observed[f])
    BY <2>1 DEF Required
  <2>3. /\ FieldDomain(schema.required[f]) /\ Shape(observed[f])
        /\ Carries(schema.required[f], observed[f])
    BY <1>2, <1>3, <1>4, <2>1 DEF FieldMap, DeclaredDomain
  <2> HIDE DEF required, observed
  <2> QED
    BY <2>2, <2>3, Unchanged
<1>7. ASSUME NEW f \in DOMAIN optional
      PROVE  optional[f] = observed[f] /\ IsValue(observed[f])
  <2>1. f \in DOMAIN observed /\ f \in DOMAIN schema.optional /\ f \notin DOMAIN schema.required
    BY <1>5, <1>7 DEF Disjoint
  <2>2. optional[f] = Generalize(schema.optional[f], observed[f])
    BY <2>1 DEF Optional
  <2>3. /\ FieldDomain(schema.optional[f]) /\ Shape(observed[f])
        /\ Carries(schema.optional[f], observed[f])
    BY <1>2, <1>3, <1>4, <2>1 DEF FieldMap, DeclaredDomain
  <2> HIDE DEF optional, observed
  <2> QED
    BY <2>2, <2>3, Unchanged
<1> HIDE DEF required, optional, observed
<1>8. Failed(required) = {} /\ Failed(optional) = {}
  BY <1>6, <1>7 DEF Failed
<1>9. fields = observed
  <2>1. DOMAIN required \cup DOMAIN optional = DOMAIN observed
    BY <1>2, <1>5
  <2>2. fields = [f \in DOMAIN observed |-> observed[f]]
    BY <1>6, <1>7, <2>1
  <2>3. observed = [f \in DOMAIN observed |-> observed[f]]
    BY <1>3 DEF FieldMap
  <2> QED
    BY <2>2, <2>3
<1>10. joint = Admitted
  <2> HIDE DEF fields
  <2> QED
    BY <1>2, <1>4, <1>9, CombinationsExact
<1>11. made = asSent
  BY <1>2, <1>9 DEF observed
<1> HIDE DEF joint, made, fields
<1> QED
  BY <1>1, <1>2, <1>8, <1>10, <1>11

\* `transform` leaves alone exactly the observations that conform already, for every
\* declaration that names no field twice (transform.rs `transform`, domain.rs `generalize`).
THEOREM Fixed == Spec => []FixedPoints
<1>1. Init => FixedPoints
  BY DEF Init, FixedPoints
<1>2. ASSUME WireInv, FixedPoints, [Next]_vars PROVE FixedPoints'
  <2>1. ASSUME NEW observation \in Observations, Observe(observation) PROVE FixedPoints'
    <3> DEFINE schema == client[observation.archetype]
               asSent == [schema_version |-> schema.schema_version,
                          archetype      |-> observation.archetype,
                          fields         |-> observation.fields]
    <3>1. ASSUME Disjoint(schema), Conforms(schema, asSent)
          PROVE  Transform(client, observation) = Made(asSent)
      <4> HIDE DEF schema
      <4> QED
        BY <1>2, <3>1, TransformKeeps DEF WireInv, schema
    <3>2. ASSUME Disjoint(schema), Transform(client, observation) = Made(asSent)
          PROVE  Conforms(schema, asSent)
      <4>1. Made(asSent).outcome = "ok" /\ Made(asSent).signal = asSent
        BY DEF Made
      <4> HIDE DEF asSent
      <4> QED
        BY <1>2, <3>2, <4>1, TransformConforms DEF WireInv
    <3>3. /\ returned' = [by     |-> "client", on |-> observation,
                          result |-> Transform(client, observation)]
          /\ client' = client
      BY <2>1 DEF Observe
    <3>4. /\ returned'.on = observation
          /\ returned'.result = Transform(client, observation)
      BY <3>3
    <3>5. client'[returned'.on.archetype] = schema
      BY <3>3, <3>4
    <3>6. [schema_version |-> client'[returned'.on.archetype].schema_version,
           archetype      |-> returned'.on.archetype,
           fields         |-> returned'.on.fields] = asSent
      BY <3>4, <3>5
    <3> HIDE DEF schema, asSent
    <3> QED
      BY <3>1, <3>2, <3>4, <3>5, <3>6 DEF FixedPoints
  <2>2. CASE \E schema \in Schemas : RegisterClient(schema) \/ RegisterServer(schema)
    BY <2>2 DEF RegisterClient, RegisterServer, FixedPoints
  <2>3. CASE \E payload \in Payloads : SendUntransformed(payload)
    BY <2>3 DEF SendUntransformed, FixedPoints
  <2>4. CASE \E message \in wire : Receive(message) \/ Drop(message)
    BY <2>4 DEF Receive, Drop, FixedPoints
  <2>5. CASE UNCHANGED vars
    BY <1>2, <2>5 DEF FixedPoints, vars
  <2> QED
    BY <1>2, <2>1, <2>2, <2>3, <2>4, <2>5 DEF Next
<1> QED
  BY <1>1, <1>2, WireInit, WireStep, PTL DEF Spec

=============================================================================
