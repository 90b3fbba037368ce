-------------------------- MODULE MCSignalBoundary --------------------------
(* The signal boundary on one declared archetype with four fields, as the    *)
(* crate's own tests declare it: 1 movement_mode, 2 dwell_seconds,           *)
(* 3 cell_sequence, 4 place_category.                                        *)
EXTENDS SignalBoundary

modes == Enumeration({"walk", "transit"})
cells == SequenceOf(Quantized(1, 2, 1), 2)

Exclusive(l, r) == [kind |-> "mutually_exclusive", left |-> l, right |-> r]
Needs(p, r) == [kind |-> "required_with", present |-> p, requires |-> r]

Schema(version, dwell, optional, combinations) ==
    [archetype |-> "cell_transit", schema_version |-> version,
     required |-> [f \in {1, 2} |-> IF f = 1 THEN modes ELSE dwell],
     optional |-> optional, combinations |-> combinations]

NoOptional == [f \in {} |-> modes]
Cells == [f \in {3, 4} |-> IF f = 3 THEN cells ELSE Enumeration({"retail"})]

\* A declaration; its coarser next version, which turns a joint rule round; the same version
\* declared anew; one whose bounds are the wrong way round; one that declares a field twice.
TheSchemas ==
    {Schema(1, Quantized(1, 6, 2), Cells, <<Needs(4, 1), Exclusive(3, 4)>>),
     Schema(2, Quantized(1, 6, 4), Cells, <<Needs(3, 4)>>),
     Schema(1, Quantized(0, 9, 3), NoOptional, << >>),
     Schema(1, Quantized(6, 1, 2), NoOptional, << >>),
     Schema(2, Quantized(1, 6, 2), [f \in {2} |-> Quantized(0, 8, 4)], << >>)}

SomeFields(mode, dwell, sequence, category) ==
    LET all == <<mode, dwell, sequence, category>>
    IN  [f \in {g \in 1 .. 4 : all[g] # << >>} |-> all[f][1]]

Absent == << >>
Modes == {Absent, <<Token("walk")>>, <<Token("van")>>}
Dwells == {Absent, <<Token("walk")>>, <<Measure(0)>>, <<Measure(4)>>,
           <<Measure(5)>>, <<Measure(9)>>}
Categories == {Absent, <<Token("retail")>>}

\* What is observed runs over the bounds; what is sent untransformed is off step or over long.
ObservedFields ==
    {SomeFields(mode, dwell, sequence, category) :
        mode \in Modes, dwell \in Dwells, category \in Categories,
        sequence \in {Absent, <<Sequence(<<Measure(2)>>)>>,
                      <<Sequence(<<Measure(1), Measure(3), Token("walk")>>)>>}}

SentFields ==
    {SomeFields(mode, dwell, sequence, category) :
        mode \in Modes, category \in Categories,
        dwell \in {Absent, <<Measure(3)>>, <<Measure(4)>>},
        sequence \in {Absent, <<Sequence(<<Measure(2), Measure(1)>>)>>,
                      <<Sequence(<<Measure(2), Measure(3)>>)>>,
                      <<Sequence(<<Measure(1), Measure(1), Measure(1)>>)>>}}

TheArchetypes == {"cell_transit", "unlisted"}

TheObservations ==
    {[archetype |-> "cell_transit", fields |-> m] : m \in ObservedFields}
        \cup {[archetype |-> "unlisted", fields |-> NoOptional]}

ThePayloads ==
    {[archetype |-> "cell_transit", schema_version |-> 1, fields |-> m] : m \in SentFields}
        \cup {[archetype |-> a, schema_version |-> 2,
                fields |-> SomeFields(<<Token("walk")>>, <<Measure(5)>>, Absent, Absent)] :
                a \in TheArchetypes}
=============================================================================
