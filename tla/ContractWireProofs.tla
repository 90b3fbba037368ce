-------------------------- MODULE ContractWireProofs --------------------------
(***************************************************************************)
(* Proofs about ContractWire: for every set of builds and vocabularies     *)
(* that grow as the compatibility rule assumes, and any foreign documents, *)
(* claims that were accepted are kept, rows stay readable, and no decoder  *)
(* invents anything.                                                       *)
(*                                                                         *)
(* The properties are not inductive by themselves: that a document decodes *)
(* needs its words to be ones its writer's build knew (Genuine, Legible),  *)
(* and that a claim still holds needs the build that accepted it           *)
(* (ClaimsHold).                                                           *)
(***************************************************************************)
EXTENDS ContractWire, TLAPS

\* Failures as a decoder or a constructor leaves them.
Failures == [code : STRING, operation : Operations \union {None},
             details : Details \union {None}]

\* Every word of the failure is one the version knows, and no member is null.
Legible(version, failure) ==
  /\ failure \in Failures
  /\ <<"code", failure.code>> \in Vocabulary[version]
  /\ failure.details # None =>
       \A pair \in failure.details.members : pair[2] # Null /\ KnownDetail(version, pair)

Genuine(version, reading) ==
  \/ reading.kind = "ok" /\ reading.turn \in Turns /\ reading = AsOk(reading.turn)
  \/ /\ reading.kind = "error"
     /\ Legible(version, reading.failure)
     /\ reading = AsError(reading.failure)

ClaimsHold ==
  \A process \in Processes :
    accepted[process] # None => AcceptsProvider(accepted[process], build[process])
SentGenuine == \A m \in wire : m.sent # None => Genuine(m.by, m.sent)
RowsLegible == \A row \in table : Legible(row.version, row.error)

WireInv == TypeOK /\ ClaimsHold /\ SentGenuine /\ RowsLegible

-----------------------------------------------------------------------------
(* Versions and vocabularies.                                              *)

\* Whatever build a claim accepts knows every word of the build that made it.
LEMMA Grows ==
  ASSUME NEW a \in Builds, NEW b \in Builds, AcceptsProvider(a, b)
  PROVE  Vocabulary[a] \subseteq Vocabulary[b]
BY BuildsAssumption, VocabularyAssumption DEF AcceptsProvider

LEMMA LegibleGrows ==
  ASSUME NEW a \in Builds, NEW b \in Builds, NEW failure,
         Vocabulary[a] \subseteq Vocabulary[b], Legible(a, failure)
  PROVE  Legible(b, failure)
BY DEF Legible, KnownDetail

-----------------------------------------------------------------------------
(* The decoders.                                                           *)

\* A failure without null members is read as it is or not at all.
LEMMA ReadsWhole ==
  ASSUME NEW version \in Builds, NEW failure \in Failures,
         failure.details # None => \A pair \in failure.details.members : pair[2] # Null
  PROVE  /\ KernelReadsError(version, Encode(failure)) \in {Refused, AsError(failure)}
         /\ HostReadsError(version, Encode(failure)) \in {Refused, AsError(failure)}
<1> DEFINE object == Encode(failure)
<1>1. /\ object.code = failure.code
      /\ object.operation = failure.operation
      /\ object.details = failure.details
  BY DEF Encode
<1>2. failure.operation # Null /\ failure.details # Null
  BY SentinelAssumption DEF Failures, Sentinels
<1>3. failure = [code |-> failure.code, operation |-> failure.operation,
                 details |-> failure.details]
  BY DEF Failures
<1>4. failure.details # None =>
        failure.details = [members |-> {pair \in failure.details.members : pair[2] # Null}]
  <2>1. SUFFICES ASSUME failure.details # None
                 PROVE  failure.details =
                          [members |-> {pair \in failure.details.members : pair[2] # Null}]
    OBVIOUS
  <2>2. failure.details \in Details
    BY <2>1 DEF Failures
  <2>3. failure.details.members = {pair \in failure.details.members : pair[2] # Null}
    BY <2>1
  <2> QED BY <2>2, <2>3 DEF Details
<1>5. KernelReadsError(version, object) \in {Refused, AsError(failure)}
  BY <1>1, <1>2, <1>3, <1>4, Zenon DEF KernelReadsError
<1>6. HostReadsError(version, object) \in {Refused, AsError(failure)}
  BY <1>1, <1>3 DEF HostReadsError
<1> QED BY <1>5, <1>6

\* A legible failure is read, by both decoders.
LEMMA ReadsLegible ==
  ASSUME NEW version \in Builds, NEW failure, Legible(version, failure)
  PROVE  /\ KernelReadsError(version, Encode(failure)) = AsError(failure)
         /\ HostReadsError(version, Encode(failure)) = AsError(failure)
<1>1. failure \in Failures
  BY DEF Legible
<1>2. /\ failure.operation \notin {Null, Mangled}
      /\ failure.details \notin {Null, Mangled}
  BY <1>1, SentinelAssumption DEF Failures, Sentinels
<1>3. failure.details # None => \A pair \in failure.details.members : pair[2] # Null
  BY DEF Legible
<1>4. KernelReadsError(version, Encode(failure)) # Refused
  BY <1>2 DEF KernelReadsError, Refused, AsError, Encode, Legible
<1>5. HostReadsError(version, Encode(failure)) # Refused
  BY <1>2 DEF HostReadsError, Refused, AsError, Encode, Legible
<1> QED BY <1>1, <1>3, <1>4, <1>5, ReadsWhole

LEMMA ErrorStricter ==
  ASSUME NEW version \in Builds, NEW object \in ErrorObjects
  PROVE  HostReadsError(version, object) \in {Refused, KernelReadsError(version, object)}
<1>1. SUFFICES ASSUME HostReadsError(version, object) # Refused
               PROVE  HostReadsError(version, object) = KernelReadsError(version, object)
  OBVIOUS
<1>2. /\ <<"code", object.code>> \in Vocabulary[version]
      /\ ~object.extra
      /\ object.operation \notin {Null, Mangled}
      /\ object.details \notin {Null, Mangled}
      /\ object.details # None =>
           \A pair \in object.details.members : pair[2] # Null /\ KnownDetail(version, pair)
  BY <1>1, Zenon DEF HostReadsError
<1>3. object.details # None =>
        object.details = [members |-> {pair \in object.details.members : pair[2] # Null}]
  <2>1. SUFFICES ASSUME object.details # None
                 PROVE  object.details =
                          [members |-> {pair \in object.details.members : pair[2] # Null}]
    OBVIOUS
  <2>2. object.details \in Details
    BY <1>2, <2>1 DEF ErrorObjects, Sentinels
  <2>3. object.details.members = {pair \in object.details.members : pair[2] # Null}
    BY <1>2, <2>1
  <2> QED BY <2>2, <2>3 DEF Details
<1>4. HostReadsError(version, object) =
        AsError([code |-> object.code, operation |-> object.operation,
                 details |-> object.details])
  BY <1>2, Zenon DEF HostReadsError
<1>5. KernelReadsError(version, object) =
        AsError([code |-> object.code, operation |-> object.operation,
                 details |-> IF object.details \in {None, Null} THEN None
                   ELSE [members |-> {pair \in object.details.members : pair[2] # Null}]])
  <2>1. object.details \notin {None, Null} =>
          \A pair \in object.details.members :
            \/ pair[1] \in DetailMembers /\ pair[2] = Null
            \/ KnownDetail(version, pair)
    BY <1>2
  <2> QED BY <1>2, <2>1, Zenon DEF KernelReadsError
<1> QED BY <1>2, <1>3, <1>4, <1>5

\* What the host accepts is what the kernel reads of the document as parsed; of the document
\* itself the kernel reads the same, or it refuses its text.
LEMMA HostStricter ==
  ASSUME NEW version \in Builds, NEW document \in Documents
  PROVE  LET host == HostReads(version, document)
             kernel == KernelReads(version, document)
         IN  /\ host \in {Refused, KernelReads(version, AsParsed(document))}
             /\ host # Refused => kernel \in {Refused, host}
             /\ host # Refused /\ kernel # host =>
                  document.repeated # {} \/ ~KernelParses(document.text)
<1>1. None \in Sentinels
  BY DEF Sentinels
<1>2. /\ AsParsed(document).ok = document.ok
      /\ AsParsed(document).error = document.error
      /\ AsParsed(document).repeated = {} /\ KernelParses(AsParsed(document).text)
  BY DEF AsParsed, Documents, KernelParses
<1>3. CASE document.error = None /\ document.ok \notin Sentinels
  <2>1. KernelReads(version, AsParsed(document)) = AsOk(document.ok)
    BY <1>2, <1>3 DEF KernelReads
  <2>2. HostReads(version, document) \in {Refused, AsOk(document.ok)}
    BY <1>1, <1>3 DEF HostReads
  <2>3. KernelReads(version, document) =
          IF "ok" \notin document.repeated /\ KernelParses(document.text) THEN AsOk(document.ok) ELSE Refused
    BY <1>1, <1>3 DEF KernelReads
  <2> QED BY <2>1, <2>2, <2>3
<1>4. CASE document.ok = None /\ document.error \notin Sentinels
  <2>1. document.error \in ErrorObjects
    BY <1>4 DEF Documents
  <2>2. KernelReads(version, AsParsed(document)) = KernelReadsError(version, document.error)
    BY <1>1, <1>2, <1>4 DEF KernelReads
  <2>3. HostReads(version, document) \in {Refused, HostReadsError(version, document.error)}
    BY <1>1, <1>4 DEF HostReads
  <2>4. KernelReads(version, document) =
          IF "error" \notin document.repeated /\ KernelParses(document.text)
            THEN KernelReadsError(version, document.error) ELSE Refused
    BY <1>1, <1>4 DEF KernelReads
  <2>5. HostReadsError(version, document.error)
          \in {Refused, KernelReadsError(version, document.error)}
    BY <2>1, ErrorStricter
  <2> QED BY <2>2, <2>3, <2>4, <2>5
<1>5. CASE /\ ~(document.error = None /\ document.ok \notin Sentinels)
           /\ ~(document.ok = None /\ document.error \notin Sentinels)
  BY <1>5 DEF HostReads
<1> QED BY <1>3, <1>4, <1>5

LEMMA AsParsedDocument ==
  ASSUME NEW document \in Documents
  PROVE  /\ AsParsed(document) \in Documents
         /\ AsParsed(document).error = document.error
         /\ document.repeated = {} /\ document.text = "canonical" =>
              AsParsed(document) = document
BY LiteralsAssumption DEF AsParsed, Documents

\* Where a kernel's reading of a failure comes from.
LEMMA KernelReading ==
  ASSUME NEW version \in Builds, NEW document \in Documents,
         KernelReads(version, document).kind = "error"
  PROVE  /\ document.error \in ErrorObjects
         /\ KernelReads(version, document) = KernelReadsError(version, document.error)
<1>1. /\ document.error \notin Sentinels
      /\ KernelReads(version, document) = KernelReadsError(version, document.error)
  BY DEF KernelReads, AsOk, Refused
<1> QED BY <1>1 DEF Documents

\* What a decoded failure keeps of the object it was read from.
LEMMA ErrorKept ==
  ASSUME NEW version \in Builds, NEW object \in ErrorObjects,
         KernelReadsError(version, object).kind = "error"
  PROVE  LET failure == KernelReadsError(version, object).failure
         IN  /\ failure.code = object.code
             /\ DetailsOf(failure) =
                  IF object.details \in {None, Null} THEN {}
                  ELSE {pair \in object.details.members : pair[2] # Null}
             /\ Legible(version, failure)
<1> DEFINE kept == {pair \in object.details.members : pair[2] # Null}
           failure == [code |-> object.code,
                       operation |-> IF object.operation = Null THEN None
                                     ELSE object.operation,
                       details |-> IF object.details \in {None, Null} THEN None
                                   ELSE [members |-> kept]]
<1>1. /\ <<"code", object.code>> \in Vocabulary[version]
      /\ object.operation # Mangled
      /\ object.details # Mangled
      /\ object.details \notin {None, Null} =>
           \A pair \in object.details.members :
             \/ pair[1] \in DetailMembers /\ pair[2] = Null
             \/ KnownDetail(version, pair)
      /\ KernelReadsError(version, object) = AsError(failure)
  BY Zenon DEF KernelReadsError, Refused
<1>2. KernelReadsError(version, object).failure = failure
  BY <1>1 DEF AsError
<1>3. object.details \notin {None, Null} =>
        object.details \in Details /\ kept \in SUBSET Pairs /\ OneEach(kept)
  BY <1>1 DEF ErrorObjects, Sentinels, Details, OneEach
<1>4. object.details \notin {None, Null} => [members |-> kept] \in Details
  BY <1>3 DEF Details
<1>5. object.details \notin {None, Null} => [members |-> kept] # None
  BY <1>4, SentinelAssumption DEF Sentinels
<1>6. DetailsOf(failure) = IF object.details \in {None, Null} THEN {} ELSE kept
  BY <1>5 DEF DetailsOf
<1>7. failure \in Failures
  BY <1>1, <1>4 DEF Failures, ErrorObjects, Sentinels
<1>8. failure.details # None =>
        \A pair \in failure.details.members : pair[2] # Null /\ KnownDetail(version, pair)
  BY <1>1
<1>9. Legible(version, failure)
  BY <1>1, <1>7, <1>8 DEF Legible
<1> HIDE DEF failure
<1> QED BY <1>2, <1>6, <1>9, failure.code = object.code DEF failure

-----------------------------------------------------------------------------
(* The constructors.                                                       *)

LEMMA NewFailureLegible ==
  ASSUME NEW version \in Builds, NEW code \in STRING,
         NEW operation \in Operations \union {None}, NEW details \in SUBSET Pairs,
         <<"code", code>> \in Vocabulary[version], OneEach(details),
         \A pair \in details : pair[2] # Null /\ KnownDetail(version, pair)
  PROVE  Legible(version, NewFailure(code, operation, details))
<1>1. details # {} => [members |-> details] \in Details
  BY DEF Details
<1> QED BY <1>1 DEF NewFailure, Legible, Failures

LEMMA UnsupportedLegible ==
  ASSUME NEW version \in Builds, NEW operation \in Operations \union {None}, NEW claim
  PROVE  Legible(version, Unsupported(operation, claim))
<1> DEFINE details == {Given("supported_contract_version")} \union
             IF claim = Mangled THEN {} ELSE {Given("required_contract_version")}
<1>1. "given" \in STRING /\ "given" # Null /\ "given" # Mangled
  BY SentinelAssumption, LiteralsAssumption DEF Sentinels
<1>2. details \in SUBSET Pairs /\ OneEach(details)
  BY <1>1, LiteralsAssumption DEF Given, Pairs, DetailMembers, OneEach
<1>3. \A pair \in details : pair[2] # Null /\ KnownDetail(version, pair)
  BY <1>1 DEF Given, KnownDetail, DetailMembers, Enumerated
<1>4. <<"code", "unsupported_contract_version">> \in Vocabulary[version]
  BY VocabularyAssumption
<1> HIDE DEF details
<1>5. Unsupported(operation, claim) =
        NewFailure("unsupported_contract_version", operation, details)
  BY DEF Unsupported, details
<1>6. "unsupported_contract_version" \in STRING
  BY LiteralsAssumption DEF ErrorCodes
<1> QED BY <1>6, <1>2, <1>3, <1>4, <1>5, NewFailureLegible

\* What any constructor gives is a failure whose members the version can decode.
LEMMA ConstructedLegible ==
  ASSUME NEW version \in Builds, NEW failure \in Constructed(version)
  PROVE  Legible(version, failure)
<1> DEFINE Shapes == Undetailed \union VariantFailures(version) \union PortFailures(version)
                       \union SessionFailures \union SignalFailures(version)
<1>1. PICK shape \in Shapes, operation \in Operations \union {None} :
        failure = NewFailure(shape[1], operation, shape[2])
  BY DEF Constructed
<1>2. Words(failure) \subseteq Vocabulary[version]
  BY DEF Constructed
<1>3. "given" \in STRING /\ "given" # Null /\ "given" # Mangled
  BY SentinelAssumption, LiteralsAssumption DEF Sentinels
<1>4. \A word \in Vocabulary[version] :
        /\ word \in Pairs
        /\ word[2] # Null
        /\ word[1] \in Enumerated => KnownDetail(version, word)
  BY VocabularyAssumption, SentinelAssumption
     DEF Pairs, Sentinels, KnownDetail, DetailMembers
<1>5. /\ shape[1] \in ErrorCodes
      /\ shape[2] \in SUBSET Pairs /\ OneEach(shape[2])
      /\ \A pair \in shape[2] : pair[2] # Null /\ KnownDetail(version, pair)
  <2>1. CASE shape \in Undetailed
    BY <2>1 DEF Undetailed, ErrorCodes, OneEach
  <2>2. CASE shape \in VariantFailures(version)
    <3>1. PICK word \in WordsIn(version, "variant_kind") :
            shape = <<"unknown_variant", {word}>>
      BY <2>2 DEF VariantFailures
    <3>2. word \in Vocabulary[version] /\ word[1] \in Enumerated
      BY <3>1 DEF WordsIn, Enumerated
    <3> QED BY <1>4, <3>1, <3>2 DEF ErrorCodes, OneEach
  <2>3. CASE shape \in PortFailures(version)
    <3>1. PICK word \in WordsIn(version, "port") : shape = <<"missing_context", {word}>>
      BY <2>3 DEF PortFailures
    <3>2. word \in Vocabulary[version] /\ word[1] \in Enumerated
      BY <3>1 DEF WordsIn, Enumerated
    <3> QED BY <1>4, <3>1, <3>2 DEF ErrorCodes, OneEach
  <2>4. CASE shape \in SessionFailures
    <3>1. /\ shape[1] \in ErrorCodes
          /\ shape[2] \in {{Given("bound_subject_id"), Given("attempted_subject_id")},
                           {Given("proposal_id")},
                           {Given("proposal_id"), Given("requested_capability")}}
      BY <2>4 DEF SessionFailures, ErrorCodes
    <3>2. OneEach(shape[2])
      BY <3>1 DEF Given, OneEach
    <3> QED BY <1>3, <3>1, <3>2, LiteralsAssumption
            DEF Given, Pairs, KnownDetail, DetailMembers, Enumerated
  <2>5. CASE shape \in SignalFailures(version)
    <3>1. PICK word \in WordsIn(version, "schema_violation"), field \in {{}, {Given("field")}} :
            shape = <<"signal_schema_violation", {word} \union field>>
      BY <2>5 DEF SignalFailures
    <3>2. word \in Vocabulary[version] /\ word[1] \in Enumerated
      BY <3>1 DEF WordsIn, Enumerated
    <3>3. Given("field") \in Pairs /\ Given("field")[2] # Null
            /\ KnownDetail(version, Given("field"))
      BY <1>3, LiteralsAssumption DEF Given, Pairs, KnownDetail, DetailMembers, Enumerated
    <3>4. OneEach(shape[2])
      BY <3>1 DEF WordsIn, Given, OneEach
    <3> QED BY <1>4, <3>1, <3>2, <3>3, <3>4 DEF ErrorCodes
  <2> QED BY <2>1, <2>2, <2>3, <2>4, <2>5
<1>6. <<"code", shape[1]>> \in Vocabulary[version]
  BY <1>1, <1>2 DEF Words, NewFailure
<1> QED BY <1>1, <1>5, <1>6, LiteralsAssumption, NewFailureLegible

-----------------------------------------------------------------------------
(* The inductive invariant.                                                *)

\* Both sides decode a genuine reading of a version whose words they know.
LEMMA GenuineRead ==
  ASSUME NEW by \in Builds, NEW version \in Builds, NEW reading, Genuine(by, reading),
         Vocabulary[by] \subseteq Vocabulary[version]
  PROVE  /\ KernelReads(version, TurnDocument(reading)) = reading
         /\ HostReads(version, TurnDocument(reading)) = reading
<1>1. CASE reading.kind = "ok" /\ reading.turn \in Turns /\ reading = AsOk(reading.turn)
  <2>1. reading.turn \notin Sentinels
    BY <1>1, SentinelAssumption
  <2> QED BY <1>1, <2>1 DEF TurnDocument, KernelReads, HostReads, HostTakes, KernelParses
<1>2. CASE /\ reading.kind = "error"
           /\ Legible(by, reading.failure)
           /\ reading = AsError(reading.failure)
  <2>1. Legible(version, reading.failure)
    BY <1>2, LegibleGrows
  <2>2. Encode(reading.failure) \in ErrorObjects
    BY <1>2 DEF Legible, Failures, Encode, ErrorObjects, Sentinels
  <2>3. Encode(reading.failure) \notin Sentinels /\ None \in Sentinels
    BY <2>2, SentinelAssumption DEF Sentinels
  <2>4. /\ TurnDocument(reading).text = "canonical"
        /\ TurnDocument(reading).extra = FALSE
        /\ TurnDocument(reading).repeated = {}
        /\ TurnDocument(reading).ok = None
        /\ TurnDocument(reading).error = Encode(reading.failure)
    BY <1>2 DEF TurnDocument
  <2> QED BY <1>2, <2>1, <2>3, <2>4, ReadsLegible DEF KernelReads, HostReads, HostTakes, KernelParses
<1> QED BY <1>1, <1>2 DEF Genuine

LEMMA GenuineDocument ==
  ASSUME NEW by \in Builds, NEW reading, Genuine(by, reading)
  PROVE  TurnDocument(reading) \in Documents
<1>1. CASE reading.kind = "ok" /\ reading.turn \in Turns
  BY <1>1, LiteralsAssumption DEF TurnDocument, Documents, Sentinels
<1>2. CASE reading.kind = "error" /\ Legible(by, reading.failure)
  <2>1. Encode(reading.failure) \in ErrorObjects
    BY <1>2 DEF Legible, Failures, Encode, ErrorObjects, Sentinels
  <2> QED BY <1>2, <2>1, LiteralsAssumption DEF TurnDocument, Documents, Sentinels
<1> QED BY <1>1, <1>2 DEF Genuine

\* A failure a kernel has read is legible to it, whoever wrote it.
LEMMA ReadLegible ==
  ASSUME NEW version \in Builds, NEW document \in Documents,
         KernelReads(version, document).kind = "error"
  PROVE  Legible(version, KernelReads(version, document).failure)
BY KernelReading, ErrorKept

LEMMA InitInv == Init => WireInv
BY DEF Init, WireInv, TypeOK, ClaimsHold, SentGenuine, RowsLegible

\* Sending keeps the invariant when what is sent is genuine.
LEMMA Sends ==
  ASSUME WireInv, NEW process \in Processes, NEW to \in Processes, NEW reading,
         Genuine(build[process], reading),
         wire' = wire \union {Message(process, to, reading)},
         UNCHANGED <<build, table>>
  PROVE  /\ \A m \in wire' : /\ m.to \in Processes
                             /\ m.by \in Builds \union {None}
                             /\ m.document \in Documents
                             /\ m.sent # None =>
                                  m.by \in Builds /\ m.document = TurnDocument(m.sent)
         /\ SentGenuine'
         /\ RowsLegible'
         /\ \A row \in table' : row.version \in Builds
<1>1. build[process] \in Builds
  BY DEF WireInv, TypeOK
<1>2. TurnDocument(reading) \in Documents
  BY <1>1, GenuineDocument
<1>3. \A m \in wire : /\ m.to \in Processes
                      /\ m.by \in Builds \union {None}
                      /\ m.document \in Documents
                      /\ m.sent # None =>
                           m.by \in Builds /\ m.document = TurnDocument(m.sent)
                      /\ m.sent # None => Genuine(m.by, m.sent)
  BY DEF WireInv, TypeOK, SentGenuine
<1>4. LET m == Message(process, to, reading)
      IN  /\ m.to = to /\ m.by = build[process] /\ m.document = TurnDocument(reading)
          /\ m.sent = reading
  BY DEF Message
<1>5. RowsLegible' /\ \A row \in table' : row.version \in Builds
  BY DEF WireInv, TypeOK, RowsLegible
<1> QED BY <1>1, <1>2, <1>3, <1>4, <1>5 DEF SentGenuine

LEMMA StepInv == WireInv /\ [Next]_vars => WireInv'
<1> SUFFICES ASSUME WireInv, [Next]_vars PROVE WireInv'
  OBVIOUS
<1> USE DEF WireInv
<1>0. TypeOK /\ ClaimsHold /\ SentGenuine /\ RowsLegible
  OBVIOUS
<1>1. ASSUME NEW process \in Processes, NEW version \in Builds, Deploy(process, version)
      PROVE  WireInv'
  BY <1>0, <1>1 DEF Deploy, TypeOK, ClaimsHold, SentGenuine, RowsLegible
<1>2. ASSUME NEW process \in Processes, NEW peer \in Processes,
             NEW operation \in Operations \union {None}, NEW claim \in Builds \union {Mangled},
             Handshake(process, peer, operation, claim)
      PROVE  WireInv'
  <2>1. CASE /\ RequireCompatible(build[process], claim)
             /\ accepted' = [accepted EXCEPT ![process] = claim]
             /\ wire' = wire
    BY <1>0, <1>2, <2>1
       DEF Handshake, RequireCompatible, TypeOK, ClaimsHold, SentGenuine, RowsLegible
  <2>2. CASE /\ accepted' = [accepted EXCEPT ![process] = None]
             /\ wire' = wire \union
                  {Message(process, peer, AsError(Unsupported(operation, claim)))}
    <3>1. build[process] \in Builds
      BY <1>0 DEF TypeOK
    <3>2. Genuine(build[process], AsError(Unsupported(operation, claim)))
      BY <3>1, UnsupportedLegible DEF Genuine, AsError
    <3>3. build' = build /\ table' = table
      BY <1>2 DEF Handshake
    <3>4. ClaimsHold' /\ accepted' \in [Processes -> Builds \union {None}]
      BY <1>0, <2>2, <3>3 DEF TypeOK, ClaimsHold
    <3>5. build' \in [Processes -> Builds]
      BY <1>0, <3>3 DEF TypeOK
    <3> QED BY <2>2, <3>2, <3>3, <3>4, <3>5, Sends DEF TypeOK
  <2> QED BY <1>2, <2>1, <2>2 DEF Handshake
<1>3. ASSUME NEW process \in Kernels, NEW to \in Processes, NEW reading, NEW text,
             Genuine(build[process], reading), Report(process, to, reading, text)
      PROVE  WireInv'
  <2>1. build' = build /\ table' = table /\ accepted' = accepted
        /\ wire' = wire \union {Message(process, to, reading)}
    BY <1>3 DEF Report
  <2>2. ClaimsHold' /\ accepted' \in [Processes -> Builds \union {None}]
          /\ build' \in [Processes -> Builds]
    BY <1>0, <2>1 DEF TypeOK, ClaimsHold
  <2>3. process \in Processes
    BY DEF Processes
  <2> QED BY <1>3, <2>1, <2>2, <2>3, Sends DEF TypeOK
<1>4. ASSUME NEW process \in Kernels, NEW failure \in Constructed(build[process]),
             Record(process, failure)
      PROVE  WireInv'
  <2>1. build[process] \in Builds
    BY <1>0 DEF TypeOK, Processes
  <2>2. Legible(build[process], failure)
    BY <2>1, ConstructedLegible
  <2> QED BY <1>0, <1>4, <2>1, <2>2
          DEF Record, FailureRecord, TypeOK, ClaimsHold, SentGenuine, RowsLegible
<1>5. ASSUME NEW process \in Processes, NEW message \in wire, NEW keep \in BOOLEAN,
             Read(process, message, keep)
      PROVE  WireInv'
  <2>1. build' = build /\ accepted' = accepted /\ wire' = wire \ {message}
    BY <1>5 DEF Read
  <2>2. build[process] \in Builds /\ message.document \in Documents
    BY <1>0 DEF TypeOK
  <2>3. \A row \in table' : Legible(row.version, row.error) /\ row.version \in Builds
    <3>1. \A row \in table : Legible(row.version, row.error) /\ row.version \in Builds
      BY <1>0 DEF TypeOK, RowsLegible
    <3>2. CASE table' = table
      BY <3>1, <3>2
    <3>3. CASE /\ process \in Kernels
               /\ Reads(process, message.document).kind = "error"
               /\ table' = table \union
                    {FailureRecord(process, Reads(process, message.document).failure)}
      <4>1. Reads(process, message.document) = KernelReads(build[process], message.document)
        BY <3>3 DEF Reads
      <4>2. Legible(build[process], Reads(process, message.document).failure)
        BY <2>2, <3>3, <4>1, ReadLegible
      <4> QED BY <2>2, <3>1, <3>3, <4>2 DEF FailureRecord
    <3> QED BY <1>5, <3>2, <3>3 DEF Read
  <2> QED BY <1>0, <2>1, <2>3 DEF TypeOK, ClaimsHold, SentGenuine, RowsLegible
<1>6. ASSUME NEW to \in Processes, NEW document \in Foreign, Forge(to, document)
      PROVE  WireInv'
  BY <1>0, <1>6, ForeignAssumption
     DEF Forge, TypeOK, ClaimsHold, SentGenuine, RowsLegible
<1>7. ASSUME NEW message \in wire, Lose(message) PROVE WireInv'
  BY <1>0, <1>7 DEF Lose, TypeOK, ClaimsHold, SentGenuine, RowsLegible
<1>8. ASSUME NEW row \in table, Purge(row) PROVE WireInv'
  BY <1>0, <1>8 DEF Purge, TypeOK, ClaimsHold, SentGenuine, RowsLegible
<1>9. CASE UNCHANGED vars
  BY <1>0, <1>9 DEF vars, TypeOK, ClaimsHold, SentGenuine, RowsLegible
<1>10. ASSUME NEW process \in Kernels, NEW to \in Processes, NEW text,
              NEW failure \in Constructed(build[process]),
              Report(process, to, AsError(failure), text)
       PROVE  WireInv'
  <2>1. Legible(build[process], failure)
    BY <1>0, ConstructedLegible DEF TypeOK, Processes
  <2>2. Genuine(build[process], AsError(failure))
    BY <2>1 DEF Genuine, AsError
  <2> QED BY <1>3, <1>10, <2>2
<1>11. ASSUME NEW process \in Kernels, NEW to \in Processes, NEW text,
              NEW operation \in Operations,
              Report(process, to,
                     AsOk([version |-> build[process], operation |-> operation]), text)
       PROVE  WireInv'
  <2>1. [version |-> build[process], operation |-> operation] \in Turns
    BY <1>0 DEF TypeOK, Processes, Turns
  <2>2. Genuine(build[process], AsOk([version |-> build[process], operation |-> operation]))
    BY <2>1 DEF Genuine, AsOk
  <2> QED BY <1>3, <1>11, <2>2
<1> HIDE DEF WireInv
<1> QED BY <1>1, <1>2, <1>4, <1>5, <1>6, <1>7, <1>8, <1>9, <1>10, <1>11 DEF Next

LEMMA Invariance == Spec => []WireInv
BY InitInv, StepInv, PTL DEF Spec

-----------------------------------------------------------------------------
(* The theorems.                                                           *)

\* Every reachable state is well typed: an accepted claim is always a version.
THEOREM TypeCorrect == Spec => []TypeOK
BY Invariance, PTL DEF WireInv

\* A claim accepted is a promise kept, whatever was in flight and whichever side was
\* replaced meanwhile (lib.rs require_compatible_contract).
THEOREM Agreed == Spec => []AgreedIsUnderstood
<1>1. WireInv => AgreedIsUnderstood
  <2>1. SUFFICES ASSUME WireInv, NEW m \in wire, m.sent # None, accepted[m.to] = m.by
                 PROVE  Reads(m.to, m.document) = m.sent
    BY DEF AgreedIsUnderstood
  <2>2. /\ m.to \in Processes /\ m.by \in Builds /\ build[m.to] \in Builds
        /\ m.document = TurnDocument(m.sent)
        /\ Genuine(m.by, m.sent)
    BY <2>1 DEF WireInv, TypeOK, SentGenuine
  <2>3. AcceptsProvider(m.by, build[m.to])
    BY <2>1, <2>2, SentinelAssumption DEF WireInv, ClaimsHold, Sentinels
  <2>4. Vocabulary[m.by] \subseteq Vocabulary[build[m.to]]
    BY <2>2, <2>3, Grows
  <2> QED BY <2>2, <2>4, GenuineRead DEF Reads
<1> QED BY <1>1, Invariance, PTL

\* What the host accepts a kernel of the same build reads alike, or refuses because of the
\* text: a member occurs twice, or serde_json does not parse it (envelope.ts decodeTurnOutcome, error.ts decodeFoundationError, canonical.ts
\* decodeCanonicalJson).
THEOREM LaxerOnlyInText == Spec => []HostLaxerOnlyInText
<1>1. WireInv => HostLaxerOnlyInText
  <2>1. SUFFICES ASSUME WireInv, NEW m \in wire, NEW version \in Builds,
                        HostReads(version, m.document) # Refused
                 PROVE  LET host == HostReads(version, m.document)
                            kernel == KernelReads(version, m.document)
                        IN  /\ host = KernelReads(version, AsParsed(m.document))
                            /\ kernel # host =>
                                 /\ kernel = Refused
                                 /\ m.document.repeated # {} \/ ~KernelParses(m.document.text)
    BY DEF HostLaxerOnlyInText
  <2>2. m.document \in Documents
    BY <2>1 DEF WireInv, TypeOK
  <2> QED BY <2>1, <2>2, HostStricter
<1> QED BY <1>1, Invariance, PTL

\* What was read is what was sent or what the document says, with nothing agreed and
\* whatever build reads it; a failure never becomes a success on the host.
THEOREM Faithful == Spec => []NothingInvented
<1>1. WireInv => NothingInvented
  <2>1. SUFFICES ASSUME WireInv, NEW m \in wire, NEW process \in Processes
                 PROVE  LET reading == Reads(process, m.document)
                        IN  /\ m.sent # None => reading \in {Refused, m.sent}
                            /\ ReadsWhatItSays(m.document, reading)
                            /\ process \in Hosts /\ m.document.error # None =>
                                 reading.kind # "ok"
    BY DEF NothingInvented
  <2> DEFINE version == build[process]
             reading == Reads(process, m.document)
  <2>2. version \in Builds /\ m.document \in Documents
    BY <2>1 DEF WireInv, TypeOK
  <2>3. \/ reading \in {Refused, KernelReads(version, m.document)}
        \/ reading = KernelReads(version, AsParsed(m.document))
    BY <2>2, HostStricter DEF Reads
  <2>4. m.sent # None => reading \in {Refused, m.sent}
    <3>0. m.sent # None => m.document.repeated = {} /\ m.document.text = "canonical"
      <4>1. TurnDocument(m.sent).repeated = {} /\ TurnDocument(m.sent).text = "canonical"
        BY DEF TurnDocument
      <4> QED BY <2>1, <4>1 DEF WireInv, TypeOK
    <3>1. SUFFICES ASSUME m.sent # None
                   PROVE  KernelReads(version, m.document) \in {Refused, m.sent}
      BY <2>2, <2>3, <3>0, AsParsedDocument
    <3>2. m.document = TurnDocument(m.sent) /\ Genuine(m.by, m.sent)
      BY <2>1, <3>1 DEF WireInv, TypeOK, SentGenuine
    <3>3. CASE /\ m.sent.kind = "ok" /\ m.sent.turn \in Turns
               /\ m.sent = AsOk(m.sent.turn)
      <4>1. m.sent.turn \notin Sentinels
        BY <3>3, SentinelAssumption
      <4> QED BY <3>2, <3>3, <4>1 DEF TurnDocument, KernelReads
    <3>4. CASE /\ m.sent.kind = "error"
               /\ Legible(m.by, m.sent.failure)
               /\ m.sent = AsError(m.sent.failure)
      <4>1. /\ m.sent.failure \in Failures
            /\ m.sent.failure.details # None =>
                 \A pair \in m.sent.failure.details.members : pair[2] # Null
        BY <3>4 DEF Legible
      <4>2. KernelReadsError(version, Encode(m.sent.failure)) \in {Refused, m.sent}
        BY <2>2, <3>4, <4>1, ReadsWhole
      <4>3. m.document.ok = None /\ m.document.error = Encode(m.sent.failure)
        BY <3>2, <3>4 DEF TurnDocument
      <4> QED BY <4>2, <4>3 DEF KernelReads, Sentinels
    <3> QED BY <3>2, <3>3, <3>4 DEF Genuine
  <2>5. ReadsWhatItSays(m.document, reading)
    <3>1. SUFFICES ASSUME reading.kind = "error"
                   PROVE  ReadsWhatItSays(m.document, reading)
      BY DEF ReadsWhatItSays
    <3>2. PICK document \in Documents :
            document.error = m.document.error /\ reading = KernelReads(version, document)
      BY <2>2, <2>3, <3>1, AsParsedDocument DEF Refused
    <3>3. /\ m.document.error \in ErrorObjects
          /\ reading = KernelReadsError(version, m.document.error)
      BY <2>2, <3>1, <3>2, KernelReading
    <3> HIDE DEF reading
    <3> QED BY <2>2, <3>1, <3>3, ErrorKept DEF ReadsWhatItSays
  <2>6. ASSUME process \in Hosts, m.document.error # None PROVE reading.kind # "ok"
    <3>1. reading = HostReads(version, m.document)
      BY <2>6, SidesAssumption DEF Reads
    <3>2. HostReadsError(version, m.document.error).kind # "ok"
      BY DEF HostReadsError, AsError, Refused
    <3> HIDE DEF reading
    <3> QED BY <2>6, <3>1, <3>2 DEF HostReads, Refused
  <2> QED BY <2>4, <2>5, <2>6
<1> QED BY <1>1, Invariance, PTL

\* A stored failure is decoded, as it is, by every build that accepts the version
\* stamped on its row (envelope.rs FailureRecord::new).
THEOREM Readable == Spec => []RowsStayReadable
<1>1. WireInv => RowsStayReadable
  <2>1. SUFFICES ASSUME WireInv, NEW row \in table, NEW version \in Builds,
                        AcceptsProvider(row.version, version)
                 PROVE  /\ KernelReadsError(version, Encode(row.error)) = AsError(row.error)
                        /\ HostReadsError(version, Encode(row.error)) = AsError(row.error)
    BY DEF RowsStayReadable
  <2>2. row.version \in Builds /\ Legible(row.version, row.error)
    BY <2>1 DEF WireInv, TypeOK, RowsLegible
  <2>3. Legible(version, row.error)
    BY <2>1, <2>2, Grows, LegibleGrows
  <2> QED BY <2>3, ReadsLegible
<1> QED BY <1>1, Invariance, PTL
=============================================================================
