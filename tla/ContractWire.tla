---------------------------- MODULE ContractWire ----------------------------
(***************************************************************************)
(* The contract boundary: crates/aiai-contracts on one side of a wire,     *)
(* packages/aiai-contracts (the host mirror) on the other, each built at   *)
(* its own version and upgraded or rolled back on its own.                 *)
(*                                                                         *)
(* A process checks a peer's claim, decodes documents that were in flight  *)
(* while either side was replaced, and keeps failures as rows that outlive *)
(* the build that wrote them.  A JSON object is modelled by the members    *)
(* the decoders tell apart: None is an absent member, Null one whose value *)
(* is null, Mangled one of the wrong shape.  Where a member occurs twice   *)
(* an object shows the last occurrence, and the document says in which of  *)
(* its members there was an earlier one.  Of its text a document tells     *)
(* only who can parse it.                                                  *)
(***************************************************************************)
EXTENDS Naturals, FiniteSets, FailureTaxonomy

CONSTANTS
  Kernels,      \* processes that decode with the Rust crate
  Hosts,        \* processes that decode with the TypeScript package
  Builds,       \* contract versions that get deployed
  Vocabulary,   \* the words of the closed enumerations each build knows
  Operations,   \* operation identifiers
  Foreign,      \* turn documents that no build of the contract produced
  MaxKept,      \* bound on documents in flight and rows kept, together
  None, Null, Mangled

Processes == Kernels \union Hosts

ASSUME SidesAssumption == Kernels \intersect Hosts = {}
ASSUME BuildsAssumption == Builds \subseteq [major : Nat, minor : Nat, patch : Nat]
ASSUME BoundAssumption == MaxKept \in Nat

Sentinels == {None, Null, Mangled}

\* Every JSON object a decoder can meet.  A details object is the set of its
\* <<member, value>> pairs; a pair of an enumerated member is a word.
Pairs == STRING \X (STRING \union {Null, Mangled})
OneEach(pairs) == \A pair, other \in pairs : pair[1] = other[1] => pair = other
Details == [members : {pairs \in SUBSET Pairs : OneEach(pairs)}]
ErrorObjects == [code : STRING, operation : Operations \union Sentinels,
                 details : Details \union Sentinels, extra : BOOLEAN]

\* TurnOk, with what it repeats of the session left out.
Turns == [version : Builds, operation : Operations]

\* `repeated`: of `ok` and `error`, those that occur twice, or have a struct of the
\* contract in them with a member that does.
Documents == [text : STRING, ok : Turns \union Sentinels,
              error : ErrorObjects \union Sentinels, extra : BOOLEAN,
              repeated : SUBSET {"ok", "error"}]

ASSUME SentinelAssumption ==
  /\ None # Null /\ None # Mangled /\ Null # Mangled
  /\ \A sentinel \in Sentinels :
       /\ sentinel \notin Operations
       /\ sentinel \notin Builds
       /\ sentinel \notin STRING
       /\ sentinel \notin Details
       /\ sentinel \notin Turns
       /\ sentinel \notin ErrorObjects
ASSUME ForeignAssumption ==
  /\ Foreign \subseteq Documents
  /\ \A document \in Foreign : \A member \in document.repeated : document[member] # None

\* docs/consuming.md 49-53: the line moves whenever a closed vocabulary changes.
\* Below 1.0 a line is one minor; a released line accepts a later minor, so within
\* it words are only ever added.
ASSUME VocabularyAssumption ==
  \A a, b \in Builds :
    /\ Vocabulary[a] \subseteq STRING \X STRING
    /\ <<"code", "unsupported_contract_version">> \in Vocabulary[a]
    /\ a.major = b.major =>
         /\ a.major = 0 /\ a.minor = b.minor => Vocabulary[a] = Vocabulary[b]
         /\ a.major # 0 /\ a.minor =< b.minor => Vocabulary[a] \subseteq Vocabulary[b]

VARIABLES
  build,     \* the version each process runs
  accepted,  \* the claim it accepted last; None after a restart or a refusal
  wire,      \* documents in flight
  table      \* failure rows a product keeps

vars == <<build, accepted, wire, table>>

-----------------------------------------------------------------------------
(* Versions.                                                               *)

AcceptsProvider_Reversed(required, provider) ==  \* mutant: arguments swapped
  IF required.major = 0
    THEN /\ provider.major = 0
         /\ provider.minor = required.minor
         /\ required.patch >= provider.patch
    ELSE provider.major = required.major /\ required.minor >= provider.minor
AcceptsProvider(required, provider) ==
  IF required.major = 0
    THEN /\ provider.major = 0
         /\ provider.minor = required.minor
         /\ provider.patch >= required.patch
    ELSE provider.major = required.major /\ provider.minor >= required.minor

-----------------------------------------------------------------------------
(* Failures.                                                               *)

Enumerated == {"port", "variant_kind", "schema_violation"}

DetailMembers == Enumerated \union
  {"required_contract_version", "supported_contract_version", "bound_subject_id",
   "attempted_subject_id", "proposal_id", "requested_capability", "field"}

\* Details::default() is left out of the failure.
NewFailure(code, operation, details) ==
  [code |-> code, operation |-> operation,
   details |-> IF details = {} THEN None ELSE [members |-> details]]

DetailsOf(failure) == IF failure.details = None THEN {} ELSE failure.details.members

Words(failure) ==
  {<<"code", failure.code>>} \union {pair \in DetailsOf(failure) : pair[1] \in Enumerated}

WordsIn(version, enumeration) == {word \in Vocabulary[version] : word[1] = enumeration}

\* A member whose value no enumeration closes.
Given(member) == <<member, "given">>

\* Stated for the provers, to which a literal is not yet a string.
ASSUME LiteralsAssumption ==
  ErrorCodes \union DetailMembers \union {"canonical", "given"} \subseteq STRING

\* <<code, details>> as each constructor of FoundationError pairs them.
Undetailed ==
  {"malformed_envelope", "runtime_inactive", "inference_unavailable",
   "sequence_exhausted"} \X {{}}

VariantFailures(version) ==
  {<<"unknown_variant", {word}>> : word \in WordsIn(version, "variant_kind")}

PortFailures(version) ==
  {<<"missing_context", {word}>> : word \in WordsIn(version, "port")}

SessionFailures ==
  ({"subject_continuity_violation"} \X
     {{Given("bound_subject_id"), Given("attempted_subject_id")}})
  \union ({"unknown_proposal", "duplicate_proposal_id"} \X {{Given("proposal_id")}})
  \union ({"authority_withheld", "authority_scope_exceeded"} \X
            {{Given("proposal_id"), Given("requested_capability")}})

SignalFailures(version) ==
  {<<"signal_schema_violation", {word} \union field>> :
     word \in WordsIn(version, "schema_violation"), field \in {{}, {Given("field")}}}

\* A build has no constructor for a code it does not know.
Constructed(version) ==
  {failure \in
     {NewFailure(shape[1], operation, shape[2]) :
        shape \in Undetailed \union VariantFailures(version) \union PortFailures(version)
                    \union SessionFailures \union SignalFailures(version),
        operation \in Operations \union {None}} :
   Words(failure) \subseteq Vocabulary[version]}

\* `claim` is Mangled when it is not a canonical version; it is not echoed then.
Unsupported(operation, claim) ==
  NewFailure("unsupported_contract_version", operation,
    {Given("supported_contract_version")} \union
      IF claim = Mangled THEN {} ELSE {Given("required_contract_version")})

RequireCompatible_Lenient(version, claim) ==  \* mutant: parses what it can
  claim = Mangled \/ AcceptsProvider(claim, version)
RequireCompatible(version, claim) ==
  claim # Mangled /\ AcceptsProvider(claim, version)

-----------------------------------------------------------------------------
(* Documents.                                                              *)

Refused == [kind |-> "refused"]
AsOk(turn) == [kind |-> "ok", turn |-> turn]
AsError(failure) == [kind |-> "error", failure |-> failure]

\* canonical_json, decodeCanonicalJson: no numeric token, no string outside NFC, no other
\* member name.  "lenient" is text that JSON.parse and TextDecoder take and serde_json does
\* not: a byte-order mark, half of a surrogate pair, deep nesting.
Canonical(text) == text = "canonical"
HostTakes(text) == text \in {"canonical", "lenient"}
KernelParses(text) == text # "lenient"

Encode(failure) ==
  [code |-> failure.code, operation |-> failure.operation, details |-> failure.details,
   extra |-> FALSE]

\* TurnOutcome::from(Result), encoded: one member, whichever it is.
TurnDocument(reading) ==
  [text |-> "canonical", extra |-> FALSE, repeated |-> {},
   ok |-> IF reading.kind = "ok" THEN reading.turn ELSE None,
   error |-> IF reading.kind = "error" THEN Encode(reading.failure) ELSE None]

KnownDetail(version, pair) ==
  /\ pair[1] \in DetailMembers
  /\ pair[2] # Mangled
  /\ pair[1] \in Enumerated => pair \in Vocabulary[version]

\* FoundationError's Deserialize: an optional member may be null.
KernelReadsError(version, object) ==
  IF /\ <<"code", object.code>> \in Vocabulary[version]
     /\ ~object.extra
     /\ object.operation # Mangled
     /\ object.details # Mangled
     /\ object.details \notin {None, Null} =>
          \A pair \in object.details.members :
            \/ pair[1] \in DetailMembers /\ pair[2] = Null
            \/ KnownDetail(version, pair)
    THEN AsError(
      [code |-> object.code,
       operation |-> IF object.operation = Null THEN None ELSE object.operation,
       details |-> IF object.details \in {None, Null} THEN None
                   ELSE [members |-> {pair \in object.details.members : pair[2] # Null}]])
    ELSE Refused

\* decodeFoundationError, decodeDetails: a member is absent or well-formed.
HostReadsError(version, object) ==
  IF /\ <<"code", object.code>> \in Vocabulary[version]
     /\ ~object.extra
     /\ object.operation \notin {Null, Mangled}
     /\ object.details \notin {Null, Mangled}
     /\ object.details # None =>
          \A pair \in object.details.members : pair[2] # Null /\ KnownDetail(version, pair)
    THEN AsError([code |-> object.code, operation |-> object.operation,
                  details |-> object.details])
    ELSE Refused

\* An untagged enum takes the first variant that decodes and ignores the rest.  A derived
\* Deserialize refuses a field that occurs twice, the variant's own or one further in.
KernelReads(version, document) ==
  IF ~KernelParses(document.text) THEN Refused
  ELSE IF document.ok \notin Sentinels /\ "ok" \notin document.repeated THEN AsOk(document.ok)
  ELSE IF document.error \notin Sentinels /\ "error" \notin document.repeated
    THEN KernelReadsError(version, document.error)
  ELSE Refused

\* decodeTurnOutcome: exactly one member.  JSON.parse has kept the last occurrence of each
\* by then, and reports nothing.
HostReads_PrefersOk(version, document) ==  \* mutant: resolves by preferring one
  IF ~HostTakes(document.text) THEN Refused
  ELSE IF document.ok \notin Sentinels THEN AsOk(document.ok)
  ELSE IF document.error \notin Sentinels
    THEN HostReadsError(version, document.error)
  ELSE Refused
HostReads_RepairsError(version, document) ==  \* mutant: an undecodable error is absent
  IF ~HostTakes(document.text) \/ document.extra THEN Refused
  ELSE IF document.error \notin Sentinels
    THEN IF HostReadsError(version, document.error) = Refused
           THEN AsError(NewFailure("malformed_envelope", None, {}))
           ELSE HostReadsError(version, document.error)
  ELSE IF document.ok \notin Sentinels THEN AsOk(document.ok)
  ELSE Refused
HostReads(version, document) ==
  IF ~HostTakes(document.text) \/ document.extra THEN Refused
  ELSE IF document.error = None /\ document.ok \notin Sentinels
    THEN AsOk(document.ok)
  ELSE IF document.ok = None /\ document.error \notin Sentinels
    THEN HostReadsError(version, document.error)
  ELSE Refused

Reads(process, document) ==
  IF process \in Kernels THEN KernelReads(build[process], document)
                         ELSE HostReads(build[process], document)

\* FailureRecord::new: the version is the recording build's own.
FailureRecord_Claimed(process, failure) ==  \* mutant: the version the peer claimed
  [version |-> IF accepted[process] = None THEN build[process] ELSE accepted[process],
   error |-> failure]
FailureRecord(process, failure) == [version |-> build[process], error |-> failure]

-----------------------------------------------------------------------------
(* Steps.  `sent` is history: what the sender meant, None if it is foreign. *)

Room == Cardinality(wire) + Cardinality(table) < MaxKept

Message(process, to, reading) ==
  [to |-> to, by |-> build[process], document |-> TurnDocument(reading), sent |-> reading]

\* The process is replaced by one of another build, upgrade or rollback; its peers
\* do not notice.
Deploy(process, version) ==
  /\ build' = [build EXCEPT ![process] = version]
  /\ accepted' = [accepted EXCEPT ![process] = None]
  /\ UNCHANGED <<wire, table>>

\* require_compatible_contract on a claim, and the refusal on its way back.  A claim
\* may be stale when it arrives, or foreign.
Handshake(process, peer, operation, claim) ==
  /\ UNCHANGED <<build, table>>
  /\ \/ /\ RequireCompatible(build[process], claim)
        /\ accepted' = [accepted EXCEPT ![process] = claim]
        /\ wire' = wire
     \/ /\ ~RequireCompatible(build[process], claim)
        /\ Room
        /\ accepted' = [accepted EXCEPT ![process] = None]
        /\ wire' = wire \union
             {Message(process, peer,
                      AsError(Unsupported(operation, claim)))}

\* A kernel reports a turn.  canonical_json refuses a turn whose payload is not
\* canonical: the caller keeps the error and nothing is sent.
Report(process, to, reading, text) ==
  /\ Room
  /\ Canonical(text)
  /\ wire' = wire \union {Message(process, to, reading)}
  /\ UNCHANGED <<build, accepted, table>>

\* A failure of the process's own becomes a row.
Record(process, failure) ==
  /\ Room
  /\ table' = table \union {FailureRecord(process, failure)}
  /\ UNCHANGED <<build, accepted, wire>>

\* A document arrives; a kernel that read a failure may keep it.
Read(process, message, keep) ==
  /\ message.to = process
  /\ wire' = wire \ {message}
  /\ table' = IF keep /\ process \in Kernels
                   /\ Reads(process, message.document).kind = "error"
                THEN table \union
                       {FailureRecord(process, Reads(process, message.document).failure)}
                ELSE table
  /\ UNCHANGED <<build, accepted>>

Forge(to, document) ==
  /\ Room
  /\ wire' = wire \union {[to |-> to, by |-> None, document |-> document, sent |-> None]}
  /\ UNCHANGED <<build, accepted, table>>

Lose(message) ==
  /\ wire' = wire \ {message}
  /\ UNCHANGED <<build, accepted, table>>

Purge(row) ==
  /\ table' = table \ {row}
  /\ UNCHANGED <<build, accepted, wire>>

Init ==
  /\ build \in [Processes -> Builds]
  /\ accepted = [process \in Processes |-> None]
  /\ wire = {}
  /\ table = {}

Next ==
  \/ \E process \in Processes, version \in Builds : Deploy(process, version)
  \/ \E process, peer \in Processes, operation \in Operations \union {None},
        claim \in Builds \union {Mangled} : Handshake(process, peer, operation, claim)
  \/ \E process \in Kernels, to \in Processes, text \in {"canonical", "number_token"} :
       \/ \E failure \in Constructed(build[process]) :
            Report(process, to, AsError(failure), text)
       \/ \E operation \in Operations :
            Report(process, to, AsOk([version |-> build[process], operation |-> operation]),
                   text)
  \/ \E process \in Kernels : \E failure \in Constructed(build[process]) :
       Record(process, failure)
  \/ \E process \in Processes, message \in wire, keep \in BOOLEAN :
       Read(process, message, keep)
  \/ \E to \in Processes, document \in Foreign : Forge(to, document)
  \/ \E message \in wire : Lose(message)
  \/ \E row \in table : Purge(row)

Spec == Init /\ [][Next]_vars

-----------------------------------------------------------------------------
(* Properties.                                                             *)

TypeOK ==
  /\ build \in [Processes -> Builds]
  /\ accepted \in [Processes -> Builds \union {None}]
  /\ \A m \in wire :
       /\ m.to \in Processes
       /\ m.by \in Builds \union {None}
       /\ m.document \in Documents
       /\ m.sent # None => m.by \in Builds /\ m.document = TurnDocument(m.sent)
  /\ \A row \in table : row.version \in Builds

\* A claim accepted is a promise kept: whatever the build that made it has sent, in
\* flight through any restart of either side, decodes to what was sent
\* (lib.rs require_compatible_contract, "before a payload is decoded").
AgreedIsUnderstood ==
  \A m \in wire :
    m.sent # None /\ accepted[m.to] = m.by => Reads(m.to, m.document) = m.sent

\* Whatever its build, and with nothing agreed, a process that reads a document reads
\* what it says, of a member that occurs twice what it says last: a turn as it was sent or
\* not at all, a failure with its own code and every detail, and on the host never a success for a document that also carries a
\* failure (error.rs FoundationError, envelope.ts decodeTurnOutcome).
ReadsWhatItSays(document, reading) ==
  reading.kind = "error" =>
    /\ reading.failure.code = document.error.code
    /\ DetailsOf(reading.failure) =
         IF document.error.details \in {None, Null} THEN {}
         ELSE {pair \in document.error.details.members : pair[2] # Null}

NothingInvented ==
  \A m \in wire, process \in Processes :
    LET reading == Reads(process, m.document)
    IN  /\ m.sent # None => reading \in {Refused, m.sent}
        /\ ReadsWhatItSays(m.document, reading)
        /\ process \in Hosts /\ m.document.error # None => reading.kind # "ok"

\* What JSON.parse makes of a document, written down again.
AsParsed(document) == [document EXCEPT !.text = "canonical", !.repeated = {}]

\* One contract, two decoders.  What the host accepts a kernel of the same build accepts
\* too, with the same reading: it refuses more, never less, of what has been parsed
\* (docs/host-contract.md, "Where it deliberately answers more strictly").  Only of the text
\* is the host the laxer side: it takes a member that occurs twice, as that page says, and
\* text serde_json does not parse.  The kernel then refuses and never reads something else,
\* and the host reads what a kernel would if the document were written down again.
HostLaxerOnlyInText ==
  \A m \in wire, version \in Builds :
    LET host == HostReads(version, m.document)
        kernel == KernelReads(version, m.document)
    IN  host # Refused =>
          /\ host = KernelReads(version, AsParsed(m.document))
          /\ kernel # host =>
               /\ kernel = Refused
               /\ m.document.repeated # {} \/ ~KernelParses(m.document.text)

\* A row outlives its writer: every build that accepts the version stamped on it
\* decodes the failure it carries, on either side, also when the failure came from a
\* peer of another line (envelope.rs FailureRecord::new, "a record that claimed
\* another line would misdescribe the vocabulary its own error code came from").
RowsStayReadable ==
  \A row \in table, version \in Builds :
    AcceptsProvider(row.version, version) =>
      /\ KernelReadsError(version, Encode(row.error)) = AsError(row.error)
      /\ HostReadsError(version, Encode(row.error)) = AsError(row.error)
=============================================================================
