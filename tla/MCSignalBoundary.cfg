SPECIFICATION Spec
CONSTANTS
    Archetypes <- TheArchetypes
    Schemas <- TheSchemas
    Observations <- TheObservations
    Payloads <- ThePayloads
    None = None
    MaxCorpus = 1
INVARIANTS TypeOK OutputConforms FixedPoints VerdictExact BlameFits
PROPERTIES AdmitsAsSent HonestOutcome
