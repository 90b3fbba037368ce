\* Restarts that lose nothing: every stored snapshot is the session's last state.
CONSTANTS
  ProposalIds = {p1, p2}
  Candidates = {c1, c2}
  Capabilities = {say, act}
  Subjects = {alice, bob}
  Computations = {local, cloud}
  MaxSequence = 4
  MaxRevision = 5
  MaxBatch = 2
  MaxCrashes = 0
  PortDown = PortDown
  Withhold = Withhold
SPECIFICATION Spec
VIEW View
SYMMETRY Symmetry
INVARIANTS TypeOK EffectsAreAuthorised AtMostOneEffect OwnSnapshotSeats
PROPERTIES EmissionsIncrease FailuresMeanTheirKind PermissionsEndInEffects SubjectContinues RefinesLifecycle
CHECK_DEADLOCK FALSE
