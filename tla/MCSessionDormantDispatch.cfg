\* An Admitted value the caller kept while the session settled.
CONSTANTS
  ProposalIds = {p1}
  Candidates = {c1, c2}
  Capabilities = {say, act}
  Subjects = {alice}
  Computations = {local}
  MaxSequence = 4
  MaxRevision = 7
  MaxBatch = 1
  MaxCrashes = 0
  PortDown = PortDown
  Withhold = Withhold
SPECIFICATION Spec
SYMMETRY Symmetry
PROPERTY DormantFinishesNothing
CHECK_DEADLOCK FALSE
