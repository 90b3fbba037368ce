\* Activation, rebind and dispatch at the revision ceiling.
CONSTANTS
  ProposalIds = {p1, p2}
  Candidates = {c1, c2}
  Capabilities = {say, act}
  Subjects = {alice, bob}
  Computations = {local, cloud}
  MaxSequence = 4
  MaxRevision = 5
  MaxBatch = 1
  MaxCrashes = 0
  PortDown = PortDown
  Withhold = Withhold
SPECIFICATION Spec
SYMMETRY Symmetry
PROPERTY ExhaustionFailsClosed
CHECK_DEADLOCK FALSE
