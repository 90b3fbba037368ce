\* The product takes snapshots when it likes, the process dies at any call, twice,
\* and what is seated again is the last snapshot taken, however old.
CONSTANTS
  ProposalIds = {p1, p2}
  Candidates = {c1, c2}
  Capabilities = {say}
  Subjects = {alice}
  Computations = {local}
  MaxSequence = 4
  MaxRevision = 5
  MaxBatch = 1
  MaxCrashes = 2
  PortDown = PortDown
  Withhold = Withhold
SPECIFICATION Spec
VIEW CrashView
SYMMETRY Symmetry
INVARIANTS AtMostOneEffect NoProposalLost
PROPERTIES RevisionNamesState RefinesLifecycle
CHECK_DEADLOCK FALSE
