\* One document or row at a time, through any upgrades, rollbacks and claims.
CONSTANTS
  Kernels = {kernel}
  Hosts = {browser}
  Builds <- MCBuilds
  Vocabulary <- MCVocabulary
  Operations = {op}
  Foreign <- MCForeign
  MaxKept = 1
  None = None
  Null = Null
  Mangled = Mangled
SPECIFICATION Spec
INVARIANTS TypeOK AgreedIsUnderstood NothingInvented HostLaxerOnlyInText RowsStayReadable
CHECK_DEADLOCK FALSE
