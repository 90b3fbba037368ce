\* A product that overlaps its calls in any way: what still holds.
CONSTANTS
  Tasks = {t1, t2}
  Engines = {e1, e2}
  None = None
  Awaits = FALSE
  Extra = Extra
  ShaderF16 = shader_f16
  Features = {shader_f16, Extra}
  Catalogs <- OneCatalog
  Adapters <- TwoAdapters
SPECIFICATION FairSpec
INVARIANT NoDoomedDownload
PROPERTIES CancelledNeverFails CancelSettles ProbingEnds
