\* What is rendered while an unload waits for the cache.
CONSTANTS
  Tasks = {t1, t2}
  Engines = {e1, e2}
  None = None
  Awaits = TRUE
  Extra = Extra
  ShaderF16 = shader_f16
  Features = {shader_f16, Extra}
  Catalogs <- OneCatalog
  Adapters <- TwoAdapters
SPECIFICATION Spec
INVARIANT OperationalMeansEngine
