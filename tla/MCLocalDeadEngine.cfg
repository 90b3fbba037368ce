\* load() after an unload that failed.
CONSTANTS
  Tasks = {t1, t2}
  Engines = {e1, e2}
  None = None
  Awaits = TRUE
  Extra = Extra
  ShaderF16 = shader_f16
  Features = {shader_f16, Extra}
  Catalogs <- OneCatalog
  Adapters <- TwoAdapters
SPECIFICATION Spec
INVARIANT RestsOperational
