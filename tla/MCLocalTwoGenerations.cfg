\* A stream begun while an unload is in flight.
CONSTANTS
  Tasks = {t1, t2}
  Engines = {e1, e2}
  None = None
  Awaits = FALSE
  Extra = Extra
  ShaderF16 = shader_f16
  Features = {shader_f16, Extra}
  Catalogs <- OneCatalog
  Adapters <- TwoAdapters
SPECIFICATION Spec
INVARIANT OneGeneration
