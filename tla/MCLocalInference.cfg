\* A product that awaits each lifecycle call; loads are cancelled and joined and
\* text is streamed at any time.
CONSTANTS
  Tasks = {t1, t2, t3}
  Engines = {e1, e2}
  None = None
  Awaits = TRUE
  Extra = Extra
  ShaderF16 = shader_f16
  Features = {shader_f16, Extra}
  Catalogs <- MCCatalogs
  Adapters <- MCAdapters
SPECIFICATION Spec
SYMMETRY Symmetry
INVARIANTS TypeOK NoStrandedEngine OperationalHasEngine GeneratingIsStreaming CacheFlagHonest SelectionAgrees
PROPERTIES FollowsLifecycle
