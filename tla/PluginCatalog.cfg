SPECIFICATION Spec
CONSTANTS
  Uploads = {u1, u2, u3, u4}
  Removals = {r1, r2}
  PluginNames = {n1, n2}
  NoPlugin = NoPlugin
  Flaky = TRUE
  MayClose = TRUE
SYMMETRY Symmetric
INVARIANTS
  CatalogComplete
  UncontendedPluginIntact
