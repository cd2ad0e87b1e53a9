SPECIFICATION FreeingSpec
CONSTANTS
  Controllers = {r1, r2}
  Engines = {e1, e2}
  Null = Null
  Wild = Wild
  Backends = {"VP8", "VP9"}
  SingleLayer = {"VP8"}
  NullRefused = {"VP8"}
  MaxQuantizer = 2
  MaxQ <- LoopMaxQ
  Qindex <- LoopQindex
  Configs <- LoopConfigs
SYMMETRY Symmetric
INVARIANTS
  FreeIsSafe
