SPECIFICATION AnySpec
CONSTANTS
  Controllers = {r1, r2}
  Engines = {e1, e2, e3}
  Null = Null
  Wild = Wild
  Backends = {"VP8", "VP9"}
  SingleLayer = {"VP8"}
  NullRefused = {"VP8"}
  MaxQuantizer = 0
  MaxQ <- AnyMaxQ
  Qindex <- AnyQindex
  Configs <- AnyConfigs
SYMMETRY Symmetric
INVARIANTS
  TypeOK
  EnginesNotShared
CHECK_DEADLOCK FALSE
