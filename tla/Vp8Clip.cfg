SPECIFICATION Spec
CONSTANTS
  MaxQ = 127
  QTrans <- q_trans
  MinQ <- MCMinQ
  BitsPerMb <- vp8_bits_per_mb
  KfBoostQAdjustment <- kf_boost_qadjustment
  NiDamping = 1
  RcfOne = 40
  RcfMin = 1
  RcfMax = 2000
  Configs <- CoreConfigs
  FrameSizes = {0}
  MaxCalls = 5
INVARIANTS
  BufferWithinMaximum
CHECK_DEADLOCK FALSE
