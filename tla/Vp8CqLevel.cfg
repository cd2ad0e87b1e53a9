SPECIFICATION Spec
CONSTANTS
  MaxQ = 127
  QTrans <- q_trans
  MinQ <- MCMinQ
  BitsPerMb <- vp8_bits_per_mb
  KfBoostQAdjustment <- kf_boost_qadjustment
  NiDamping = 1
  RcfOne = 40
  RcfMin = 1
  RcfMax = 2000
  Configs <- OneConfig
  FrameSizes = {150}
  MaxCalls = 10
INVARIANTS
  NoReadOutsideTable
CHECK_DEADLOCK FALSE
