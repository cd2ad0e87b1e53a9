SPECIFICATION Spec
CONSTANTS
  MaxQ = 255
  QuantizerToQindex <- av1_quantizer_to_qindex
  AcQLookup <- ac_qlookup_QTX
  RtcMinQ <- rtc_minq_8
  RcfOne = 200
  RcfMin = 1
  RcfMax = 10000
  RcfInter = 140
  Configs <- LeakyConfigs
  FrameSizes = {10, 600}
  MaxFrames = 6
  MaxUpdates = 1
PROPERTY LeakyBucket
CHECK_DEADLOCK FALSE
