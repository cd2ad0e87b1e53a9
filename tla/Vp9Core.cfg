SPECIFICATION Spec
CONSTANTS
  MaxQ = 255
  QuantizerToQindex <- quantizer_to_qindex
  AcQLookup <- ac_qlookup
  KfMinQ <- kf_high_motion_minq
  RtcMinQ <- rtc_minq
  RcfOne = 200
  RcfMin = 1
  RcfMax = 10000
  Configs <- CoreConfigs
  FrameSizes = {20, 600}
  MaxFrames = 3
  MaxUpdates = 1
INVARIANTS
  TypeOK
  QpInRange
  LayersKeepTheirSizes
  KeyQualityShared
  FeedbackMonotone
  MoreBitsFinerQ
PROPERTIES
  LayersIsolated
  RepeatedUpdateKeepsBuckets
  EngineContract
  Buckets
CHECK_DEADLOCK FALSE
