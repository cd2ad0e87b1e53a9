------------------------ MODULE Vp8RateControl_proofs -----------------------
(***************************************************************************)
(* Proofs about Vp8RateControl, for all tables, configurations, frame      *)
(* sizes and numbers of calls that satisfy the module's assumptions.       *)
(***************************************************************************)
EXTENDS Vp8RateControl, Arithmetic_proofs, TLAPS

-----------------------------------------------------------------------------
(* The operators of the model. *)

\* regulate_q stays in the range it is given, whatever the bits table holds.
LEMMA RegulateQInRange ==
  ASSUME NEW ft, NEW target, NEW rcf, NEW best \in Nat, NEW worst \in Nat,
         best <= worst
  PROVE  RegulateQ(ft, target, best, worst, rcf) \in best .. worst
<1> DEFINE fits == {q \in best .. worst : BitsAt(ft, q, rcf) <= target}
           first == CHOOSE q \in fits : \A p \in fits : q <= p
<1>1. CASE fits = {}
  BY <1>1 DEF RegulateQ
<1>2. CASE fits # {}
  <2>1. \E m \in fits : \A p \in fits : m <= p
    <3>1. fits \in SUBSET Nat
      OBVIOUS
    <3> HIDE DEF fits
    <3>2. QED
      BY <1>2, <3>1, LeastElement
  <2>2. first \in fits
    BY <2>1
  <2>3. first \in best .. worst
    BY <2>2
  <2>4. RegulateQ(ft, target, best, worst, rcf) \in {first} \cup
          (IF first = best THEN {} ELSE {first - 1})
    BY <1>2 DEF RegulateQ
  <2> HIDE DEF first
  <2>5. QED
    BY <2>3, <2>4
<1>3. QED
  BY <1>1, <1>2

-----------------------------------------------------------------------------
(* What the operators return in a well-typed state. *)

LEMMA DerivedTyped ==
  ASSUME NEW c \in Configs, NEW cq, ReadsInTable(c, cq)
  PROVE  Derived(c) \in DerivedConfig
<1>1. c \in Config
  BY ParameterAssumption
<1>2. QTrans[c.max_quantizer] \in 0 .. MaxQ /\ QTrans[c.min_quantizer] \in 0 .. MaxQ
  BY TableAssumption DEF ReadsInTable
<1>3. \A ms \in Nat, b \in Nat :
        BufferBits(ms, b) \in Nat /\ BufferBitsOrDefault(ms, b) \in Nat
  BY ProductNat, DivNat DEF BufferBits, BufferBitsOrDefault
<1>4. c.width \div 16 \in Nat /\ c.height \div 16 \in Nat
  BY <1>1, DivNat DEF Config
<1>5. Macroblocks(c) \in Nat
  BY <1>4, ProductNat DEF Macroblocks
<1> DEFINE bandwidth == 1000 * c.target_bandwidth
<1>6. bandwidth \in Nat
  BY <1>1 DEF Config
<1>7. /\ BufferBits(c.buf_initial_sz, bandwidth) \in Nat
      /\ BufferBitsOrDefault(c.buf_optimal_sz, bandwidth) \in Nat
      /\ BufferBitsOrDefault(c.buf_sz, bandwidth) \in Nat
  BY <1>1, <1>3, <1>6 DEF Config
<1>8. /\ (IF c.framerate = 0 THEN 30 ELSE c.framerate) \in Nat \ {0}
      /\ c.undershoot_pct \in Int /\ c.overshoot_pct \in Int
  BY <1>1 DEF Config
<1>9. QED
  BY <1>2, <1>5, <1>6, <1>7, <1>8 DEF Derived, DerivedConfig

LEMMA BandwidthNat ==
  ASSUME TypeOK
  PROVE  /\ per_frame_bandwidth \in Nat /\ MinFrameTarget \in Nat
         /\ MinFrameTarget <= per_frame_bandwidth
<1>1. per_frame_bandwidth \in Nat
  BY DivNat DEF per_frame_bandwidth, TypeOK, DerivedConfig
<1>2. QED
  BY <1>1, DivNat, DivBounds DEF MinFrameTarget

\* Recovery takes no more than is owed and leaves a quarter of the frame.
LEMMA RecoveryBounds ==
  ASSUME TypeOK
  PROVE  /\ KfRecovery \in 0 .. kf_overspend_bits
         /\ KfRecovery <= per_frame_bandwidth - MinFrameTarget
         /\ \A t \in Int : GfRecovery(t) \in 0 .. gf_overspend_bits
  BY BandwidthNat DEF TypeOK, KfRecovery, GfRecovery, Least, non_gf_bitrate_adjustment

LEMMA KeyTargetInt ==
  ASSUME TypeOK
  PROVE  KeyTarget \in Int
<1>1. oxcf.framerate \in Nat \ {0} /\ oxcf.starting_buffer_level \in Nat
      /\ oxcf.target_bandwidth \in Nat
  BY DEF TypeOK, DerivedConfig
<1>2. KfBoostQAdjustment[avg_frame_qindex] \in Nat
  BY TableAssumption DEF TypeOK
<1> DEFINE initial == Greatest(32, 2 * oxcf.framerate - 16)
           byQ == (initial * KfBoostQAdjustment[avg_frame_qindex]) \div 100
           spaced == IF 2 * frames_since_key < oxcf.framerate
                     THEN (2 * byQ * frames_since_key) \div oxcf.framerate ELSE byQ
<1>3. initial \in Nat
  BY <1>1 DEF Greatest
<1>4. byQ \in Nat
  <2> HIDE DEF initial
  <2>1. initial * KfBoostQAdjustment[avg_frame_qindex] \in Nat
    BY <1>2, <1>3, ProductNat
  <2>2. QED
    BY <2>1, DivNat
<1>5. spaced \in Nat
  <2> HIDE DEF byQ
  <2>1. 2 * byQ * frames_since_key \in Nat
    BY <1>4, ProductNat DEF TypeOK
  <2>2. QED
    BY <1>1, <1>4, <2>1, DivNat
<1>6. KeyBoost \in Nat
  <2>1. KeyBoost = Greatest(16, spaced)
    BY DEF KeyBoost
  <2> HIDE DEF spaced
  <2>2. QED
    BY <1>5, <2>1 DEF Greatest
<1>7. ((16 + KeyBoost) * per_frame_bandwidth) \div 16 \in Int
  <2>1. (16 + KeyBoost) * per_frame_bandwidth \in Nat
    BY <1>6, BandwidthNat, ProductNat
  <2>2. QED
    BY <2>1, DivNat
<1>8. Least(oxcf.starting_buffer_level \div 2, (oxcf.target_bandwidth * 3) \div 2) \in Int
  BY <1>1, DivNat DEF Least
<1>9. QED
  BY <1>7, <1>8 DEF KeyTarget, rc_max_intra_bitrate_pct

\* The division by the bytes coded so far is never taken when the levels agree.
LEMMA InterTargetInt ==
  ASSUME TypeOK, LevelsAgree
  PROVE  InterTarget(buffer_level, bits_off_target) \in Int
<1> DEFINE level == buffer_level
           optimal == oxcf.optimal_buffer_level
<1>1. /\ optimal \in Nat /\ level \in Int /\ level = bits_off_target
      /\ oxcf.under_shoot_pct \in Int /\ oxcf.over_shoot_pct \in Int
  BY DEF TypeOK, DerivedConfig, LevelsAgree
<1>2. BaseTarget \in Int
  BY BandwidthNat, RecoveryBounds DEF BaseTarget, Greatest, TypeOK
<1>3. OnePercentBits \in Nat \ {0}
  BY <1>1, DivNat DEF OnePercentBits
<1>4. \A p, limit \in Int : Percentage(p, limit) \in Int
  BY DEF Percentage, Greatest
<1>5. CASE ~buffered_mode
  BY <1>2, <1>5 DEF InterTarget
<1>6. CASE buffered_mode /\ level < optimal
  <2>1. (optimal - level) \div OnePercentBits \in Int
    BY <1>1, <1>3, DivBounds
  <2>2. PercentLow(level, bits_off_target) \in Int
    BY <1>1, <1>4, <1>6, <2>1 DEF PercentLow
  <2>3. InterTarget(level, bits_off_target)
          = BaseTarget - Quotient(BaseTarget * PercentLow(level, bits_off_target), 200)
    BY <1>6 DEF InterTarget, BelowOptimal
  <2>4. QED
    BY <1>2, <2>2, <2>3, QuotientInt
<1>7. CASE buffered_mode /\ level >= optimal
  <2>1. (level - optimal) \div OnePercentBits \in Int
    BY <1>1, <1>3, DivBounds
  <2>2. PercentHigh(level, bits_off_target) \in Int
    <3>1. CASE level > optimal
      BY <1>1, <1>4, <2>1, <3>1 DEF PercentHigh
    <3>2. CASE level = optimal
      <4>1. ~(bits_off_target > optimal) /\ ~(level > optimal)
        BY <1>1, <3>2
      <4>2. PercentHigh(level, bits_off_target) = Percentage(0, oxcf.over_shoot_pct)
        BY <4>1 DEF PercentHigh
      <4>3. QED
        BY <1>1, <4>2 DEF Percentage, Greatest
    <3>3. QED
      BY <1>1, <1>7, <3>1, <3>2
  <2>3. InterTarget(level, bits_off_target)
          = BaseTarget + Quotient(BaseTarget * PercentHigh(level, bits_off_target), 200)
    BY <1>1, <1>7 DEF InterTarget, BelowOptimal
  <2>4. QED
    BY <1>2, <2>2, <2>3, QuotientInt
<1>8. QED
  BY <1>1, <1>5, <1>6, <1>7

LEMMA TargetInt ==
  ASSUME TypeOK, LevelsAgree, NEW ft \in FrameTypes
  PROVE  Target(ft) \in Int
  BY KeyTargetInt, InterTargetInt DEF Target, FrameTypes

-----------------------------------------------------------------------------
(* The range of indices of the next frame. *)

LEMMA OxcfTyped ==
  ASSUME TypeOK
  PROVE  /\ oxcf.worst_quality \in 0 .. MaxQ /\ oxcf.best_quality \in 0 .. MaxQ
         /\ oxcf.optimal_buffer_level \in Nat /\ oxcf.maximum_buffer_size \in Nat
         /\ MaxQ \in Nat /\ ni_av_qi \in 0 .. MaxQ
         /\ active_best_quality \in 0 .. MaxQ
         /\ buffer_level \in Int /\ bits_off_target \in Int
  BY TableAssumption DEF TypeOK, DerivedConfig

\* The steered worst index lies between the average index and the worst quality.
LEMMA SteeredWorstBetween ==
  ASSUME TypeOK, NEW level \in Int, NEW bits \in Int
  PROVE  /\ SteeredWorst(level, bits) \in Int
         /\ \/ /\ ni_av_qi <= SteeredWorst(level, bits)
               /\ SteeredWorst(level, bits) <= oxcf.worst_quality
            \/ /\ oxcf.worst_quality <= SteeredWorst(level, bits)
               /\ SteeredWorst(level, bits) <= ni_av_qi
<1> DEFINE critical == Least(level, bits)
           optimal == oxcf.optimal_buffer_level
           quarter == optimal \div 4
           r == oxcf.worst_quality - ni_av_qi
           d == (optimal * 3) \div 4
<1>1. oxcf.worst_quality \in Nat /\ ni_av_qi \in Nat /\ optimal \in Nat /\ r \in Int
  BY OxcfTyped
<1>2. critical \in Int
  BY DEF Least
<1>3. CASE ~BelowOptimal(level, bits) \/ ~(critical > quarter)
  BY <1>1, <1>3 DEF SteeredWorst
<1>4. CASE BelowOptimal(level, bits) /\ critical > quarter
  <2>1. critical < optimal
    BY <1>1, <1>4 DEF BelowOptimal, Least
  <2>2. critical - quarter \in Nat /\ d \in Nat \ {0} /\ critical - quarter <= d
    <3> HIDE DEF critical
    <3>1. QED
      BY <1>1, <1>2, <1>4, <2>1
  <2>3. SteeredWorst(level, bits)
          = oxcf.worst_quality - Quotient(r * (critical - quarter), d)
    BY <1>4 DEF SteeredWorst
  <2> HIDE DEF critical, quarter, d
  <2>4. /\ Quotient(r * (critical - quarter), d) \in Int
        /\ r >= 0 => /\ Quotient(r * (critical - quarter), d) >= 0
                     /\ Quotient(r * (critical - quarter), d) <= r
        /\ r <= 0 => /\ Quotient(r * (critical - quarter), d) <= 0
                     /\ Quotient(r * (critical - quarter), d) >= r
    BY <1>1, <2>2, FractionBetween
  <2>5. QED
    BY <1>1, <2>3, <2>4
<1>5. QED
  BY <1>3, <1>4

LEMMA MinQTyped ==
  ASSUME NEW ft \in FrameTypes, NEW q \in 0 .. MaxQ
  PROVE  MinQ[ft][q] \in 0 .. MaxQ /\ MinQ[ft][q] <= Greatest(0, q - 1)
<1>1. MinQ[ft] \in [0 .. MaxQ -> 0 .. MaxQ]
  BY TableAssumption
<1>2. MinQ[ft][q] <= Greatest(0, q - 1)
  BY TableAssumption
<1>3. QED
  BY <1>1, <1>2

LEMMA PickedInTable ==
  ASSUME TypeOK, NEW ft \in FrameTypes
  PROVE  PickedWorst(ft) \in 0 .. MaxQ /\ PickedBest(ft) \in 0 .. MaxQ
<1>1. buffer_level \in Int /\ bits_off_target \in Int
  BY DEF TypeOK
<1> DEFINE steered == SteeredWorst(buffer_level, bits_off_target)
<1>2. steered \in 0 .. MaxQ
  <2>1. /\ steered \in Int
        /\ \/ ni_av_qi <= steered /\ steered <= oxcf.worst_quality
           \/ oxcf.worst_quality <= steered /\ steered <= ni_av_qi
    BY <1>1, SteeredWorstBetween
  <2> HIDE DEF steered
  <2>2. QED
    BY <2>1, OxcfTyped
<1> HIDE DEF steered
<1>3. InterWorst(buffer_level, bits_off_target) \in 0 .. MaxQ
  BY <1>2, OxcfTyped DEF InterWorst, steered, Least, Greatest
<1>4. QED
  BY <1>3, OxcfTyped DEF PickedWorst, PickedBest

\* Relieving a full buffer never raises the worst index above what it was
\* given, nor takes it below the best one.
LEMMA RelievedBetween ==
  ASSUME TypeOK, NEW worst \in Nat, NEW best \in Nat
  PROVE  /\ RelievedWorst(worst, best) \in Nat
         /\ RelievedWorst(worst, best) <= Greatest(best, worst)
         /\ RelievedWorst(worst, best) \in {worst} \/ best <= RelievedWorst(worst, best)
<1> DEFINE quarter == worst \div 4
           room == oxcf.maximum_buffer_size - oxcf.optimal_buffer_level
           step == room \div quarter
           above == buffer_level - oxcf.optimal_buffer_level
<1>1. buffer_level \in Int
  BY DEF TypeOK
<1>2. CASE /\ buffer_level >= oxcf.optimal_buffer_level /\ buffered_mode
           /\ worst \div 4 > 0
  <2>1. quarter \in Nat \ {0} /\ above \in Nat
    BY <1>1, <1>2, OxcfTyped, DivNat
  <2>2. FullnessAdjustment(worst) \in Nat
    <3>1. CASE buffer_level >= oxcf.maximum_buffer_size
      BY <2>1, <3>1 DEF FullnessAdjustment
    <3>2. CASE buffer_level < oxcf.maximum_buffer_size
      <4>1. room \in Nat
        BY <1>1, <1>2, <3>2, OxcfTyped
      <4>2. step \in Nat
        <5> HIDE DEF room, quarter
        <5>1. QED
          BY <2>1, <4>1, DivNat
      <4>3. CASE step = 0
        BY <1>1, <3>2, <4>3, OxcfTyped DEF FullnessAdjustment
      <4>4. CASE step # 0
        <5>1. above \div step \in Nat
          <6> HIDE DEF above, step
          <6>1. QED
            BY <2>1, <4>2, <4>4, DivNat
        <5>2. FullnessAdjustment(worst) = above \div step
          BY <1>1, <3>2, <4>4, OxcfTyped DEF FullnessAdjustment
        <5>3. QED
          BY <5>1, <5>2
      <4>5. QED
        BY <4>3, <4>4
    <3>3. QED
      BY <1>1, <3>1, <3>2, OxcfTyped
  <2>3. RelievedWorst(worst, best) = Greatest(best, worst - FullnessAdjustment(worst))
    BY <1>2 DEF RelievedWorst
  <2>4. QED
    BY <2>2, <2>3 DEF Greatest
<1>3. CASE ~(/\ buffer_level >= oxcf.optimal_buffer_level /\ buffered_mode
             /\ worst \div 4 > 0)
  BY <1>3 DEF RelievedWorst, Greatest
<1>4. QED
  BY <1>2, <1>3

\* The adapted best index is the previous one, the configured one, or lies
\* between the configured one and the entry of the table.
LEMMA AdaptedBestBetween ==
  ASSUME TypeOK, NEW ft \in FrameTypes, NEW worst \in 0 .. MaxQ, NEW best \in 0 .. MaxQ
  PROVE  /\ AdaptedBest(ft, worst, best) \in Nat
         /\ \/ AdaptedBest(ft, worst, best) \in {best, oxcf.best_quality}
            \/ AdaptedBest(ft, worst, best) <= MinQ[ft][worst]
            \/ AdaptedBest(ft, worst, best) <= oxcf.best_quality
<1> DEFINE entry == MinQ[ft][worst]
           span == oxcf.maximum_buffer_size - oxcf.optimal_buffer_level
           above == buffer_level - oxcf.optimal_buffer_level
           fraction == (above * 128) \div span
           r == entry - oxcf.best_quality
<1>1. entry \in 0 .. MaxQ /\ oxcf.best_quality \in 0 .. MaxQ /\ MaxQ \in Nat
  BY OxcfTyped, TableAssumption
<1>2. buffer_level \in Int
  BY DEF TypeOK
<1>3. CASE \/ ni_frames <= NiDamping
           \/ buffer_level >= oxcf.maximum_buffer_size
           \/ ~(buffer_level > oxcf.optimal_buffer_level)
  BY <1>1, <1>3 DEF AdaptedBest
<1>4. CASE /\ ~(ni_frames <= NiDamping)
           /\ ~(buffer_level >= oxcf.maximum_buffer_size)
           /\ buffer_level > oxcf.optimal_buffer_level
  <2>1. span \in Nat \ {0} /\ above \in Nat /\ above <= span
    BY <1>2, <1>4, OxcfTyped
  <2>2. fraction \in Nat /\ fraction <= 128
    <3> HIDE DEF span, above
    <3>1. above * 128 \in Nat /\ above * 128 <= 128 * span
      BY <2>1
    <3>2. QED
      BY <2>1, <3>1, DivNat, DivAtMost
  <2>3. AdaptedBest(ft, worst, best) = entry - Quotient(r * fraction, 128)
    BY <1>4 DEF AdaptedBest
  <2> HIDE DEF fraction
  <2>4. r \in Int
    BY <1>1
  <2>5. /\ Quotient(r * fraction, 128) \in Int
        /\ r >= 0 => /\ Quotient(r * fraction, 128) >= 0
                     /\ Quotient(r * fraction, 128) <= r
        /\ r <= 0 => /\ Quotient(r * fraction, 128) <= 0
                     /\ Quotient(r * fraction, 128) >= r
    BY <2>2, <2>4, FractionBetween
  <2>6. QED
    BY <1>1, <2>3, <2>5
<1>5. QED
  BY <1>3, <1>4

\* The range regulate_q searches is a nonempty range of table indices.
LEMMA ActiveRange ==
  ASSUME TypeOK, NEW ft \in FrameTypes
  PROVE  /\ ActiveBest(ft) \in 0 .. MaxQ /\ ActiveWorst(ft) \in 0 .. MaxQ
         /\ ActiveBest(ft) <= ActiveWorst(ft)
<1> DEFINE worst == RelievedWorst(PickedWorst(ft), PickedBest(ft))
           best == AdaptedBest(ft, worst, PickedBest(ft))
<1>1. PickedWorst(ft) \in 0 .. MaxQ /\ PickedBest(ft) \in 0 .. MaxQ
  BY PickedInTable
<1>2. worst \in 0 .. MaxQ
  <2>1. PickedWorst(ft) \in Nat /\ PickedBest(ft) \in Nat
    BY <1>1, OxcfTyped
  <2>2. worst \in Nat /\ worst <= Greatest(PickedBest(ft), PickedWorst(ft))
    BY <2>1, RelievedBetween
  <2> HIDE DEF worst
  <2>3. QED
    BY <1>1, <2>2, OxcfTyped DEF Greatest
<1> HIDE DEF worst
<1>3. MinQ[ft][worst] \in 0 .. MaxQ
  BY <1>2, MinQTyped
<1>4. best \in 0 .. MaxQ
  <2>1. /\ best \in Nat
        /\ \/ best \in {PickedBest(ft), oxcf.best_quality}
           \/ best <= MinQ[ft][worst]
           \/ best <= oxcf.best_quality
    BY <1>1, <1>2, AdaptedBestBetween
  <2> HIDE DEF best
  <2>2. QED
    BY <1>1, <1>3, <2>1, OxcfTyped
<1>5. ActiveBest(ft) = Greatest(oxcf.best_quality, best)
  BY DEF ActiveBest, worst
<1>6. ActiveWorst(ft) = Greatest(ActiveBest(ft), Least(oxcf.worst_quality, worst))
  BY DEF ActiveWorst, worst
<1> HIDE DEF best
<1>7. QED
  BY <1>2, <1>4, <1>5, <1>6, OxcfTyped DEF Greatest, Least

-----------------------------------------------------------------------------
(* What a coded frame does to the rate model and to the averages. *)

\* The correction factor never leaves its limits, though each of the two
\* corrections tests only one of them.
LEMMA CorrectedRcfBounded ==
  ASSUME TypeOK, NEW bits \in Nat
  PROVE  CorrectedRcf(bits) \in RcfMin .. RcfMax
<1> DEFINE rcf == rate_correction_factor[frame_type]
           table == BitsPerMb[frame_type][base_qindex]
           actual == IF ExpectedBits > 0 THEN (100 * bits) \div ExpectedBits ELSE 100
           raise == 100 + (actual - 98) \div 4
           lower == (302 + actual) \div 4
<1>1. rcf \in RcfMin .. RcfMax /\ RcfMin \in Nat /\ RcfMax \in Nat
      /\ RcfOne \in Nat \ {0} /\ rcf \in Nat
  BY ParameterAssumption DEF TypeOK
<1>2. table \in Nat /\ oxcf.MBs \in Nat
  <2>1. /\ frame_type \in FrameTypes /\ base_qindex \in 0 .. MaxQ
        /\ oxcf.MBs \in Nat
    BY DEF TypeOK, DerivedConfig
  <2>2. BitsPerMb[frame_type] \in [0 .. MaxQ -> Nat]
    BY <2>1, TableAssumption
  <2>3. QED
    BY <2>1, <2>2
<1>3. ExpectedBits \in Nat
  <2>1. RcfOne \div 2 + rcf * table \in Nat
    <3>1. RcfOne \div 2 \in Nat
      BY <1>1, DivNat
    <3>2. rcf * table \in Nat
      BY <1>1, <1>2, ProductNat
    <3>3. QED
      BY <3>1, <3>2
  <2>2. (RcfOne \div 2 + rcf * table) * oxcf.MBs \in Nat
    BY <1>2, <2>1, ProductNat
  <2>3. 512 * RcfOne \in Nat \ {0}
    BY <1>1
  <2>4. ExpectedBits = ((RcfOne \div 2 + rcf * table) * oxcf.MBs) \div (512 * RcfOne)
    BY DEF ExpectedBits
  <2>5. QED
    BY <2>2, <2>3, <2>4, DivNat
<1>4. actual \in Nat
  BY <1>3, DivNat
<1>5. CorrectedRcf(bits) = IF actual > 102 THEN Least(RcfMax, (rcf * raise) \div 100)
                           ELSE IF actual < 99 THEN Greatest(RcfMin, (rcf * lower) \div 100)
                           ELSE rcf
  BY DEF CorrectedRcf
<1> HIDE DEF rcf, actual
<1>6. CASE actual > 102
  <2>1. raise \in Nat /\ 100 <= raise
    BY <1>4, <1>6
  <2> HIDE DEF raise
  <2>2. rcf * raise \in Nat /\ rcf * 100 <= rcf * raise
    BY <1>1, <2>1, TimesMonotone
  <2>3. (rcf * raise) \div 100 \in Nat /\ rcf <= (rcf * raise) \div 100
    BY <1>1, <2>2, DivNat, DivAtLeast
  <2>4. QED
    BY <1>1, <1>5, <1>6, <2>3 DEF Least
<1>7. CASE actual < 99
  <2>1. lower \in Nat /\ lower <= 100
    BY <1>4, <1>7
  <2> HIDE DEF lower
  <2>2. rcf * lower \in Nat /\ rcf * lower <= rcf * 100
    BY <1>1, <2>1, TimesMonotone
  <2>3. (rcf * lower) \div 100 \in Nat /\ (rcf * lower) \div 100 <= rcf
    BY <1>1, <2>2, DivNat, DivAtMost
  <2>4. QED
    BY <1>1, <1>4, <1>5, <1>7, <2>3 DEF Greatest
<1>8. CASE ~(actual > 102) /\ ~(actual < 99)
  BY <1>1, <1>5, <1>8
<1>9. QED
  BY <1>6, <1>7, <1>8

LEMMA KeyFrameFrequencyPositive ==
  ASSUME TypeOK
  PROVE  KeyDistances \in [1 .. 5 -> Nat] /\ KeyFrameFrequency \in Nat \ {0}
<1>1. /\ prior_key_frame_distance \in [1 .. 5 -> Nat]
      /\ oxcf.framerate \in Nat \ {0} /\ frames_since_key \in Nat
      /\ key_frame_count \in Nat
  BY DEF TypeOK, DerivedConfig
<1>2. Least(30, 1 + 2 * oxcf.framerate) \in Nat \ {0} /\ LastKeyInterval \in Nat
  BY <1>1 DEF Least, LastKeyInterval
<1>3. KeyDistances \in [1 .. 5 -> Nat]
  BY <1>1, <1>2 DEF KeyDistances
<1>4. CASE key_frame_count = 1
  <2>1. KeyDistances[5] = Least(30, 1 + 2 * oxcf.framerate)
    BY <1>1, <1>4 DEF KeyDistances
  <2>2. QED
    BY <1>2, <1>3, <1>4, <2>1 DEF KeyFrameFrequency
<1>5. CASE key_frame_count # 1
  <2> DEFINE d == KeyDistances
             total == d[1] + 2 * d[2] + 3 * d[3] + 4 * d[4] + 5 * d[5]
  <2>1. total \in Nat
    <3>1. d[1] \in Nat /\ d[2] \in Nat /\ d[3] \in Nat /\ d[4] \in Nat /\ d[5] \in Nat
      BY <1>3
    <3>2. QED
      BY <3>1
  <2>2. KeyFrameFrequency = Greatest(1, total \div 15)
    BY <1>5 DEF KeyFrameFrequency
  <2> HIDE DEF total
  <2>3. total \div 15 \in Nat
    BY <2>1, DivNat
  <2>4. QED
    BY <1>3, <2>2, <2>3 DEF Greatest
<1>6. QED
  BY <1>4, <1>5

LEMMA AverageQInTable ==
  ASSUME TypeOK, NEW frames \in Nat \ {0}, NEW total \in Nat, total <= frames * MaxQ
  PROVE  AverageQ(frames, total) \in 0 .. MaxQ
<1> DEFINE plain == total \div frames
<1>1. /\ base_qindex \in 0 .. MaxQ /\ oxcf.worst_quality \in 0 .. MaxQ /\ MaxQ \in Nat
  BY TableAssumption DEF TypeOK, DerivedConfig
<1>2. plain \in Nat /\ plain <= MaxQ
  BY <1>1, DivNat, DivAtMost
<1>3. AverageQ(frames, total) =
        LET mean == IF frames > NiDamping THEN plain
                    ELSE (plain + oxcf.worst_quality + 1) \div 2
        IN  IF base_qindex > mean THEN base_qindex - 1 ELSE mean
  BY DEF AverageQ
<1> HIDE DEF plain
<1>4. QED
  BY <1>1, <1>2, <1>3

-----------------------------------------------------------------------------
(* Invariants for any client. *)

\* The sum behind the average never exceeds the coarsest index per frame.
TotalInTable == ni_tot_qi <= ni_frames * MaxQ

AnyInv == TypeOK /\ LevelsAgree /\ TotalInTable

LEMMA InitAnyInv == Init => AnyInv
<1> SUFFICES ASSUME Init PROVE AnyInv
  OBVIOUS
<1>1. MaxQ \in Nat
  BY TableAssumption
<1>2. RcfOne \in RcfMin .. RcfMax
  BY ParameterAssumption
<1>3. oxcf \in DerivedConfig
  BY <1>1 DEF Init, DerivedConfig
<1>4. rate_correction_factor \in [FrameTypes -> RcfMin .. RcfMax]
  BY <1>2 DEF Init
<1>5. QED
  BY <1>1, <1>3, <1>4 DEF Init, AnyInv, TypeOK, LevelsAgree, TotalInTable, FrameTypes

LEMMA InstallAnyInv ==
  ASSUME AnyInv, NEW c \in Configs, NEW cq, NEW size \in Nat \X Nat,
         ReadsInTable(c, cq), Install(c, cq, size),
         phase' \in {"created", "idle", "computed"}, calls' \in Nat, fault' = fault
  PROVE  AnyInv'
<1>1. TypeOK
  BY DEF AnyInv
<1>2. oxcf' \in DerivedConfig
  BY DerivedTyped DEF Install
<1>3. /\ oxcf'.worst_quality \in 0 .. MaxQ /\ oxcf'.best_quality \in 0 .. MaxQ
      /\ oxcf'.starting_buffer_level \in Nat /\ oxcf'.framerate \in Nat
      /\ MaxQ \in Nat
  BY <1>2, TableAssumption DEF DerivedConfig
<1>4. cq_level' \in Nat
  <2>1. QTrans[cq] \in 0 .. MaxQ
    BY TableAssumption DEF ReadsInTable
  <2>2. QED
    BY <1>3, <2>1 DEF Install
<1>5. /\ frame_type' \in FrameTypes /\ base_qindex' \in 0 .. MaxQ
      /\ active_worst_quality' \in 0 .. MaxQ /\ active_best_quality' \in 0 .. MaxQ
      /\ this_frame_target' \in Int /\ projected_frame_size' \in Nat
  BY <1>1, <1>3 DEF Install, TypeOK, FrameTypes
<1>6. /\ bits_off_target' \in Int /\ buffer_level' \in Int /\ total_byte_count' \in Nat
      /\ kf_overspend_bits' \in Nat /\ gf_overspend_bits' \in Nat
      /\ kf_bitrate_adjustment' \in Nat /\ buffer_level' = bits_off_target'
  BY <1>1, <1>3 DEF Install, TypeOK, debt
<1>7. rate_correction_factor' \in [FrameTypes -> RcfMin .. RcfMax]
  BY ParameterAssumption DEF Install
<1>8. /\ ni_frames' \in Nat /\ ni_tot_qi' \in Nat /\ ni_av_qi' \in 0 .. MaxQ
      /\ avg_frame_qindex' \in 0 .. MaxQ /\ ni_tot_qi' <= ni_frames' * MaxQ
  BY <1>3 DEF Install
<1>9. /\ current_video_frame' \in Nat /\ frames_since_key' \in Nat
      /\ key_frame_count' \in Nat /\ prior_key_frame_distance' \in [1 .. 5 -> Nat]
      /\ initial_size' \in Nat \X Nat
  BY <1>1, <1>3 DEF Install, TypeOK
<1>10. fault' \in {"none", "assertion", "division_by_zero", "out_of_bounds"}
  BY <1>1 DEF TypeOK
<1>11. QED
  BY <1>2, <1>4, <1>5, <1>6, <1>7, <1>8, <1>9, <1>10
     DEF AnyInv, TypeOK, LevelsAgree, TotalInTable

\* A call that leaves the engine alone.
LEMMA UnchangedAnyInv ==
  ASSUME AnyInv, UNCHANGED engine,
         phase' \in {"created", "idle", "computed"}, calls' \in Nat,
         fault' \in {"none", "assertion", "division_by_zero", "out_of_bounds"}
  PROVE  AnyInv'
<1>1. /\ UNCHANGED <<oxcf, cq_level, initial_size>>
      /\ UNCHANGED <<frame_type, base_qindex, active_worst_quality,
                     active_best_quality, this_frame_target>>
      /\ UNCHANGED <<bits_off_target, buffer_level, total_byte_count,
                     projected_frame_size>>
      /\ UNCHANGED <<kf_overspend_bits, gf_overspend_bits, kf_bitrate_adjustment>>
      /\ UNCHANGED rate_correction_factor
      /\ UNCHANGED <<ni_frames, ni_tot_qi, ni_av_qi, avg_frame_qindex>>
      /\ UNCHANGED <<current_video_frame, frames_since_key, key_frame_count,
                     prior_key_frame_distance>>
  BY DEF engine, config, choice, bucket, debt, average, keys
<1>2. QED
  BY <1>1 DEF AnyInv, TypeOK, LevelsAgree, TotalInTable

LEMMA ConfigureAnyInv ==
  ASSUME AnyInv, NEW c \in Configs, NEW cq, NEW size \in Nat \X Nat,
         Configure(c, cq, size),
         phase' \in {"created", "idle", "computed"}, calls' \in Nat
  PROVE  AnyInv'
<1>1. CASE ReadsInTable(c, cq) /\ fault' = fault /\ Install(c, cq, size)
  BY <1>1, InstallAnyInv
<1>2. CASE fault' \in {"assertion", "out_of_bounds"} /\ UNCHANGED engine
  BY <1>2, UnchangedAnyInv
<1>3. QED
  BY <1>1, <1>2 DEF Configure

\* Relaxing raises the worst index, and not past the configured quality.
LEMMA RelaxedWorstBetween ==
  ASSUME TypeOK, NEW q, NEW worst \in 0 .. MaxQ, NEW limit
  PROVE  /\ RelaxedWorst(q, worst, limit) \in worst .. MaxQ
         /\ \/ RelaxedWorst(q, worst, limit) = worst
            \/ RelaxedWorst(q, worst, limit) <= oxcf.worst_quality
<1> DEFINE percent == ((projected_frame_size - limit) * 100) \div limit
           steps == RelaxSteps[percent]
           room == oxcf.worst_quality - worst
<1>1. CASE RelaxedWorst(q, worst, limit) = worst
  BY <1>1, OxcfTyped
<1>2. CASE room > 0 /\ steps \in 1 .. room
           /\ RelaxedWorst(q, worst, limit) = worst + steps
  <2> HIDE DEF steps
  <2>1. QED
    BY <1>2, OxcfTyped
<1>3. CASE room > 0 /\ RelaxedWorst(q, worst, limit) = oxcf.worst_quality
  BY <1>3, OxcfTyped
<1>4. QED
  BY <1>1, <1>2, <1>3 DEF RelaxedWorst

LEMMA ComputeQpAnyInv ==
  ASSUME AnyInv, NEW ft \in FrameTypes, ComputeQp(ft)
  PROVE  AnyInv'
<1>1. TypeOK /\ LevelsAgree /\ TotalInTable
  BY DEF AnyInv
<1>2. calls' \in Nat
  BY <1>1 DEF ComputeQp, TypeOK
<1>3. CASE UNCHANGED <<phase, engine>> /\ fault' = "division_by_zero"
  BY <1>1, <1>2, <1>3, UnchangedAnyInv DEF TypeOK
<1>4. CASE ~(UNCHANGED <<phase, engine>> /\ fault' = "division_by_zero")
  <2>1. /\ phase' = "computed" /\ fault' = fault
        /\ frame_type' = ft
        /\ this_frame_target' = Target(ft)
        /\ active_best_quality' = ActiveBest(ft)
        /\ base_qindex' = RegulateQ(ft, TargetPerMb(Target(ft)), ActiveBest(ft),
                                    ActiveWorst(ft), rate_correction_factor[ft])
        /\ active_worst_quality' =
             RelaxedWorst(base_qindex', ActiveWorst(ft), OvershootLimit(ft, Target(ft)))
        /\ kf_overspend_bits' \in {kf_overspend_bits - KfRecovery, kf_overspend_bits}
        /\ gf_overspend_bits' \in
             {gf_overspend_bits - GfRecovery(per_frame_bandwidth - KfRecovery),
              gf_overspend_bits}
    BY <1>4 DEF ComputeQp
  <2>2. UNCHANGED <<config, bucket, kf_bitrate_adjustment,
                    rate_correction_factor, average, keys>>
    BY <1>4 DEF ComputeQp
  <2>3. Target(ft) \in Int
    BY <1>1, TargetInt
  <2>4. /\ ActiveBest(ft) \in 0 .. MaxQ /\ ActiveWorst(ft) \in 0 .. MaxQ
        /\ ActiveBest(ft) <= ActiveWorst(ft)
    BY <1>1, ActiveRange
  <2>5. base_qindex' \in ActiveBest(ft) .. ActiveWorst(ft)
    <3>1. ActiveBest(ft) \in Nat /\ ActiveWorst(ft) \in Nat
      BY <2>4
    <3>2. QED
      BY <2>1, <2>4, <3>1, RegulateQInRange
  <2>6. base_qindex' \in 0 .. MaxQ
    BY <1>1, <2>4, <2>5, OxcfTyped
  <2>7. active_worst_quality' \in 0 .. MaxQ
    <3>1. active_worst_quality' \in ActiveWorst(ft) .. MaxQ
      BY <1>1, <2>1, <2>4, RelaxedWorstBetween
    <3>2. QED
      BY <2>4, <3>1
  <2>8. kf_overspend_bits' \in Nat /\ gf_overspend_bits' \in Nat
    <3>1. per_frame_bandwidth - KfRecovery \in Int
      BY <1>1, BandwidthNat, RecoveryBounds DEF TypeOK
    <3>2. /\ KfRecovery \in 0 .. kf_overspend_bits
          /\ GfRecovery(per_frame_bandwidth - KfRecovery) \in 0 .. gf_overspend_bits
      BY <1>1, <3>1, RecoveryBounds
    <3>3. kf_overspend_bits \in Nat /\ gf_overspend_bits \in Nat
      BY <1>1 DEF TypeOK
    <3>4. QED
      BY <2>1, <3>2, <3>3
  <2>9. /\ UNCHANGED <<oxcf, cq_level, initial_size>>
        /\ UNCHANGED <<bits_off_target, buffer_level, total_byte_count,
                       projected_frame_size>>
        /\ UNCHANGED <<kf_bitrate_adjustment, rate_correction_factor>>
        /\ UNCHANGED <<ni_frames, ni_tot_qi, ni_av_qi, avg_frame_qindex>>
        /\ UNCHANGED <<current_video_frame, frames_since_key, key_frame_count,
                       prior_key_frame_distance>>
    BY <2>2 DEF config, bucket, average, keys
  <2>10. TypeOK'
    BY <1>1, <1>2, <2>1, <2>3, <2>4, <2>6, <2>7, <2>8, <2>9 DEF TypeOK
  <2>11. QED
    BY <1>1, <2>9, <2>10 DEF AnyInv, LevelsAgree, TotalInTable
<1>5. QED
  BY <1>3, <1>4

\* The debt of a key frame, and the distances kept to spread its recovery.
LEMMA AdjustKeyFrameContextTyped ==
  ASSUME TypeOK, NEW bits \in Nat, AdjustKeyFrameContext(bits)
  PROVE  /\ kf_overspend_bits' \in Nat /\ gf_overspend_bits' \in Nat
         /\ kf_bitrate_adjustment' \in Nat
         /\ prior_key_frame_distance' \in [1 .. 5 -> Nat]
         /\ key_frame_count' \in Nat /\ frames_since_key' \in Nat
<1> DEFINE overspend == bits - per_frame_bandwidth
<1>1. /\ kf_overspend_bits \in Nat /\ gf_overspend_bits \in Nat
      /\ kf_bitrate_adjustment \in Nat /\ key_frame_count \in Nat
      /\ prior_key_frame_distance \in [1 .. 5 -> Nat]
  BY DEF TypeOK
<1>2. key_frame_count' \in Nat /\ frames_since_key' \in Nat
  BY <1>1 DEF AdjustKeyFrameContext
<1>3. CASE overspend > 0
  <2>1. /\ kf_overspend_bits' = kf_overspend_bits + (overspend * 7) \div 8
        /\ gf_overspend_bits' = gf_overspend_bits + overspend \div 8
        /\ kf_bitrate_adjustment' = kf_overspend_bits' \div KeyFrameFrequency
        /\ prior_key_frame_distance' = KeyDistances
    BY <1>3 DEF AdjustKeyFrameContext
  <2>2. overspend \in Nat
    BY <1>3, BandwidthNat
  <2> HIDE DEF overspend
  <2>3. (overspend * 7) \div 8 \in Nat /\ overspend \div 8 \in Nat
    BY <2>2, DivNat
  <2>4. kf_overspend_bits' \in Nat /\ gf_overspend_bits' \in Nat
    BY <1>1, <2>1, <2>3
  <2>5. KeyDistances \in [1 .. 5 -> Nat] /\ KeyFrameFrequency \in Nat \ {0}
    BY KeyFrameFrequencyPositive
  <2>6. kf_bitrate_adjustment' \in Nat
    BY <2>1, <2>4, <2>5, DivNat
  <2>7. QED
    BY <1>2, <2>1, <2>4, <2>5, <2>6
<1>4. CASE ~(overspend > 0)
  BY <1>1, <1>2, <1>4 DEF AdjustKeyFrameContext, debt
<1>5. QED
  BY <1>3, <1>4

LEMMA AverageInterFrameTyped ==
  ASSUME TypeOK, TotalInTable, AverageInterFrame
  PROVE  /\ ni_frames' \in Nat /\ ni_tot_qi' \in Nat /\ ni_tot_qi' <= ni_frames' * MaxQ
         /\ ni_av_qi' \in 0 .. MaxQ /\ avg_frame_qindex' \in 0 .. MaxQ
         /\ frames_since_key' \in Nat
<1>1. /\ ni_frames \in Nat /\ ni_tot_qi \in Nat /\ frames_since_key \in Nat
      /\ base_qindex \in 0 .. MaxQ /\ avg_frame_qindex \in 0 .. MaxQ
      /\ ni_tot_qi <= ni_frames * MaxQ /\ MaxQ \in Nat
  BY OxcfTyped DEF TypeOK, TotalInTable
<1>2. /\ avg_frame_qindex' = (2 + 3 * avg_frame_qindex + base_qindex) \div 4
      /\ ni_frames' = ni_frames + 1
      /\ ni_tot_qi' = ni_tot_qi + base_qindex
      /\ ni_av_qi' = AverageQ(ni_frames', ni_tot_qi')
      /\ frames_since_key' = frames_since_key + 1
  BY DEF AverageInterFrame
<1>3. ni_frames' \in Nat \ {0} /\ ni_tot_qi' \in Nat
  BY <1>1, <1>2
<1>4. ni_tot_qi' <= ni_frames' * MaxQ
  <2>1. (ni_frames + 1) * MaxQ = ni_frames * MaxQ + MaxQ
    BY <1>1
  <2>2. QED
    BY <1>1, <1>2, <2>1
<1>5. ni_av_qi' \in 0 .. MaxQ
  BY <1>2, <1>3, <1>4, AverageQInTable
<1>6. avg_frame_qindex' \in 0 .. MaxQ
  BY <1>1, <1>2
<1>7. QED
  BY <1>1, <1>2, <1>3, <1>4, <1>5, <1>6

LEMMA PostEncodeUpdateAnyInv ==
  ASSUME AnyInv, NEW size \in FrameSizes, PostEncodeUpdate(size)
  PROVE  AnyInv'
<1>1. TypeOK /\ LevelsAgree /\ TotalInTable
  BY DEF AnyInv
<1>2. size \in Nat
  BY ParameterAssumption
<1> DEFINE bits == 8 * size
<1>3. bits \in Nat
  BY <1>2
<1>4. calls' \in Nat /\ phase' = "idle" /\ fault' = fault
  BY <1>1 DEF PostEncodeUpdate, TypeOK
<1>5. total_byte_count' \in Nat /\ projected_frame_size' \in Nat
      /\ current_video_frame' \in Nat
  BY <1>1, <1>2 DEF PostEncodeUpdate, TypeOK
<1>6. rate_correction_factor' \in [FrameTypes -> RcfMin .. RcfMax]
  <2>1. rate_correction_factor' =
          [rate_correction_factor EXCEPT ![frame_type] = CorrectedRcf(bits)]
    BY DEF PostEncodeUpdate
  <2>2. CorrectedRcf(bits) \in RcfMin .. RcfMax
    BY <1>1, <1>3, CorrectedRcfBounded
  <2>3. rate_correction_factor \in [FrameTypes -> RcfMin .. RcfMax]
    BY <1>1 DEF TypeOK
  <2>4. QED
    BY <2>1, <2>2, <2>3
<1>7. bits_off_target' \in Int /\ buffer_level' \in Int
      /\ buffer_level' = bits_off_target'
  <2>1. ChargeBucket(bits)
    BY DEF PostEncodeUpdate
  <2>2. bits_off_target + per_frame_bandwidth - bits \in Int
    BY <1>1, <1>3, BandwidthNat, OxcfTyped
  <2>3. QED
    BY <1>1, <2>1, <2>2, LeastGreatest, OxcfTyped DEF ChargeBucket, Least
<1>8. /\ kf_overspend_bits' \in Nat /\ gf_overspend_bits' \in Nat
      /\ kf_bitrate_adjustment' \in Nat
      /\ prior_key_frame_distance' \in [1 .. 5 -> Nat]
      /\ key_frame_count' \in Nat /\ frames_since_key' \in Nat
      /\ ni_frames' \in Nat /\ ni_tot_qi' \in Nat /\ ni_tot_qi' <= ni_frames' * MaxQ
      /\ ni_av_qi' \in 0 .. MaxQ /\ avg_frame_qindex' \in 0 .. MaxQ
  <2>1. CASE AdjustKeyFrameContext(bits) /\ UNCHANGED average
    BY <1>1, <1>3, <2>1, AdjustKeyFrameContextTyped DEF average, TypeOK, TotalInTable
  <2>2. CASE /\ AverageInterFrame
             /\ UNCHANGED <<debt, key_frame_count, prior_key_frame_distance>>
    BY <1>1, <2>2, AverageInterFrameTyped DEF debt, TypeOK
  <2>3. QED
    BY <2>1, <2>2 DEF PostEncodeUpdate
<1>9. /\ UNCHANGED <<oxcf, cq_level, initial_size>>
      /\ UNCHANGED <<frame_type, base_qindex, active_worst_quality,
                     active_best_quality, this_frame_target>>
  BY DEF PostEncodeUpdate, config, choice
<1> HIDE DEF bits
<1>10. TypeOK'
  BY <1>1, <1>4, <1>5, <1>6, <1>7, <1>8, <1>9 DEF TypeOK
<1>11. QED
  BY <1>7, <1>8, <1>10 DEF AnyInv, LevelsAgree, TotalInTable

LEMMA NextAnyInv == AnyInv /\ [AnyNext]_vars => AnyInv'
<1> SUFFICES ASSUME AnyInv, [AnyNext]_vars PROVE AnyInv'
  OBVIOUS
<1>1. ASSUME NEW c \in Configs, RateControlInit(c) PROVE AnyInv'
  <2>1. calls' \in Nat
    BY <1>1 DEF AnyInv, TypeOK, RateControlInit
  <2>2. <<c.width, c.height>> \in Nat \X Nat
    BY ParameterAssumption DEF Config
  <2>3. phase' \in {"created", "idle", "computed"}
    BY <1>1 DEF AnyInv, TypeOK, RateControlInit
  <2>4. CASE Configure(c, 10, <<c.width, c.height>>)
    BY <2>1, <2>2, <2>3, <2>4, ConfigureAnyInv
  <2>5. CASE UNCHANGED <<phase, fault, engine>>
    BY <2>1, <2>3, <2>5, UnchangedAnyInv DEF AnyInv, TypeOK
  <2>6. QED
    BY <1>1, <2>4, <2>5 DEF RateControlInit
<1>2. ASSUME NEW c \in Configs, UpdateConfig(c) PROVE AnyInv'
  <2>1. calls' \in Nat /\ phase' = phase /\ Configure(c, cq_level, initial_size)
    BY <1>2 DEF AnyInv, TypeOK, UpdateConfig
  <2>2. initial_size \in Nat \X Nat /\ phase \in {"created", "idle", "computed"}
    BY DEF AnyInv, TypeOK
  <2>3. QED
    BY <2>1, <2>2, ConfigureAnyInv
<1>3. ASSUME NEW ft \in FrameTypes, ComputeQp(ft) PROVE AnyInv'
  BY <1>3, ComputeQpAnyInv
<1>4. ASSUME NEW size \in FrameSizes, PostEncodeUpdate(size) PROVE AnyInv'
  BY <1>4, PostEncodeUpdateAnyInv
<1>5. CASE UNCHANGED vars
  <2>1. UNCHANGED <<phase, calls, fault>> /\ UNCHANGED engine
    BY <1>5 DEF vars, client
  <2>2. /\ phase \in {"created", "idle", "computed"} /\ calls \in Nat
        /\ fault \in {"none", "assertion", "division_by_zero", "out_of_bounds"}
    BY DEF AnyInv, TypeOK
  <2>3. QED
    BY <2>1, <2>2, UnchangedAnyInv
<1>6. QED
  BY <1>1, <1>2, <1>3, <1>4, <1>5 DEF AnyNext

\* Whatever a client calls, and in whatever order, every field keeps its type
\* and every quantizer index stays an index of the tables.
THEOREM TypeCorrect == AnySpec => []TypeOK
<1>1. AnyInv => TypeOK
  BY DEF AnyInv
<1>2. QED
  BY <1>1, InitAnyInv, NextAnyInv, PTL DEF AnySpec

\* Whatever a client calls, the two levels of the bucket agree between calls,
\* so that no inter frame target divides by an empty byte count.
THEOREM LevelsAlwaysAgree == AnySpec => []LevelsAgree
<1>1. AnyInv => LevelsAgree
  BY DEF AnyInv
<1>2. QED
  BY <1>1, InitAnyInv, NextAnyInv, PTL DEF AnySpec

\* The documented client is one of those clients.
THEOREM DocumentedClient == Spec => AnySpec
<1>1. [Next]_vars => [AnyNext]_vars
  BY DEF Next, AnyNext
<1>2. QED
  BY <1>1, PTL DEF Spec, AnySpec

-----------------------------------------------------------------------------
(* Invariants for the documented client. *)

\* Once configured, the two qualities are ordered, the index averages lie
\* between them, and so does the best index a key frame inherits.
Ordered ==
  phase # "created" =>
    /\ oxcf.best_quality <= oxcf.worst_quality
    /\ oxcf.best_quality <= active_best_quality
    /\ active_best_quality <= oxcf.worst_quality
    /\ ni_frames * oxcf.best_quality <= ni_tot_qi
    /\ ni_tot_qi <= ni_frames * oxcf.worst_quality

ClientInv == AnyInv /\ Ordered /\ NiAverageInRange /\ QpInRange

LEMMA InitClientInv == Init => ClientInv
  BY InitAnyInv DEF Init, ClientInv, Ordered, NiAverageInRange, QpInRange

\* The worst index before the clip exceeds the configured one by at most one,
\* which the table's entries make up for.
LEMMA ClientRange ==
  ASSUME AnyInv, Ordered, NiAverageInRange, phase # "created", NEW ft \in FrameTypes
  PROVE  /\ oxcf.best_quality <= ActiveBest(ft) /\ ActiveBest(ft) <= ActiveWorst(ft)
         /\ ActiveWorst(ft) <= oxcf.worst_quality
<1> DEFINE best == oxcf.best_quality
           worst == oxcf.worst_quality
           relieved == RelievedWorst(PickedWorst(ft), PickedBest(ft))
           adapted == AdaptedBest(ft, relieved, PickedBest(ft))
           steered == SteeredWorst(buffer_level, bits_off_target)
<1>1. TypeOK
  BY DEF AnyInv
<1>2. /\ best \in 0 .. MaxQ /\ worst \in 0 .. MaxQ /\ MaxQ \in Nat /\ best <= worst
      /\ active_best_quality \in best .. worst /\ ni_av_qi \in best .. worst
  BY <1>1, OxcfTyped DEF Ordered, NiAverageInRange
<1>3. PickedBest(ft) \in best .. worst
  BY <1>2 DEF PickedBest
<1>4. PickedWorst(ft) \in 0 .. MaxQ /\ PickedBest(ft) \in 0 .. MaxQ
  BY <1>1, PickedInTable
<1>5. PickedWorst(ft) <= worst + 1
  <2>1. /\ steered \in Int
        /\ \/ ni_av_qi <= steered /\ steered <= worst
           \/ worst <= steered /\ steered <= ni_av_qi
    BY <1>1, OxcfTyped, SteeredWorstBetween
  <2> HIDE DEF steered
  <2>2. InterWorst(buffer_level, bits_off_target) <= worst + 1
    BY <1>2, <2>1 DEF InterWorst, steered, Least, Greatest
  <2>3. QED
    BY <1>2, <2>2 DEF PickedWorst
<1>6. relieved \in Nat /\ relieved <= worst + 1
  <2>1. PickedWorst(ft) \in Nat /\ PickedBest(ft) \in Nat
    BY <1>2, <1>4
  <2>2. relieved \in Nat /\ relieved <= Greatest(PickedBest(ft), PickedWorst(ft))
    BY <1>1, <2>1, RelievedBetween
  <2> HIDE DEF relieved
  <2>3. QED
    BY <1>2, <1>3, <1>5, <2>1, <2>2 DEF Greatest
<1>7. relieved \in 0 .. MaxQ
  <2>1. relieved <= Greatest(PickedBest(ft), PickedWorst(ft))
    BY <1>1, <1>2, <1>4, RelievedBetween
  <2> HIDE DEF relieved
  <2>2. QED
    BY <1>2, <1>4, <1>6, <2>1 DEF Greatest
<1> HIDE DEF relieved
<1>8. MinQ[ft][relieved] \in 0 .. MaxQ /\ MinQ[ft][relieved] <= worst
  <2>1. MinQ[ft][relieved] \in 0 .. MaxQ /\ MinQ[ft][relieved] <= Greatest(0, relieved - 1)
    BY <1>7, MinQTyped
  <2>2. QED
    BY <1>2, <1>6, <2>1 DEF Greatest
<1>9. adapted \in Nat /\ adapted <= worst
  <2>1. /\ adapted \in Nat
        /\ \/ adapted \in {PickedBest(ft), best}
           \/ adapted <= MinQ[ft][relieved]
           \/ adapted <= best
    BY <1>1, <1>4, <1>7, AdaptedBestBetween
  <2> HIDE DEF adapted
  <2>2. QED
    BY <1>2, <1>3, <1>8, <2>1
<1>10. ActiveBest(ft) = Greatest(best, adapted)
  BY DEF ActiveBest, relieved
<1>11. ActiveWorst(ft) = Greatest(ActiveBest(ft), Least(worst, relieved))
  BY DEF ActiveWorst, relieved
<1> HIDE DEF adapted
<1>12. QED
  BY <1>2, <1>6, <1>9, <1>10, <1>11 DEF Greatest, Least

LEMMA AverageQInRange ==
  ASSUME TypeOK, NEW frames \in Nat \ {0}, NEW total \in Nat,
         base_qindex \in oxcf.best_quality .. oxcf.worst_quality,
         frames * oxcf.best_quality <= total, total <= frames * oxcf.worst_quality
  PROVE  AverageQ(frames, total) \in oxcf.best_quality .. oxcf.worst_quality
<1> DEFINE plain == total \div frames
           best == oxcf.best_quality
           worst == oxcf.worst_quality
<1>1. best \in Nat /\ worst \in Nat /\ base_qindex \in best .. worst
  BY OxcfTyped
<1>2. best * frames <= total /\ total <= worst * frames
  BY <1>1
<1>3. plain \in Nat /\ best <= plain /\ plain <= worst
  BY <1>1, <1>2, DivNat, DivAtLeast, DivAtMost
<1>4. AverageQ(frames, total) =
        LET mean == IF frames > NiDamping THEN plain
                    ELSE (plain + worst + 1) \div 2
        IN  IF base_qindex > mean THEN base_qindex - 1 ELSE mean
  BY DEF AverageQ
<1> HIDE DEF plain, best, worst
<1>5. QED
  BY <1>1, <1>3, <1>4 DEF best, worst

LEMMA ConfigureOrdered ==
  ASSUME NEW c \in Configs, Validate(c), NEW cq, NEW size,
         ReadsInTable(c, cq), Install(c, cq, size)
  PROVE  Ordered' /\ NiAverageInRange'
<1>1. c.max_quantizer \in 0 .. 63 /\ c.min_quantizer \in 0 .. 63
  BY TableAssumption DEF ReadsInTable
<1>2. c.min_quantizer <= c.max_quantizer
  BY DEF Validate
<1>3. QTrans[c.min_quantizer] <= QTrans[c.max_quantizer]
  BY <1>1, <1>2, TableAssumption
<1>4. /\ oxcf'.worst_quality = QTrans[c.max_quantizer]
      /\ oxcf'.best_quality = QTrans[c.min_quantizer]
  BY DEF Install, Derived
<1>5. oxcf'.worst_quality \in Nat /\ oxcf'.best_quality \in Nat
  <2>1. QTrans[c.max_quantizer] \in 0 .. MaxQ /\ QTrans[c.min_quantizer] \in 0 .. MaxQ
    BY <1>1, TableAssumption
  <2>2. MaxQ \in Nat
    BY TableAssumption
  <2>3. QED
    BY <1>4, <2>1, <2>2
<1>6. /\ active_best_quality' = oxcf'.best_quality
      /\ ni_av_qi' = oxcf'.worst_quality /\ ni_tot_qi' = 0 /\ ni_frames' = 0
  BY DEF Install
<1>7. QED
  BY <1>3, <1>4, <1>5, <1>6 DEF Ordered, NiAverageInRange

LEMMA ComputeQpClientInv ==
  ASSUME ClientInv, phase # "created", NEW ft \in FrameTypes, ComputeQp(ft)
  PROVE  ClientInv'
<1>1. AnyInv /\ Ordered /\ NiAverageInRange /\ QpInRange /\ TypeOK
  BY DEF ClientInv, AnyInv
<1>2. AnyInv'
  BY <1>1, ComputeQpAnyInv
<1>3. CASE UNCHANGED <<phase, engine>>
  <2>1. /\ UNCHANGED <<phase, oxcf, base_qindex, active_worst_quality,
                       active_best_quality>>
        /\ UNCHANGED <<ni_frames, ni_tot_qi, ni_av_qi>>
    BY <1>3 DEF engine, config, choice, average
  <2>2. QED
    BY <1>1, <1>2, <2>1 DEF ClientInv, Ordered, NiAverageInRange, QpInRange
<1>4. CASE ~UNCHANGED <<phase, engine>>
  <2>1. /\ phase' = "computed"
        /\ active_best_quality' = ActiveBest(ft)
        /\ base_qindex' = RegulateQ(ft, TargetPerMb(Target(ft)), ActiveBest(ft),
                                    ActiveWorst(ft), rate_correction_factor[ft])
        /\ active_worst_quality' =
             RelaxedWorst(base_qindex', ActiveWorst(ft), OvershootLimit(ft, Target(ft)))
        /\ UNCHANGED <<config, average>>
    BY <1>4 DEF ComputeQp
  <2>2. UNCHANGED oxcf /\ UNCHANGED <<ni_frames, ni_tot_qi, ni_av_qi>>
    BY <2>1 DEF config, average
  <2>3. /\ oxcf.best_quality <= ActiveBest(ft) /\ ActiveBest(ft) <= ActiveWorst(ft)
        /\ ActiveWorst(ft) <= oxcf.worst_quality
    BY <1>1, ClientRange
  <2>4. /\ ActiveBest(ft) \in 0 .. MaxQ /\ ActiveWorst(ft) \in 0 .. MaxQ
        /\ ActiveBest(ft) \in Nat /\ ActiveWorst(ft) \in Nat
    BY <1>1, ActiveRange
  <2>5. base_qindex' \in ActiveBest(ft) .. ActiveWorst(ft)
    BY <2>1, <2>3, <2>4, RegulateQInRange
  <2>6. /\ active_worst_quality' \in ActiveWorst(ft) .. MaxQ
        /\ active_worst_quality' <= oxcf.worst_quality
    <3>1. /\ active_worst_quality' \in ActiveWorst(ft) .. MaxQ
          /\ \/ active_worst_quality' = ActiveWorst(ft)
             \/ active_worst_quality' <= oxcf.worst_quality
      BY <1>1, <2>1, <2>4, RelaxedWorstBetween
    <3>2. QED
      BY <2>3, <3>1
  <2>7. oxcf.best_quality \in Nat /\ oxcf.worst_quality \in Nat /\ MaxQ \in Nat
    BY <1>1, OxcfTyped
  <2>8. /\ base_qindex' \in oxcf.best_quality .. oxcf.worst_quality
        /\ active_best_quality' \in oxcf.best_quality .. active_worst_quality'
        /\ active_best_quality' <= oxcf.worst_quality
    BY <2>1, <2>3, <2>4, <2>5, <2>6, <2>7
  <2>9. QpInRange'
    BY <2>2, <2>6, <2>8 DEF QpInRange
  <2>10. Ordered' /\ NiAverageInRange'
    BY <1>1, <2>1, <2>2, <2>3, <2>8 DEF Ordered, NiAverageInRange
  <2>11. QED
    BY <1>2, <2>9, <2>10 DEF ClientInv
<1>5. QED
  BY <1>3, <1>4

LEMMA PostEncodeUpdateClientInv ==
  ASSUME ClientInv, phase = "computed", NEW size \in FrameSizes, PostEncodeUpdate(size)
  PROVE  ClientInv'
<1>1. AnyInv /\ Ordered /\ NiAverageInRange /\ QpInRange /\ TypeOK /\ TotalInTable
  BY DEF ClientInv, AnyInv
<1>2. AnyInv'
  BY <1>1, PostEncodeUpdateAnyInv
<1>3. phase' = "idle" /\ UNCHANGED oxcf /\ UNCHANGED active_best_quality
  BY DEF PostEncodeUpdate, config, choice
<1>4. QpInRange'
  BY <1>3 DEF QpInRange
<1>5. CASE UNCHANGED average
  BY <1>1, <1>2, <1>3, <1>4, <1>5 DEF average, ClientInv, Ordered, NiAverageInRange
<1>6. CASE AverageInterFrame
  <2>1. /\ base_qindex \in oxcf.best_quality .. oxcf.worst_quality
        /\ ni_frames * oxcf.best_quality <= ni_tot_qi
        /\ ni_tot_qi <= ni_frames * oxcf.worst_quality
    BY <1>1 DEF QpInRange, Ordered
  <2>2. /\ oxcf.best_quality \in Nat /\ oxcf.worst_quality \in Nat
        /\ ni_frames \in Nat /\ ni_tot_qi \in Nat /\ base_qindex \in Nat
    BY <1>1, OxcfTyped DEF TypeOK
  <2>3. /\ ni_frames' = ni_frames + 1 /\ ni_tot_qi' = ni_tot_qi + base_qindex
        /\ ni_av_qi' = AverageQ(ni_frames', ni_tot_qi')
    BY <1>6 DEF AverageInterFrame
  <2>4. /\ (ni_frames + 1) * oxcf.best_quality
             = ni_frames * oxcf.best_quality + oxcf.best_quality
        /\ (ni_frames + 1) * oxcf.worst_quality
             = ni_frames * oxcf.worst_quality + oxcf.worst_quality
        /\ ni_frames * oxcf.best_quality \in Nat
        /\ ni_frames * oxcf.worst_quality \in Nat
    BY <2>2
  <2>5. /\ ni_frames' * oxcf.best_quality <= ni_tot_qi'
        /\ ni_tot_qi' <= ni_frames' * oxcf.worst_quality
    BY <2>1, <2>2, <2>3, <2>4
  <2>6. ni_frames' \in Nat \ {0} /\ ni_tot_qi' \in Nat
    BY <2>2, <2>3
  <2>7. ni_av_qi' \in oxcf.best_quality .. oxcf.worst_quality
    BY <1>1, <2>1, <2>3, <2>5, <2>6, AverageQInRange
  <2>8. QED
    BY <1>1, <1>2, <1>3, <1>4, <2>5, <2>7 DEF ClientInv, Ordered, NiAverageInRange
<1>7. QED
  BY <1>5, <1>6 DEF PostEncodeUpdate

LEMMA ConfigureClientInv ==
  ASSUME ClientInv, AnyInv', NEW c \in Configs, Validate(c), NEW cq, NEW size,
         Configure(c, cq, size),
         \/ phase' = phase /\ phase # "computed"
         \/ fault' = "none" /\ phase' = "idle"
  PROVE  ClientInv'
<1>1. CASE ReadsInTable(c, cq) /\ Install(c, cq, size)
  <2>1. Ordered' /\ NiAverageInRange'
    BY <1>1, ConfigureOrdered
  <2>2. QED
    BY <2>1 DEF ClientInv, QpInRange
<1>2. CASE fault' \in {"assertion", "out_of_bounds"} /\ UNCHANGED engine
  <2>1. /\ phase' = phase /\ phase # "computed"
        /\ UNCHANGED <<oxcf, active_best_quality, ni_frames, ni_tot_qi, ni_av_qi>>
    BY <1>2 DEF engine, config, choice, average
  <2>2. QED
    BY <2>1 DEF ClientInv, QpInRange, Ordered, NiAverageInRange
<1>3. QED
  BY <1>1, <1>2 DEF Configure

LEMMA NextClientInv == ClientInv /\ [Next]_vars => ClientInv'
<1> SUFFICES ASSUME ClientInv, [Next]_vars PROVE ClientInv'
  OBVIOUS
<1>1. AnyInv'
  <2>1. [AnyNext]_vars
    BY DEF Next, AnyNext
  <2>2. QED
    BY <2>1, NextAnyInv DEF ClientInv
<1>2. ASSUME NEW c \in Configs, RateControlInit(c) PROVE ClientInv'
  <2>1. CASE /\ Validate(c) /\ Configure(c, 10, <<c.width, c.height>>)
             /\ phase' = IF fault' = "none" THEN "idle" ELSE phase
    <3>1. phase = "created"
      BY <1>2 DEF RateControlInit
    <3>2. QED
      BY <1>1, <2>1, <3>1, ConfigureClientInv
  <2>2. CASE UNCHANGED <<phase, fault, engine>>
    <3>1. UNCHANGED phase /\ phase = "created"
      BY <1>2, <2>2 DEF RateControlInit
    <3>2. QED
      BY <1>1, <3>1 DEF ClientInv, Ordered, NiAverageInRange, QpInRange
  <2>3. QED
    BY <1>2, <2>1, <2>2 DEF RateControlInit
<1>3. ASSUME phase = "idle", NEW c \in Configs, Validate(c), UpdateConfig(c)
      PROVE  ClientInv'
  BY <1>1, <1>3, ConfigureClientInv DEF UpdateConfig
<1>4. ASSUME phase = "idle", NEW ft \in FrameTypes, ComputeQp(ft) PROVE ClientInv'
  BY <1>4, ComputeQpClientInv
<1>5. ASSUME phase = "computed", NEW size \in FrameSizes, PostEncodeUpdate(size)
      PROVE  ClientInv'
  BY <1>5, PostEncodeUpdateClientInv
<1>6. CASE UNCHANGED vars
  <2>1. /\ UNCHANGED <<phase, oxcf, base_qindex, active_worst_quality,
                       active_best_quality>>
        /\ UNCHANGED <<ni_frames, ni_tot_qi, ni_av_qi>>
    BY <1>6 DEF vars, client, engine, config, choice, average
  <2>2. QED
    BY <1>1, <2>1 DEF ClientInv, Ordered, NiAverageInRange, QpInRange
<1>7. QED
  BY <1>2, <1>3, <1>4, <1>5, <1>6 DEF Next

\* Under the documented client, every quantizer index handed to the encoder
\* and the range it came from respect the configured quantizers.
THEOREM QpAlwaysInRange == Spec => []QpInRange
<1>1. ClientInv => QpInRange
  BY DEF ClientInv
<1>2. QED
  BY <1>1, InitClientInv, NextClientInv, PTL DEF Spec

\* Under the documented client, the average that steers the worst index stays
\* between the configured qualities.
THEOREM NiAverageAlwaysInRange == Spec => []NiAverageInRange
<1>1. ClientInv => NiAverageInRange
  BY DEF ClientInv
<1>2. QED
  BY <1>1, InitClientInv, NextClientInv, PTL DEF Spec


-----------------------------------------------------------------------------
(* The engine implements BrcEngine. *)

status == IF fault # "none" THEN "stopped"
          ELSE IF phase = "created" THEN "none"
          ELSE IF phase = "idle" THEN "ready" ELSE "computed"
range == <<oxcf.best_quality, oxcf.worst_quality>>

LEMMA ConfiguredRange ==
  ASSUME ClientInv', phase' # "created"
  PROVE  range' \in Engine!Ranges
<1>1. TypeOK' /\ Ordered'
  BY DEF ClientInv, AnyInv
<1>2. oxcf'.best_quality \in 0 .. MaxQ /\ oxcf'.worst_quality \in 0 .. MaxQ
  BY <1>1 DEF TypeOK, DerivedConfig
<1>3. oxcf'.best_quality <= oxcf'.worst_quality
  BY <1>1 DEF Ordered
<1>4. QED
  BY <1>2, <1>3 DEF Engine!Ranges, range

LEMMA StutterRefines ==
  ASSUME UNCHANGED <<phase, fault, oxcf, base_qindex>>
  PROVE  [Engine!Next]_(Engine!vars)
  BY DEF Engine!vars

\* A process that ended between frames leaves the engine as it was.
LEMMA StopRefines ==
  ASSUME fault = "none", fault' # "none", phase \in {"created", "idle"}, UNCHANGED engine
  PROVE  [Engine!Next]_(Engine!vars)
<1>1. UNCHANGED <<oxcf, base_qindex>>
  BY DEF engine, config, choice
<1>2. QED
  BY <1>1 DEF Engine!Next, Engine!Stop

LEMMA NextRefines ==
  ClientInv /\ ClientInv' /\ [Next]_vars => [Engine!Next]_(Engine!vars)
<1> SUFFICES ASSUME ClientInv, ClientInv', [Next]_vars
             PROVE  [Engine!Next]_(Engine!vars)
  OBVIOUS
<1>1. phase \in {"created", "idle", "computed"}
  BY DEF ClientInv, AnyInv, TypeOK
<1>2. ASSUME NEW c \in Configs, RateControlInit(c)
      PROVE  [Engine!Next]_(Engine!vars)
  <2>1. fault = "none" /\ phase = "created"
    BY <1>2 DEF RateControlInit, Running
  <2>2. CASE UNCHANGED <<phase, fault, engine>>
    BY <2>2, StutterRefines DEF engine, config, choice
  <2>3. CASE fault' # "none" /\ UNCHANGED engine
    BY <2>1, <2>3, StopRefines
  <2>4. CASE fault' = "none" /\ phase' = "idle"
    <3>1. range' \in Engine!Ranges
      BY <2>4, ConfiguredRange
    <3>2. Engine!Create
      BY <2>1, <2>4, <3>1 DEF Engine!Create, range
    <3>3. QED
      BY <3>2 DEF Engine!Next
  <2>5. QED
    BY <1>2, <2>1, <2>2, <2>3, <2>4 DEF RateControlInit, Configure
<1>3. ASSUME phase = "idle", NEW c \in Configs, UpdateConfig(c)
      PROVE  [Engine!Next]_(Engine!vars)
  <2>1. fault = "none" /\ phase' = phase
    BY <1>3 DEF UpdateConfig, Running
  <2>2. CASE fault' # "none" /\ UNCHANGED engine
    BY <1>3, <2>1, <2>2, StopRefines
  <2>3. CASE fault' = fault /\ Install(c, cq_level, initial_size)
    <3>1. range' \in Engine!Ranges
      BY <1>3, <2>1, ConfiguredRange
    <3>2. Engine!Update
      BY <1>3, <2>1, <2>3, <3>1 DEF Engine!Update, range, Install
    <3>3. QED
      BY <3>2 DEF Engine!Next
  <2>4. QED
    BY <1>3, <2>2, <2>3 DEF UpdateConfig, Configure
<1>4. ASSUME phase = "idle", NEW ft \in FrameTypes, ComputeQp(ft)
      PROVE  [Engine!Next]_(Engine!vars)
  <2>1. fault = "none"
    BY <1>4 DEF ComputeQp, Running
  <2>2. CASE fault' # "none" /\ UNCHANGED engine
    BY <1>4, <2>1, <2>2, StopRefines
  <2>3. CASE phase' = "computed" /\ fault' = fault /\ UNCHANGED config
    <3>1. base_qindex' \in oxcf'.best_quality .. oxcf'.worst_quality
      BY <2>3 DEF ClientInv, QpInRange
    <3>2. UNCHANGED oxcf
      BY <2>3 DEF config
    <3>3. Engine!Compute
      BY <1>4, <2>1, <2>3, <3>1, <3>2 DEF Engine!Compute
    <3>4. QED
      BY <3>3 DEF Engine!Next
  <2>4. QED
    BY <1>4, <2>2, <2>3 DEF ComputeQp
<1>5. ASSUME phase = "computed", NEW size \in FrameSizes, PostEncodeUpdate(size)
      PROVE  [Engine!Next]_(Engine!vars)
  <2>1. /\ fault = "none" /\ fault' = fault /\ phase' = "idle"
        /\ UNCHANGED <<oxcf, base_qindex>>
    BY <1>5 DEF PostEncodeUpdate, Running, config, choice
  <2>2. Engine!PostEncode
    BY <1>5, <2>1 DEF Engine!PostEncode
  <2>3. QED
    BY <2>2 DEF Engine!Next
<1>6. CASE UNCHANGED vars
  BY <1>6, StutterRefines DEF vars, client, engine, config, choice
<1>7. QED
  BY <1>2, <1>3, <1>4, <1>5, <1>6 DEF Next

\* Under the documented client this engine keeps the contract of every engine:
\* it answers each frame with an index of the range configured last, and stops
\* only between frames.
THEOREM ContractKept == Spec => EngineContract
<1>1. Init => Engine!Init
  BY DEF Init, Engine!Init
<1>2. QED
  BY <1>1, InitClientInv, NextClientInv, NextRefines, PTL
     DEF Spec, EngineContract, Engine!Spec
-----------------------------------------------------------------------------
(* What a frame is given: the least target, and what a fuller bucket adds. *)

\* The target before the bucket has its say.
LEMMA BaseTargetAtLeast ==
  ASSUME TypeOK
  PROVE  BaseTarget \in Nat /\ BaseTarget >= MinFrameTarget
<1> DEFINE rest == per_frame_bandwidth - KfRecovery
<1>1. MinFrameTarget \in Nat /\ rest \in Int
  BY BandwidthNat, RecoveryBounds DEF TypeOK
<1>2. GfRecovery(rest) \in Int
  <2> HIDE DEF rest
  <2>1. GfRecovery(rest) \in 0 .. gf_overspend_bits /\ gf_overspend_bits \in Nat
    BY <1>1, RecoveryBounds DEF TypeOK
  <2>2. QED
    BY <2>1
<1>3. BaseTarget = Greatest(MinFrameTarget, rest - GfRecovery(rest))
  BY DEF BaseTarget
<1> HIDE DEF rest
<1>4. QED
  BY <1>1, <1>2, <1>3 DEF Greatest

LEMMA OnePercentPositive ==
  ASSUME TypeOK
  PROVE  OnePercentBits \in Nat \ {0}
<1>1. oxcf.optimal_buffer_level \div 100 \in Nat
  BY OxcfTyped, DivNat
<1>2. QED
  BY <1>1 DEF OnePercentBits

\* For levels that agree the percentages are those of the level alone; they are
\* natural when their limits are, and a fuller bucket lowers the one and raises
\* the other.
LEMMA PercentLowLevel ==
  ASSUME TypeOK, oxcf.under_shoot_pct >= 0,
         NEW level \in Int, level < oxcf.optimal_buffer_level
  PROVE  /\ PercentLow(level, level) \in Nat
         /\ PercentLow(level, level) <= oxcf.under_shoot_pct
         /\ \A more \in Int : level <= more /\ more < oxcf.optimal_buffer_level =>
              PercentLow(more, more) <= PercentLow(level, level)
<1> DEFINE optimal == oxcf.optimal_buffer_level
           share(l) == (optimal - l) \div OnePercentBits
<1>1. optimal \in Nat /\ oxcf.under_shoot_pct \in Nat /\ OnePercentBits \in Nat \ {0}
  BY OxcfTyped, OnePercentPositive DEF TypeOK, DerivedConfig
<1>2. ASSUME NEW l \in Int, l < optimal
      PROVE  share(l) \in Nat /\ PercentLow(l, l) = Percentage(share(l), oxcf.under_shoot_pct)
  <2>1. optimal - l \in Nat
    BY <1>1, <1>2
  <2>2. share(l) \in Nat
    BY <1>1, <2>1, DivNat
  <2>3. QED
    BY <1>2, <2>2 DEF PercentLow
<1>3. ASSUME NEW more \in Int, level <= more, more < optimal
      PROVE  share(more) <= share(level)
  <2>1. optimal - more <= optimal - level /\ optimal - more \in Int /\ optimal - level \in Int
    BY <1>1, <1>3
  <2>2. QED
    BY <1>1, <2>1, DivMonotone
<1> HIDE DEF share
<1>4. share(level) \in Nat /\ PercentLow(level, level) = Percentage(share(level), oxcf.under_shoot_pct)
  BY <1>2
<1>5. ASSUME NEW more \in Int, level <= more, more < optimal
      PROVE  PercentLow(more, more) <= PercentLow(level, level)
  <2>1. /\ share(more) \in Nat /\ share(more) <= share(level)
        /\ PercentLow(more, more) = Percentage(share(more), oxcf.under_shoot_pct)
    BY <1>2, <1>3, <1>5
  <2>2. QED
    BY <1>1, <1>4, <2>1 DEF Percentage, Greatest
<1>6. QED
  BY <1>1, <1>4, <1>5 DEF Percentage, Greatest

LEMMA PercentHighLevel ==
  ASSUME TypeOK, oxcf.over_shoot_pct >= 0,
         NEW level \in Int, level >= oxcf.optimal_buffer_level
  PROVE  /\ PercentHigh(level, level) \in Nat
         /\ \A more \in Int : level <= more =>
              /\ PercentHigh(more, more) \in Nat
              /\ PercentHigh(level, level) <= PercentHigh(more, more)
<1> DEFINE optimal == oxcf.optimal_buffer_level
           share(l) == (l - optimal) \div OnePercentBits
<1>1. optimal \in Nat /\ oxcf.over_shoot_pct \in Nat /\ OnePercentBits \in Nat \ {0}
  BY OxcfTyped, OnePercentPositive DEF TypeOK, DerivedConfig
<1>2. ASSUME NEW l \in Int, l >= optimal
      PROVE  share(l) \in Nat /\ PercentHigh(l, l) = Percentage(share(l), oxcf.over_shoot_pct)
  <2>1. l - optimal \in Nat
    BY <1>1, <1>2
  <2>2. share(l) \in Nat
    BY <1>1, <2>1, DivNat
  <2>3. CASE l > optimal
    BY <2>2, <2>3 DEF PercentHigh
  <2>4. CASE l = optimal
    <3>1. share(l) = 0
      <4>1. 0 \div OnePercentBits = 0
        BY <1>1, DivAtMost, DivAtLeast
      <4>2. QED
        BY <1>1, <2>4, <4>1
    <3>2. QED
      BY <1>1, <2>4, <3>1 DEF PercentHigh
  <2>5. QED
    BY <1>1, <1>2, <2>3, <2>4
<1>3. ASSUME NEW more \in Int, level <= more
      PROVE  share(level) <= share(more)
  <2>1. level - optimal <= more - optimal /\ level - optimal \in Int /\ more - optimal \in Int
    BY <1>1, <1>3
  <2>2. QED
    BY <1>1, <2>1, DivMonotone
<1> HIDE DEF share
<1>4. share(level) \in Nat /\ PercentHigh(level, level) = Percentage(share(level), oxcf.over_shoot_pct)
  BY <1>2
<1>5. ASSUME NEW more \in Int, level <= more
      PROVE  /\ PercentHigh(more, more) \in Nat
             /\ PercentHigh(level, level) <= PercentHigh(more, more)
  <2>1. more >= optimal
    BY <1>1, <1>5
  <2>2. /\ share(more) \in Nat /\ share(level) <= share(more)
        /\ PercentHigh(more, more) = Percentage(share(more), oxcf.over_shoot_pct)
    BY <1>2, <1>3, <1>5, <2>1
  <2>3. QED
    BY <1>1, <1>4, <2>2 DEF Percentage, Greatest
<1>6. QED
  BY <1>1, <1>4, <1>5 DEF Percentage, Greatest

\* A share of the base target, in half percents.
Part(percent) == Quotient(BaseTarget * percent, 200)

LEMMA PartMonotone ==
  ASSUME TypeOK, NEW p \in Nat, NEW q \in Nat, p <= q
  PROVE  /\ Part(p) \in Nat /\ Part(q) \in Nat /\ Part(p) <= Part(q)
         /\ q <= 100 => 2 * Part(q) <= BaseTarget
<1>1. BaseTarget \in Nat
  BY BaseTargetAtLeast
<1>2. BaseTarget * p \in Nat /\ BaseTarget * q \in Nat /\ BaseTarget * p <= BaseTarget * q
  <2>1. p * BaseTarget <= q * BaseTarget
    BY <1>1, TimesMonotone
  <2>2. QED
    BY <1>1, <2>1, ProductNat
<1>3. q <= 100 => BaseTarget * q <= 100 * BaseTarget
  <2>1. q <= 100 => q * BaseTarget <= 100 * BaseTarget
    BY <1>1, TimesMonotone
  <2>2. QED
    BY <1>1, <2>1
<1> DEFINE a == BaseTarget * p
           b == BaseTarget * q
<1> HIDE DEF a, b
<1>4. a \in Nat /\ b \in Nat /\ a <= b /\ (q <= 100 => b <= 100 * BaseTarget)
  BY <1>2, <1>3 DEF a, b
<1>5. Quotient(a, 200) = a \div 200 /\ Quotient(b, 200) = b \div 200
  BY <1>4, QuotientPositive
<1>6. a \div 200 \in Nat /\ b \div 200 \in Nat /\ a \div 200 <= b \div 200
      /\ (q <= 100 => 2 * (b \div 200) <= BaseTarget)
  BY <1>1, <1>4
<1>7. QED
  BY <1>5, <1>6 DEF Part, a, b

LEMMA InterTargetLevel ==
  ASSUME NEW level \in Int
  PROVE  InterTarget(level, level)
           = IF ~buffered_mode THEN BaseTarget
             ELSE IF level < oxcf.optimal_buffer_level
             THEN BaseTarget - Part(PercentLow(level, level))
             ELSE BaseTarget + Part(PercentHigh(level, level))
  BY DEF InterTarget, BelowOptimal, Part

\* At least half the base target, and so an eighth of the average frame.
LEMMA InterTargetAtLeast ==
  ASSUME TypeOK, NEW level \in Int,
         oxcf.under_shoot_pct \in 0 .. 100, oxcf.over_shoot_pct >= 0
  PROVE  2 * InterTarget(level, level) >= MinFrameTarget
<1>1. BaseTarget \in Nat /\ BaseTarget >= MinFrameTarget /\ MinFrameTarget \in Nat
      /\ oxcf.optimal_buffer_level \in Nat /\ oxcf.under_shoot_pct \in Nat
      /\ oxcf.under_shoot_pct <= 100
  BY BaseTargetAtLeast, BandwidthNat, OxcfTyped
<1>2. CASE ~buffered_mode
  BY <1>1, <1>2, InterTargetLevel
<1>3. CASE buffered_mode /\ level < oxcf.optimal_buffer_level
  <2> DEFINE p == PercentLow(level, level)
  <2>1. p \in Nat /\ p <= 100
    BY <1>1, <1>3, PercentLowLevel
  <2>2. InterTarget(level, level) = BaseTarget - Part(p)
    BY <1>3, InterTargetLevel
  <2> HIDE DEF p
  <2>3. Part(p) \in Nat /\ 2 * Part(p) <= BaseTarget
    BY <2>1, PartMonotone
  <2>4. QED
    BY <1>1, <2>2, <2>3
<1>4. CASE buffered_mode /\ level >= oxcf.optimal_buffer_level
  <2> DEFINE p == PercentHigh(level, level)
  <2>1. p \in Nat
    BY <1>1, <1>4, PercentHighLevel
  <2>2. InterTarget(level, level) = BaseTarget + Part(p)
    BY <1>1, <1>4, InterTargetLevel
  <2> HIDE DEF p
  <2>3. Part(p) \in Nat
    BY <2>1, PartMonotone
  <2>4. QED
    BY <1>1, <2>2, <2>3
<1>5. QED
  BY <1>1, <1>2, <1>3, <1>4

LEMMA InterTargetMonotone ==
  ASSUME TypeOK, oxcf.under_shoot_pct >= 0, oxcf.over_shoot_pct >= 0,
         NEW less \in Int, NEW more \in Int, less <= more
  PROVE  InterTarget(less, less) <= InterTarget(more, more)
<1> DEFINE optimal == oxcf.optimal_buffer_level
<1>1. BaseTarget \in Nat /\ optimal \in Nat
  BY BaseTargetAtLeast, OxcfTyped
<1>2. CASE ~buffered_mode
  BY <1>1, <1>2, InterTargetLevel
<1>3. CASE buffered_mode /\ more < optimal
  <2> DEFINE p == PercentLow(less, less)
             q == PercentLow(more, more)
  <2>1. less < optimal
    BY <1>1, <1>3
  <2>2. p \in Nat /\ q \in Nat /\ q <= p
    BY <1>3, <2>1, PercentLowLevel
  <2>3. InterTarget(less, less) = BaseTarget - Part(p)
        /\ InterTarget(more, more) = BaseTarget - Part(q)
    BY <1>3, <2>1, InterTargetLevel
  <2> HIDE DEF p, q
  <2>4. Part(p) \in Nat /\ Part(q) \in Nat /\ Part(q) <= Part(p)
    BY <2>2, PartMonotone
  <2>5. QED
    BY <1>1, <2>3, <2>4
<1>4. CASE buffered_mode /\ less >= optimal
  <2> DEFINE p == PercentHigh(less, less)
             q == PercentHigh(more, more)
  <2>1. more >= optimal
    BY <1>1, <1>4
  <2>2. p \in Nat /\ q \in Nat /\ p <= q
    BY <1>4, PercentHighLevel
  <2>3. InterTarget(less, less) = BaseTarget + Part(p)
        /\ InterTarget(more, more) = BaseTarget + Part(q)
    BY <1>1, <1>4, <2>1, InterTargetLevel
  <2> HIDE DEF p, q
  <2>4. Part(p) \in Nat /\ Part(q) \in Nat /\ Part(p) <= Part(q)
    BY <2>2, PartMonotone
  <2>5. QED
    BY <1>1, <2>3, <2>4
<1>5. CASE buffered_mode /\ less < optimal /\ more >= optimal
  <2> DEFINE p == PercentLow(less, less)
             q == PercentHigh(more, more)
  <2>1. p \in Nat /\ q \in Nat
    BY <1>5, PercentLowLevel, PercentHighLevel
  <2>2. InterTarget(less, less) = BaseTarget - Part(p)
        /\ InterTarget(more, more) = BaseTarget + Part(q)
    BY <1>1, <1>5, InterTargetLevel
  <2> HIDE DEF p, q
  <2>3. Part(p) \in Nat /\ Part(q) \in Nat
    BY <2>1, PartMonotone
  <2>4. QED
    BY <1>1, <2>2, <2>3
<1>6. QED
  BY <1>1, <1>2, <1>3, <1>4, <1>5

-----------------------------------------------------------------------------
(* The target of an inter frame. *)

LEMMA ComputeQpFloor ==
  ASSUME AnyInv, NEW ft \in FrameTypes, ComputeQp(ft), oxcf.MBs > 0
  PROVE  InterTargetFloor'
<1>1. TypeOK /\ buffer_level = bits_off_target /\ buffer_level \in Int
  BY DEF AnyInv, LevelsAgree, TypeOK
<1>2. /\ UNCHANGED <<oxcf, current_video_frame>>
      /\ frame_type' = ft /\ this_frame_target' = Target(ft)
  BY DEF ComputeQp, config, keys
<1>3. UNCHANGED <<per_frame_bandwidth, MinFrameTarget>>
  BY <1>2 DEF per_frame_bandwidth, MinFrameTarget
<1>4. SUFFICES ASSUME ft = "inter", oxcf.under_shoot_pct \in 0 .. 100,
                      oxcf.over_shoot_pct >= 0
               PROVE  2 * this_frame_target' >= MinFrameTarget
  BY <1>2, <1>3 DEF InterTargetFloor
<1>5. this_frame_target' = InterTarget(buffer_level, buffer_level)
  BY <1>1, <1>2, <1>4 DEF Target
<1>6. QED
  BY <1>1, <1>4, <1>5, InterTargetAtLeast

LEMMA NextInterTargetFloor ==
  ASSUME AnyInv, InterTargetFloor, [Next]_vars
  PROVE  InterTargetFloor'
<1>1. ASSUME phase' # "computed" PROVE InterTargetFloor'
  BY <1>1 DEF InterTargetFloor
<1>2. ASSUME NEW c \in Configs, RateControlInit(c) PROVE phase' # "computed"
  BY <1>2 DEF RateControlInit
<1>3. ASSUME phase = "idle", NEW c \in Configs, UpdateConfig(c) PROVE phase' # "computed"
  BY <1>3 DEF UpdateConfig
<1>4. ASSUME phase = "idle", NEW ft \in FrameTypes, ComputeQp(ft) PROVE InterTargetFloor'
  <2>1. CASE oxcf.MBs > 0
    BY <1>4, <2>1, ComputeQpFloor
  <2>2. CASE ~(oxcf.MBs > 0)
    BY <1>1, <1>4, <2>2 DEF ComputeQp
  <2>3. QED
    BY <2>1, <2>2
<1>5. ASSUME NEW size \in FrameSizes, PostEncodeUpdate(size) PROVE phase' # "computed"
  BY <1>5 DEF PostEncodeUpdate
<1>6. CASE UNCHANGED vars
  <2>1. UNCHANGED <<phase, oxcf, frame_type, this_frame_target>>
    BY <1>6 DEF vars, client, engine, config, choice
  <2>2. UNCHANGED <<per_frame_bandwidth, MinFrameTarget>>
    BY <2>1 DEF per_frame_bandwidth, MinFrameTarget
  <2>3. QED
    BY <2>1, <2>2 DEF InterTargetFloor
<1>7. QED
  BY <1>1, <1>2, <1>3, <1>4, <1>5, <1>6 DEF Next

\* Under the documented client, key frame recovery and a low buffer together
\* leave an inter frame at least an eighth of the average frame.
THEOREM InterTargetAlwaysAtFloor == Spec => []InterTargetFloor
<1>1. Init => InterTargetFloor
  BY DEF Init, InterTargetFloor
<1>2. AnyInv /\ InterTargetFloor /\ [Next]_vars => InterTargetFloor'
  BY NextInterTargetFloor
<1>3. ClientInv => AnyInv
  BY DEF ClientInv
<1>4. QED
  BY <1>1, <1>2, <1>3, InitClientInv, NextClientInv, PTL DEF Spec
-----------------------------------------------------------------------------
(* A fuller buffer. *)

\* From a quarter of the optimal level on, the worst index falls toward the
\* average index.
LEMMA SteeredWorstAntitone ==
  ASSUME TypeOK, ni_av_qi <= oxcf.worst_quality,
         NEW less \in Int, NEW more \in Int, less <= more
  PROVE  SteeredWorst(more, more) <= SteeredWorst(less, less)
<1> DEFINE optimal == oxcf.optimal_buffer_level
           quarter == optimal \div 4
           r == oxcf.worst_quality - ni_av_qi
           d == (optimal * 3) \div 4
           part(level) == Quotient(r * (level - quarter), d)
<1>1. /\ oxcf.worst_quality \in Nat /\ ni_av_qi \in Nat /\ optimal \in Nat /\ r \in Nat
      /\ quarter \in Nat
  <2>1. oxcf.worst_quality \in Nat /\ ni_av_qi \in Nat /\ optimal \in Nat
    BY OxcfTyped
  <2>2. QED
    BY <2>1, DivNat
<1>2. ASSUME NEW level \in Int
      PROVE  SteeredWorst(level, level)
               = IF level >= optimal THEN ni_av_qi
                 ELSE IF level > quarter THEN oxcf.worst_quality - part(level)
                 ELSE oxcf.worst_quality
  BY <1>1, <1>2 DEF SteeredWorst, BelowOptimal, Least
<1>3. /\ SteeredWorst(less, less) \in Int /\ SteeredWorst(more, more) \in Int
      /\ ni_av_qi <= SteeredWorst(less, less)
      /\ SteeredWorst(more, more) <= oxcf.worst_quality
  <2>1. ASSUME NEW level \in Int
        PROVE  /\ SteeredWorst(level, level) \in Int
               /\ ni_av_qi <= SteeredWorst(level, level)
               /\ SteeredWorst(level, level) <= oxcf.worst_quality
    <3>1. /\ SteeredWorst(level, level) \in Int
          /\ \/ /\ ni_av_qi <= SteeredWorst(level, level)
                /\ SteeredWorst(level, level) <= oxcf.worst_quality
             \/ /\ oxcf.worst_quality <= SteeredWorst(level, level)
                /\ SteeredWorst(level, level) <= ni_av_qi
      BY <2>1, SteeredWorstBetween
    <3> HIDE DEF optimal, quarter, r, d, part
    <3>2. QED
      BY <1>1, <3>1
  <2>2. QED
    BY <2>1
<1>4. CASE more >= optimal
  BY <1>2, <1>3, <1>4
<1>5. CASE less <= quarter /\ more < optimal
  <2>1. less < optimal
    BY <1>1, <1>5
  <2>2. SteeredWorst(less, less) = oxcf.worst_quality
    BY <1>1, <1>2, <1>5, <2>1
  <2>3. QED
    BY <1>3, <2>2
<1>6. CASE less > quarter /\ more < optimal
  <2>1. less < optimal /\ more > quarter
    BY <1>1, <1>6
  <2>2. /\ SteeredWorst(less, less) = oxcf.worst_quality - part(less)
        /\ SteeredWorst(more, more) = oxcf.worst_quality - part(more)
    BY <1>1, <1>2, <1>6, <2>1
  <2>3. d \in Nat \ {0}
    BY <1>1, <1>6, <2>1
  <2>4. part(less) <= part(more) /\ part(less) \in Int /\ part(more) \in Int
    <3> DEFINE a == less - quarter
               b == more - quarter
    <3>1. a \in Nat /\ b \in Nat /\ a <= b
      BY <1>1, <1>6, <2>1
    <3> HIDE DEF a, b, r, d
    <3>2. r * a \in Nat /\ r * b \in Nat /\ r * a <= r * b
      BY <1>1, <3>1, ProductMonotone, ProductNat
    <3>3. Quotient(r * a, d) <= Quotient(r * b, d)
      BY <2>3, <3>2, QuotientMonotone
    <3>4. Quotient(r * a, d) \in Int /\ Quotient(r * b, d) \in Int
      BY <2>3, <3>2, QuotientInt
    <3>5. QED
      BY <3>3, <3>4 DEF a, b
  <2> HIDE DEF part
  <2>5. QED
    BY <1>1, <2>2, <2>4
<1>7. QED
  BY <1>1, <1>4, <1>5, <1>6

LEMMA InterWorstAntitone ==
  ASSUME TypeOK, ni_av_qi <= oxcf.worst_quality,
         NEW less \in Int, NEW more \in Int, less <= more
  PROVE  InterWorst(more, more) <= InterWorst(less, less)
<1> DEFINE worst(level) == IF ni_frames > NiDamping
                           THEN SteeredWorst(level, level) ELSE oxcf.worst_quality
           limit == oxcf.best_quality + 1
<1>1. MaxQ \in Nat /\ limit \in Nat /\ oxcf.worst_quality \in Nat
  <2>1. oxcf.best_quality \in Nat /\ oxcf.worst_quality \in Nat
    BY OxcfTyped
  <2>2. MaxQ \in Nat
    BY TableAssumption
  <2>3. QED
    BY <2>1, <2>2
<1>2. SteeredWorst(less, less) \in Int /\ SteeredWorst(more, more) \in Int
  BY SteeredWorstBetween
<1>3. worst(less) \in Int /\ worst(more) \in Int /\ worst(more) <= worst(less)
  BY <1>1, <1>2, SteeredWorstAntitone
<1>4. CASE ~buffered_mode
  BY <1>1, <1>4 DEF InterWorst
<1>5. CASE buffered_mode
  <2>1. /\ InterWorst(less, less) = Least(MaxQ, Greatest(worst(less), limit))
        /\ InterWorst(more, more) = Least(MaxQ, Greatest(worst(more), limit))
    BY <1>5 DEF InterWorst
  <2> HIDE DEF worst, limit
  <2>2. QED
    BY <1>1, <1>3, <2>1 DEF Least, Greatest
<1>6. QED
  BY <1>4, <1>5

\* Under the documented client, a fuller buffer never makes the inter frame
\* target smaller nor its worst index coarser.
THEOREM FullerBufferAlwaysSpendsMore == Spec => []FullerBufferSpendsMore
<1>1. ClientInv => FullerBufferSpendsMore
  <2> SUFFICES ASSUME ClientInv, phase # "created", NEW k \in -4 .. 11
               PROVE  /\ oxcf.under_shoot_pct >= 0 /\ oxcf.over_shoot_pct >= 0 =>
                           InterTarget(ProbeLevel(k), ProbeLevel(k))
                             <= InterTarget(ProbeLevel(k + 1), ProbeLevel(k + 1))
                      /\ InterWorst(ProbeLevel(k), ProbeLevel(k))
                           >= InterWorst(ProbeLevel(k + 1), ProbeLevel(k + 1))
    BY DEF FullerBufferSpendsMore
  <2> DEFINE optimal == oxcf.optimal_buffer_level
             less == ProbeLevel(k)
             more == ProbeLevel(k + 1)
  <2>1. TypeOK /\ ni_av_qi \in oxcf.best_quality .. oxcf.worst_quality
    BY DEF ClientInv, AnyInv, NiAverageInRange
  <2>2. optimal \in Nat /\ oxcf.best_quality \in Nat /\ oxcf.worst_quality \in Nat
    BY <2>1, OxcfTyped
  <2>3. ni_av_qi <= oxcf.worst_quality
    BY <2>1, <2>2
  <2>4. less \in Int /\ more \in Int /\ less <= more
    <3>1. k * optimal <= (k + 1) * optimal /\ k * optimal \in Int /\ (k + 1) * optimal \in Int
      BY <2>2, TimesMonotone
    <3>2. QED
      BY <3>1, DivMonotone, DivBounds DEF ProbeLevel
  <2> HIDE DEF less, more
  <2>5. oxcf.under_shoot_pct >= 0 /\ oxcf.over_shoot_pct >= 0 =>
          InterTarget(less, less) <= InterTarget(more, more)
    BY <2>1, <2>4, InterTargetMonotone
  <2>6. InterWorst(more, more) <= InterWorst(less, less)
    BY <2>1, <2>3, <2>4, InterWorstAntitone
  <2>7. InterWorst(more, more) \in Int /\ InterWorst(less, less) \in Int
    <3>1. \A level \in Int : SteeredWorst(level, level) \in Int
      BY <2>1, SteeredWorstBetween
    <3>2. MaxQ \in Nat
      BY TableAssumption
    <3>3. QED
      BY <2>2, <2>4, <3>1, <3>2 DEF InterWorst, Least, Greatest
  <2>8. QED
    BY <2>5, <2>6, <2>7 DEF less, more
<1>2. QED
  BY <1>1, InitClientInv, NextClientInv, PTL DEF Spec

-----------------------------------------------------------------------------
(* The index found is the nearest. *)

\* regulate_q is the search of Arithmetic_proofs.
LEMMA RegulateQIsNearestFit ==
  ASSUME NEW ft, NEW target, NEW best \in Nat, NEW worst \in Nat, best <= worst, NEW rcf
  PROVE  RegulateQ(ft, target, best, worst, rcf)
           = NearestFit([q \in best .. worst |-> BitsAt(ft, q, rcf)], target, best, worst)
<1> DEFINE f == [q \in best .. worst |-> BitsAt(ft, q, rcf)]
           fits == {q \in best .. worst : BitsAt(ft, q, rcf) <= target}
           first == CHOOSE q \in fits : \A p \in fits : q <= p
<1>1. fits = Fits(f, target, best, worst)
  BY DEF Fits
<1>2. first = FirstFit(f, target, best, worst)
  BY <1>1 DEF FirstFit
<1>3. CASE fits = {}
  BY <1>1, <1>3 DEF NearestFit, RegulateQ
<1>4. CASE fits # {}
  <2>1. first \in best .. worst
    <3>1. FirstFit(f, target, best, worst) \in Fits(f, target, best, worst)
      BY <1>1, <1>4, FirstFits
    <3>2. first \in fits
      BY <1>1, <1>2, <3>1
    <3>3. fits \subseteq best .. worst
      OBVIOUS
    <3>4. QED
      BY <3>2, <3>3
  <2>2. RegulateQ(ft, target, best, worst, rcf)
          = IF first = best THEN first
            ELSE IF target - BitsAt(ft, first, rcf) <= BitsAt(ft, first - 1, rcf) - target
            THEN first ELSE first - 1
    BY <1>4 DEF RegulateQ
  <2>3. NearestFit(f, target, best, worst)
          = IF first = best THEN first
            ELSE IF target - f[first] <= f[first - 1] - target THEN first ELSE first - 1
    BY <1>1, <1>2, <1>4 DEF NearestFit
  <2> HIDE DEF first
  <2>4. f[first] = BitsAt(ft, first, rcf)
        /\ (first # best => f[first - 1] = BitsAt(ft, first - 1, rcf))
    BY <2>1
  <2> HIDE DEF f
  <2>5. CASE first = best
    BY <2>2, <2>3, <2>5 DEF f
  <2>6. CASE first # best
    BY <2>2, <2>3, <2>4, <2>6 DEF f
  <2>7. QED
    BY <2>5, <2>6
<1>5. QED
  BY <1>3, <1>4

\* A coarser index never gives a larger frame.
LEMMA BitsAtAntitone ==
  ASSUME NEW ft \in FrameTypes, NEW p \in 0 .. MaxQ, NEW q \in 0 .. MaxQ, p <= q, NEW rcf \in Nat
  PROVE  /\ BitsAt(ft, q, rcf) \in Nat /\ BitsAt(ft, p, rcf) \in Nat
         /\ BitsAt(ft, q, rcf) <= BitsAt(ft, p, rcf)
<1> DEFINE a == BitsPerMb[ft][q]
           b == BitsPerMb[ft][p]
           half == RcfOne \div 2
<1>1. a \in Nat /\ b \in Nat /\ a <= b
  BY TableAssumption, MonotoneTableAssumption, ZenonT(60)
<1>2. RcfOne \in Nat \ {0} /\ half \in Nat
  <2>1. RcfOne \in Nat \ {0}
    BY ParameterAssumption
  <2>2. QED
    BY <2>1, DivNat
<1> HIDE DEF a, b, half
<1>3. rcf * a \in Nat /\ rcf * b \in Nat /\ rcf * a <= rcf * b
  BY <1>1, ProductMonotone, ProductNat
<1> DEFINE u == rcf * a + half
           v == rcf * b + half
<1>4. u \in Nat /\ v \in Nat /\ u <= v
  BY <1>2, <1>3
<1> HIDE DEF u, v
<1>5. u \div RcfOne \in Nat /\ v \div RcfOne \in Nat /\ u \div RcfOne <= v \div RcfOne
  BY <1>2, <1>4, DivMonotone, DivNat
<1>6. QED
  BY <1>5 DEF BitsAt, u, v, a, b, half

LEMMA TargetPerMbInt ==
  ASSUME NEW target \in Int, oxcf.MBs \in Nat \ {0}
  PROVE  TargetPerMb(target) \in Int
<1>1. Quotient(target, oxcf.MBs) \in Int /\ Quotient(target * 512, oxcf.MBs) \in Int
  BY QuotientInt
<1>2. QED
  BY <1>1 DEF TargetPerMb

\* Whatever the client calls, the index regulate_q stops at misses the target by
\* no more than any other index of the active range.
THEOREM AlwaysNearestQ == AnySpec => NearestQ
<1> DEFINE Step == \A ft \in FrameTypes : ComputeQp(ft) /\ oxcf.MBs > 0 =>
             LET target == TargetPerMb(Target(ft))
                 rcf    == rate_correction_factor[ft]
             IN  \A q \in ActiveBest(ft) .. ActiveWorst(ft) :
                   Distance(BitsAt(ft, base_qindex', rcf), target)
                     <= Distance(BitsAt(ft, q, rcf), target)
<1>1. AnyInv => Step
  <2> SUFFICES ASSUME AnyInv, NEW ft \in FrameTypes, ComputeQp(ft), oxcf.MBs > 0,
                      NEW q \in ActiveBest(ft) .. ActiveWorst(ft)
               PROVE  Distance(BitsAt(ft, base_qindex', rate_correction_factor[ft]),
                               TargetPerMb(Target(ft)))
                        <= Distance(BitsAt(ft, q, rate_correction_factor[ft]),
                                    TargetPerMb(Target(ft)))
    OBVIOUS
  <2> DEFINE best == ActiveBest(ft)
             worst == ActiveWorst(ft)
             rcf == rate_correction_factor[ft]
             target == TargetPerMb(Target(ft))
             f == [i \in best .. worst |-> BitsAt(ft, i, rcf)]
  <2>1. TypeOK
    BY DEF AnyInv
  <2>2. rcf \in Nat
    BY <2>1, ParameterAssumption DEF TypeOK
  <2>3. target \in Int
    <3>1. oxcf.MBs \in Nat \ {0}
      BY <2>1 DEF TypeOK, DerivedConfig
    <3>2. Target(ft) \in Int
      BY <2>1, TargetInt DEF AnyInv
    <3>3. QED
      BY <3>1, <3>2, TargetPerMbInt
  <2>4. best \in Nat /\ worst \in Nat /\ best <= worst /\ worst <= MaxQ /\ MaxQ \in Nat
    <3>1. MaxQ \in Nat
      BY TableAssumption
    <3>2. best \in 0 .. MaxQ /\ worst \in 0 .. MaxQ /\ best <= worst
      BY <2>1, ActiveRange
    <3> HIDE DEF best, worst
    <3>3. QED
      BY <3>1, <3>2
  <2>5. base_qindex' = RegulateQ(ft, target, best, worst, rcf)
    BY DEF ComputeQp
  <2> HIDE DEF best, worst, rcf, target
  <2>6. base_qindex' = NearestFit(f, target, best, worst)
    BY <2>4, <2>5, RegulateQIsNearestFit
  <2>7. base_qindex' \in best .. worst
    BY <2>4, <2>6, NearestFitInRange
  <2>8. \A i \in best .. worst : i \in 0 .. MaxQ
    BY <2>4
  <2>9. /\ \A i \in best .. worst : f[i] \in Int
        /\ \A i, j \in best .. worst : i <= j => f[j] <= f[i]
    BY <2>2, <2>8, BitsAtAntitone
  <2>10. q \in best .. worst
    BY DEF best, worst
  <2>11. f[base_qindex'] = BitsAt(ft, base_qindex', rcf) /\ f[q] = BitsAt(ft, q, rcf)
    BY <2>7, <2>10
  <2> HIDE DEF f
  <2>12. Distance(f[base_qindex'], target) <= Distance(f[q], target)
    BY <2>3, <2>4, <2>6, <2>9, <2>10, NearestFitNearest
  <2>13. QED
    BY <2>11, <2>12 DEF rcf, target
<1>2. AnyInv /\ [AnyNext]_vars => [Step]_vars
  BY <1>1
<1>3. QED
  BY <1>2, InitAnyInv, NextAnyInv, PTL DEF AnySpec, NearestQ
=============================================================================
