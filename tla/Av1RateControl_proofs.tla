------------------------ MODULE Av1RateControl_proofs -----------------------
(***************************************************************************)
(* Proofs about Av1RateControl, for all tables, configurations, frame      *)
(* sizes and numbers of frames that satisfy the module's assumptions.      *)
(***************************************************************************)
EXTENDS Av1RateControl, Arithmetic_proofs, FiniteSetTheorems, TLAPS

-----------------------------------------------------------------------------
(* What a configuration installs. *)

LEMMA MaxQNat == MaxQ \in Nat
  BY TableAssumption

LEMMA ConfigTyped ==
  ASSUME NEW c \in Config
  PROVE  /\ c.target_bandwidth \in Nat /\ c.buf_initial_sz \in Nat
         /\ c.buf_optimal_sz \in Nat /\ c.buf_sz \in Nat
         /\ c.undershoot_pct \in Int /\ c.overshoot_pct \in Int
         /\ c.max_intra_bitrate_pct \in Nat /\ c.max_inter_bitrate_pct \in Nat
         /\ c.framerate \in Nat /\ c.width \in Nat /\ c.height \in Nat
  BY DEF Config

\* The two qualities of a validated configuration are ordered indices.
LEMMA AllowedRange ==
  ASSUME NEW c \in Config, Validate(c), ReadsInTable(c)
  PROVE  /\ WorstAllowed(c) \in 0 .. MaxQ /\ BestAllowed(c) \in 0 .. MaxQ
         /\ BestAllowed(c) <= WorstAllowed(c)
<1>1. /\ c.max_quantizer \in 0 .. 63 /\ c.min_quantizer \in 0 .. 63
      /\ c.min_quantizer <= c.max_quantizer
  BY TableAssumption DEF Validate, ReadsInTable
<1>2. QED
  BY <1>1, TableAssumption DEF WorstAllowed, BestAllowed

\* Sizes of the bucket are natural numbers.
LEMMA SizesTyped ==
  ASSUME NEW c \in Config
  PROVE  /\ Bandwidth(c) \in Nat /\ StartingLevel(c) \in Nat
         /\ OptimalLevel(c) \in Nat /\ MaximumSize(c) \in Nat
<1>1. /\ c.target_bandwidth \in Nat /\ c.buf_initial_sz \in Nat
      /\ c.buf_optimal_sz \in Nat /\ c.buf_sz \in Nat
  BY ConfigTyped
<1>2. Bandwidth(c) \in Nat
  BY <1>1 DEF Bandwidth
<1>3. \A ms \in Nat : BufferBits(c, ms) \in Nat /\ BufferBitsOrDefault(c, ms) \in Nat
  <2> TAKE ms \in Nat
  <2>1. BufferBits(c, ms) \in Nat
    BY <1>2, ScaledNat DEF BufferBits
  <2>2. QED
    BY <1>2, <2>1, DivNat DEF BufferBitsOrDefault
<1>4. QED
  BY <1>1, <1>2, <1>3 DEF StartingLevel, OptimalLevel, MaximumSize

\* And so are the frame sizes a rate gives.
LEMMA FrameSizesTyped ==
  ASSUME NEW c \in Config, NEW rate \in Nat
  PROVE  /\ Framerate(rate) \in Nat \ {0}
         /\ AverageBandwidth(c, rate) \in Nat /\ MaximumBandwidth(c, rate) \in Nat
         /\ Mbs(c) \in Nat
<1>1. Framerate(rate) \in Nat \ {0}
  BY DEF Framerate
<1>2. AverageBandwidth(c, rate) \in Nat
  BY <1>1, SizesTyped, DivNat DEF AverageBandwidth
<1>3. \A x \in Nat : Blocks(x) \in Nat
  BY DEF Blocks
<1>4. Mbs(c) \in Nat
  BY <1>3, ConfigTyped, ProductNat DEF Mbs
<1>5. Mbs(c) * MaxMbRate \in Nat
  BY <1>4 DEF MaxMbRate
<1>6. MaximumBandwidth(c, rate) \in Nat
  BY <1>2, <1>5 DEF MaximumBandwidth, Greatest, Maxrate1080P
<1>7. QED
  BY <1>1, <1>2, <1>4, <1>6

\* The installed values, in a state with an engine.
LEMMA InstalledTyped ==
  ASSUME TypeOK, phase # "created"
  PROVE  /\ worst_quality \in 0 .. MaxQ /\ best_quality \in 0 .. MaxQ
         /\ best_quality <= worst_quality /\ MaxQ \in Nat
         /\ optimal_buffer_level \in Nat /\ maximum_buffer_size \in Nat
         /\ avg_frame_bandwidth \in Nat /\ max_frame_bandwidth \in Nat
         /\ MBs \in Nat
<1>1. oxcf \in Config /\ Validate(oxcf) /\ ReadsInTable(oxcf) /\ init_framerate \in Nat
  BY DEF TypeOK
<1>2. QED
  BY <1>1, AllowedRange, SizesTyped, FrameSizesTyped, TableAssumption
     DEF worst_quality, best_quality, optimal_buffer_level, maximum_buffer_size,
         avg_frame_bandwidth, max_frame_bandwidth, MBs

-----------------------------------------------------------------------------
(* What the operators return in a well-typed state. *)

LEMMA CappedNat ==
  ASSUME TypeOK, phase # "created", NEW target \in Int, NEW pct \in Nat
  PROVE  /\ Capped(target, pct) \in Int
         /\ target >= 0 => Capped(target, pct) >= 0
<1>1. avg_frame_bandwidth * pct \in Nat
  BY InstalledTyped, ProductNat
<1>2. (avg_frame_bandwidth * pct) \div 100 \in Nat
  BY <1>1, DivNat
<1>3. QED
  BY <1>2 DEF Capped, Least

LEMMA InterTargetNat ==
  ASSUME TypeOK, phase # "created"
  PROVE  InterTarget \in Nat
<1> DEFINE diff == optimal_buffer_level - buffer_level
           one_pct_bits == 1 + optimal_buffer_level \div 100
           avg == avg_frame_bandwidth
           target ==
             IF diff > 0
             THEN avg - Quotient(avg * Least(diff \div one_pct_bits, oxcf.undershoot_pct), 200)
             ELSE IF diff < 0
             THEN avg + Quotient(avg * Least((-diff) \div one_pct_bits, oxcf.overshoot_pct), 200)
             ELSE avg
<1>1. /\ avg \in Nat /\ diff \in Int /\ oxcf.undershoot_pct \in Int
      /\ oxcf.overshoot_pct \in Int /\ oxcf.max_inter_bitrate_pct \in Nat
  <2>1. oxcf \in Config /\ buffer_level \in Int
    BY DEF TypeOK
  <2>2. QED
    BY <2>1, InstalledTyped, ConfigTyped
<1>2. one_pct_bits \in Nat \ {0}
  BY InstalledTyped, DivNat
<1>3. target \in Int
  <2> DEFINE below == Least(diff \div one_pct_bits, oxcf.undershoot_pct)
             above == Least((-diff) \div one_pct_bits, oxcf.overshoot_pct)
  <2> HIDE DEF diff, one_pct_bits, avg
  <2>1. below \in Int /\ above \in Int
    BY <1>1, <1>2, DivBounds DEF Least
  <2> HIDE DEF below, above
  <2>2. avg * below \in Int /\ avg * above \in Int
    BY <1>1, <2>1
  <2>3. Quotient(avg * below, 200) \in Int /\ Quotient(avg * above, 200) \in Int
    BY <2>2, QuotientInt
  <2>4. target \in {avg - Quotient(avg * below, 200), avg + Quotient(avg * above, 200), avg}
    BY DEF below, above
  <2> HIDE DEF target
  <2>5. QED
    BY <1>1, <2>3, <2>4
<1>4. Capped(target, oxcf.max_inter_bitrate_pct) \in Int
  <2> HIDE DEF target
  <2>1. QED
    BY <1>1, <1>3, CappedNat
<1>5. avg \div 16 \in Nat
  BY <1>1, DivNat
<1>6. InterTarget = Greatest(Greatest(avg \div 16, FrameOverheadBits),
                             Capped(target, oxcf.max_inter_bitrate_pct))
  BY DEF InterTarget
<1> HIDE DEF avg, target
<1>7. QED
  BY <1>4, <1>5, <1>6 DEF Greatest, FrameOverheadBits

LEMMA KeyTargetNat ==
  ASSUME TypeOK, phase # "created"
  PROVE  KeyTarget \in Nat
<1> DEFINE rate == Framerate(init_framerate)
           boost == Greatest(32, 2 * rate - 16)
           kf_boost == IF 2 * frames_since_key < rate
                       THEN (2 * boost * frames_since_key) \div rate ELSE boost
           target == IF frame_number = 0 THEN StartingLevel(oxcf) \div 2
                     ELSE ((16 + kf_boost) * avg_frame_bandwidth) \div 16
<1>1. /\ rate \in Nat \ {0} /\ frames_since_key \in Nat /\ oxcf \in Config
      /\ oxcf.max_intra_bitrate_pct \in Nat
  <2>1. oxcf \in Config /\ init_framerate \in Nat /\ frames_since_key \in {0, 8}
    BY DEF TypeOK
  <2>2. QED
    BY <2>1, FrameSizesTyped, ConfigTyped
<1>2. boost \in Nat
  BY <1>1 DEF Greatest
<1>3. kf_boost \in Nat
  <2> HIDE DEF boost
  <2>1. 2 * boost * frames_since_key \in Nat
    BY <1>1, <1>2, ProductNat
  <2>2. QED
    BY <1>1, <1>2, <2>1, DivNat
<1>4. target \in Nat
  <2> HIDE DEF kf_boost
  <2>1. (16 + kf_boost) * avg_frame_bandwidth \in Nat
    BY <1>3, InstalledTyped, ProductNat
  <2>2. StartingLevel(oxcf) \in Nat
    BY <1>1, SizesTyped
  <2>3. QED
    BY <2>1, <2>2, DivNat
<1>5. KeyTarget = Least(Capped(target, oxcf.max_intra_bitrate_pct), max_frame_bandwidth)
  BY DEF KeyTarget
<1> HIDE DEF target
<1>6. Capped(target, oxcf.max_intra_bitrate_pct) \in Nat
  <2> DEFINE pct == oxcf.max_intra_bitrate_pct
  <2>1. target \in Int /\ target >= 0 /\ pct \in Nat
    BY <1>1, <1>4
  <2> HIDE DEF pct
  <2>2. Capped(target, pct) \in Int /\ Capped(target, pct) >= 0
    BY <2>1, CappedNat
  <2>3. QED
    BY <2>2 DEF pct
<1>7. QED
  BY <1>5, <1>6, InstalledTyped DEF Least

LEMMA FrameTargetNat ==
  ASSUME TypeOK, phase # "created", NEW ft \in FrameTypes
  PROVE  FrameTarget(ft) \in Nat
  BY KeyTargetNat, InterTargetNat DEF FrameTarget, FrameTypes

\* Above the optimal level something is taken off the worst index, in all but
\* the starting state.
LEMMA ReliefInt ==
  ASSUME TypeOK, phase # "created", NEW worst \in Nat
  PROVE  Relief(worst) \in Int
<1> DEFINE third == worst \div 3
           step == Quotient(maximum_buffer_size - optimal_buffer_level, third)
<1>1. third \in Nat /\ maximum_buffer_size - optimal_buffer_level \in Int
      /\ buffer_level - optimal_buffer_level \in Int
  BY InstalledTyped, DivNat DEF TypeOK
<1>2. CASE third = 0 \/ step = 0
  BY <1>2 DEF Relief
<1>3. CASE third # 0 /\ step # 0
  <2>1. step \in Int \ {0}
    <3> HIDE DEF third
    <3>1. QED
      BY <1>1, <1>3, QuotientInt
  <2>2. Relief(worst) = Quotient(buffer_level - optimal_buffer_level, step)
    BY <1>3 DEF Relief
  <2> HIDE DEF step
  <2>3. QED
    BY <1>1, <2>1, <2>2, QuotientInt
<1>4. QED
  BY <1>2, <1>3

LEMMA ActiveWorstInt ==
  ASSUME TypeOK, phase # "created", NEW ft \in FrameTypes, NEW n \in Nat
  PROVE  ActiveWorst(ft, n) \in Int
<1> DEFINE ambient == IF n < 5 THEN Least(avg_frame_qindex["inter"], avg_frame_qindex["key"])
                      ELSE avg_frame_qindex["inter"]
           worst == Least(worst_quality, (5 * ambient) \div 4)
           critical == optimal_buffer_level \div 8
<1>1. ambient \in Nat
  <2>1. avg_frame_qindex["inter"] \in Nat /\ avg_frame_qindex["key"] \in Nat
    BY InstalledTyped DEF TypeOK, FrameTypes
  <2>2. QED
    BY <2>1 DEF Least
<1>2. worst \in Nat
  <2> HIDE DEF ambient
  <2>1. (5 * ambient) \div 4 \in Nat
    BY <1>1, DivNat
  <2>2. QED
    BY <2>1, InstalledTyped DEF Least
<1>3. Relief(worst) \in Int
  <2> HIDE DEF worst
  <2>1. QED
    BY <1>2, ReliefInt
<1>4. critical \in Nat /\ critical <= optimal_buffer_level
  BY InstalledTyped, DivNat, DivBounds
<1>5. /\ buffer_level \in Int /\ optimal_buffer_level \in Nat /\ worst_quality \in Nat
  BY InstalledTyped DEF TypeOK
<1>6. CASE /\ ft # "key" /\ ~(buffer_level > optimal_buffer_level)
           /\ ~(buffer_level <= critical) /\ critical # 0
  <2> DEFINE d == optimal_buffer_level - critical
  <2>1. d \in Nat \ {0}
    <3> HIDE DEF critical
    <3>1. QED
      BY <1>4, <1>5, <1>6
  <2>2. ActiveWorst(ft, n)
          = ambient + Quotient((worst_quality - ambient)
                               * (optimal_buffer_level - buffer_level), d)
    BY <1>6 DEF ActiveWorst
  <2> HIDE DEF d, ambient
  <2>3. (worst_quality - ambient) * (optimal_buffer_level - buffer_level) \in Int
    BY <1>1, <1>5
  <2>4. QED
    BY <1>1, <2>1, <2>2, <2>3, QuotientInt
<1>7. ActiveWorst(ft, n) \in {worst_quality, worst, worst - Relief(worst)}
      \/ (/\ ft # "key" /\ ~(buffer_level > optimal_buffer_level)
          /\ ~(buffer_level <= critical) /\ critical # 0)
  BY DEF ActiveWorst
<1> HIDE DEF worst, critical
<1>8. QED
  BY <1>2, <1>3, <1>5, <1>6, <1>7

LEMMA ActiveBestInTable ==
  ASSUME TypeOK, phase # "created", NEW ft \in FrameTypes, NEW n \in Nat, NEW limit \in Int,
         ft = "inter" => limit >= 0
  PROVE  ActiveBest(ft, n, limit) \in 0 .. MaxQ
<1> DEFINE recent == avg_frame_qindex[IF n > 1 THEN "inter" ELSE "key"]
<1>1. recent \in 0 .. MaxQ
  BY DEF TypeOK, FrameTypes
<1>2. CASE ft = "key"
  BY <1>2, InstalledTyped DEF ActiveBest
<1>3. CASE ft # "key"
  <2>1. limit >= 0
    BY <1>3 DEF FrameTypes
  <2>2. Least(recent, limit) \in 0 .. MaxQ
    <3> HIDE DEF recent
    <3>1. QED
      BY <1>1, <2>1, InstalledTyped DEF Least
  <2>3. RtcMinQ[Least(recent, limit)] \in 0 .. MaxQ
    BY <2>2, TableAssumption
  <2>4. QED
    BY <1>3, <2>3 DEF ActiveBest
<1>4. QED
  BY <1>2, <1>3

\* The search stays in the range it is given, whatever the frame costs.
LEMMA NearestQInRange ==
  ASSUME NEW ft, NEW target, NEW rcf, NEW best \in Nat, NEW worst \in Nat, best <= worst
  PROVE  NearestQ(ft, target, best, worst, rcf) \in best .. worst
<1> DEFINE fits == {q \in best .. worst : BitsAt(ft, q, rcf) <= target}
           first == CHOOSE q \in fits : \A p \in fits : q <= p
<1>1. CASE fits = {}
  BY <1>1 DEF NearestQ
<1>2. CASE fits # {}
  <2>1. fits \in SUBSET Nat
    OBVIOUS
  <2>2. \E m \in fits : \A p \in fits : m <= p
    <3> HIDE DEF fits
    <3>1. QED
      BY <1>2, <2>1, LeastElement
  <2>3. first \in best .. worst
    BY <2>2
  <2>4. NearestQ(ft, target, best, worst, rcf) \in {first} \cup
          (IF first = best THEN {} ELSE {first - 1})
    BY <1>2 DEF NearestQ
  <2> HIDE DEF first
  <2>5. QED
    BY <2>3, <2>4
<1>3. QED
  BY <1>1, <1>2

\* The damped index is a number at most MaxDelta below the last one, where
\* that limit applies.
LEMMA DampedTyped ==
  ASSUME TypeOK, NEW ft \in FrameTypes, NEW q \in Int
  PROVE  /\ Damped(ft, q) \in Int
         /\ ft = "inter" /\ frames_since_key > 1 => Damped(ft, q) >= q_1_frame - MaxDelta
<1>1. q_1_frame \in Int /\ q_2_frame \in Int
  <2>1. q_1_frame \in 0 .. MaxQ /\ q_2_frame \in 0 .. MaxQ
    BY DEF TypeOK
  <2>2. QED
    BY <2>1
<1>2. Clamp(q, Least(q_1_frame, q_2_frame), Greatest(q_1_frame, q_2_frame)) \in Int
  BY <1>1 DEF Clamp, Least, Greatest
<1>3. q_1_frame - MaxDelta \in Int
  BY <1>1 DEF MaxDelta
<1>4. QED
  BY <1>2, <1>3 DEF Damped, Greatest

\* The index of a frame lies in the installed range.  Where decreases are
\* limited, it is above the limit or not below the active worst index.
LEMMA PickQRange ==
  ASSUME TypeOK, phase # "created", NEW ft \in FrameTypes, NEW n \in Nat, NEW target \in Nat,
         ~Undefined(ft, n)
  PROVE  /\ PickQ(ft, n, target) \in best_quality .. worst_quality
         /\ ft = "inter" /\ frames_since_key > 1 =>
              \/ PickQ(ft, n, target) >= q_1_frame - MaxDelta
              \/ PickQ(ft, n, target) >= Least(worst_quality, ActiveWorst(ft, n))
<1> DEFINE limit == ActiveWorst(ft, n)
           best  == Clamp(ActiveBest(ft, n, limit), best_quality, worst_quality)
           worst == Clamp(limit, best, worst_quality)
           near  == NearestQ(ft, Scaled(target, 512, MBs), best, worst, CorrectionFactor(ft))
           q     == AdjustQ(ft, near)
<1>1. limit \in Int /\ (ft = "inter" => limit >= 0)
  BY ActiveWorstInt DEF Undefined
<1>2. /\ worst_quality \in Nat /\ best_quality \in Nat /\ best_quality <= worst_quality
      /\ q_1_frame \in Int
  BY InstalledTyped DEF TypeOK
<1>3. best \in best_quality .. worst_quality
  <2> HIDE DEF limit
  <2>1. ActiveBest(ft, n, limit) \in Int
    BY <1>1, ActiveBestInTable, InstalledTyped
  <2>2. Clamp(ActiveBest(ft, n, limit), best_quality, worst_quality)
          \in best_quality .. worst_quality
    BY <1>2, <2>1 DEF Clamp
  <2>3. QED
    BY <2>2
<1>4. worst \in best .. worst_quality /\ worst >= Least(worst_quality, limit)
  <2> HIDE DEF limit, best
  <2>1. best \in Int /\ best <= worst_quality
    BY <1>2, <1>3
  <2>2. QED
    BY <1>1, <1>2, <2>1 DEF Clamp, Least
<1>5. near \in best .. worst
  <2> HIDE DEF limit, best, worst
  <2>1. best \in Nat /\ worst \in Nat /\ best <= worst
    BY <1>2, <1>3, <1>4
  <2>2. QED
    BY <2>1, NearestQInRange
<1>6. near \in Int
  <2> HIDE DEF limit, best, worst, near
  <2>1. QED
    BY <1>2, <1>3, <1>4, <1>5
<1>7. /\ q \in best_quality .. worst_quality
      /\ q >= Damped(ft, near) \/ q >= worst_quality
  <2> HIDE DEF near
  <2>1. Damped(ft, near) \in Int
    BY <1>6, DampedTyped
  <2>2. QED
    BY <1>2, <2>1 DEF AdjustQ, Least, Greatest
<1>8. ft = "inter" /\ frames_since_key > 1 => Damped(ft, near) >= q_1_frame - MaxDelta
  <2> HIDE DEF near
  <2>1. QED
    BY <1>6, DampedTyped
<1>9. PickQ(ft, n, target) \in {q, worst}
  BY DEF PickQ
<1>10. /\ Damped(ft, near) \in Int /\ MaxDelta \in Int
       /\ Least(worst_quality, limit) <= worst_quality
  <2> HIDE DEF near, limit
  <2>1. QED
    BY <1>1, <1>2, <1>6, DampedTyped DEF MaxDelta, Least
<1>11. Least(worst_quality, limit) \in Int
  BY <1>1, <1>2 DEF Least
<1> HIDE DEF limit, best, worst, near, q
<1>12. PickQ(ft, n, target) \in best_quality .. worst_quality
  BY <1>2, <1>3, <1>4, <1>7, <1>9
<1>13. ASSUME ft = "inter", frames_since_key > 1
       PROVE  \/ PickQ(ft, n, target) >= q_1_frame - MaxDelta
              \/ PickQ(ft, n, target) >= Least(worst_quality, limit)
  <2>1. CASE PickQ(ft, n, target) = worst
    BY <1>4, <2>1
  <2>2. CASE PickQ(ft, n, target) = q
    BY <1>2, <1>7, <1>8, <1>10, <1>11, <1>13, <2>2
  <2>3. QED
    BY <1>9, <2>1, <2>2
<1>14. QED
  BY <1>12, <1>13 DEF limit

-----------------------------------------------------------------------------
(* A bucket within its maximum. *)

\* It takes no more off the worst index than the index itself.
LEMMA ReliefAtMost ==
  ASSUME TypeOK, phase # "created", NEW worst \in Nat,
         buffer_level > optimal_buffer_level, buffer_level <= maximum_buffer_size
  PROVE  Relief(worst) <= worst
<1> DEFINE third == worst \div 3
           span == maximum_buffer_size - optimal_buffer_level
           step == Quotient(span, third)
           x == buffer_level - optimal_buffer_level
<1>1. third \in Nat /\ 2 * third <= worst
  BY DivNat, DivBounds
<1>2. span \in Nat /\ x \in Nat /\ x <= span
  BY InstalledTyped DEF TypeOK
<1>3. CASE third = 0 \/ step = 0
  BY <1>3 DEF Relief
<1>4. CASE third # 0 /\ step # 0
  <2>1. Relief(worst) = Quotient(x, step)
    BY <1>4 DEF Relief
  <2>2. step \in Nat \ {0} /\ span < third * step + third
    <3> HIDE DEF third, span
    <3>1. step = span \div third
      BY <1>1, <1>2, <1>4, QuotientPositive
    <3>2. QED
      BY <1>1, <1>2, <1>4, <3>1, DivNat, DivBounds
  <2> HIDE DEF third, span, step, x
  <2>3. third * step + third <= 2 * third * step
    BY <1>1, <2>2
  <2>4. (2 * third) * step <= worst * step
    BY <1>1, <2>2, TimesMonotone
  <2>5. third * step \in Nat /\ worst * step \in Nat
    BY <1>1, <2>2, ProductNat
  <2>6. (2 * third) * step = 2 * third * step /\ 2 * third * step = 2 * (third * step)
    BY <1>1, <2>2
  <2>7. x <= worst * step
    BY <1>1, <1>2, <2>2, <2>3, <2>4, <2>5, <2>6
  <2>8. x \div step <= worst
    BY <1>2, <2>2, <2>7, DivAtMost
  <2>9. QED
    BY <1>2, <2>1, <2>2, <2>8, QuotientPositive
<1>5. QED
  BY <1>3, <1>4

\* So the worst index stays one of the table.
LEMMA ActiveWorstNatural ==
  ASSUME TypeOK, phase # "created", NEW ft \in FrameTypes, NEW n \in Nat,
         buffer_level <= maximum_buffer_size
  PROVE  ActiveWorst(ft, n) >= 0
<1> DEFINE ambient == IF n < 5 THEN Least(avg_frame_qindex["inter"], avg_frame_qindex["key"])
                      ELSE avg_frame_qindex["inter"]
           worst == Least(worst_quality, (5 * ambient) \div 4)
           critical == optimal_buffer_level \div 8
           r == worst_quality - ambient
           x == optimal_buffer_level - buffer_level
           d == optimal_buffer_level - critical
<1>1. ambient \in Nat
  <2>1. avg_frame_qindex["inter"] \in Nat /\ avg_frame_qindex["key"] \in Nat
    BY InstalledTyped DEF TypeOK, FrameTypes
  <2>2. QED
    BY <2>1 DEF Least
<1>2. worst \in Nat
  <2> HIDE DEF ambient
  <2>1. (5 * ambient) \div 4 \in Nat
    BY <1>1, DivNat
  <2>2. QED
    BY <2>1, InstalledTyped DEF Least
<1>3. buffer_level \in Int /\ optimal_buffer_level \in Nat /\ worst_quality \in Nat
      /\ critical \in Nat
  BY InstalledTyped, DivNat DEF TypeOK
<1>4. CASE ft = "key"
  BY <1>3, <1>4 DEF ActiveWorst
<1>5. CASE ft # "key" /\ buffer_level > optimal_buffer_level
  <2>1. ActiveWorst(ft, n) = worst - Relief(worst)
    BY <1>5 DEF ActiveWorst
  <2> HIDE DEF worst
  <2>2. Relief(worst) <= worst /\ Relief(worst) \in Int
    BY <1>2, <1>5, ReliefAtMost, ReliefInt
  <2>3. QED
    BY <1>2, <2>1, <2>2
<1>6. CASE /\ ft # "key" /\ ~(buffer_level > optimal_buffer_level)
           /\ ~(buffer_level <= critical) /\ critical # 0
  <2>1. ActiveWorst(ft, n) = ambient + Quotient(r * x, d)
    BY <1>6 DEF ActiveWorst
  <2>2. r \in Int /\ x \in Nat /\ d \in Nat \ {0} /\ x <= d
    <3> HIDE DEF ambient, critical
    <3>1. QED
      BY <1>1, <1>3, <1>6
  <2>3. ambient + r \in Nat
    <3> HIDE DEF ambient
    <3>1. QED
      BY <1>1, <1>3
  <2> HIDE DEF ambient, r, x, d
  <2>4. /\ Quotient(r * x, d) \in Int
        /\ r >= 0 => Quotient(r * x, d) >= 0 /\ Quotient(r * x, d) <= r
        /\ r <= 0 => Quotient(r * x, d) <= 0 /\ Quotient(r * x, d) >= r
    BY <2>2, FractionBetween
  <2>5. QED
    BY <1>1, <2>1, <2>2, <2>3, <2>4
<1>7. CASE /\ ft # "key" /\ ~(buffer_level > optimal_buffer_level)
           /\ buffer_level <= critical \/ critical = 0
  <2>1. ActiveWorst(ft, n) \in {worst_quality, worst}
    BY <1>7 DEF ActiveWorst
  <2> HIDE DEF worst
  <2>2. QED
    BY <1>2, <1>3, <2>1
<1>8. QED
  BY <1>4, <1>5, <1>6, <1>7

-----------------------------------------------------------------------------
(* The feedback of a coded frame. *)

LEMMA DampingNat ==
  ASSUME NEW factor \in Nat
  PROVE  Damping(factor) \in Nat
<1> DEFINE far == {d \in Decade : factor >= d \/ factor * d <= 10000}
<1>1. far \subseteq 0 .. 1000
  BY DEF Decade
<1> HIDE DEF far
<1> DEFINE low  == 0
           high == 1000
<1>2. far \subseteq low .. high /\ low \in Int /\ high \in Int
  BY <1>1
<1> HIDE DEF low, high
<1>3. IsFiniteSet(far)
  BY <1>2, FS_Interval, FS_Subset
<1>4. Cardinality(far) \in Nat
  BY <1>3, FS_CardinalityType
<1>5. QED
  BY <1>4 DEF Damping, far

LEMMA CorrectionFactorBetween ==
  ASSUME TypeOK, NEW ft \in FrameTypes
  PROVE  CorrectionFactor(ft) \in RcfMin .. RcfMax
<1>1. rate_correction_factors[ft] \in Int
  BY ParameterAssumption DEF TypeOK
<1>2. RcfMin \in Int /\ RcfMax \in Int /\ RcfMin <= RcfMax
  BY ParameterAssumption
<1>3. QED
  BY <1>1, <1>2 DEF CorrectionFactor, Clamp

LEMMA BitsAtNat ==
  ASSUME NEW ft \in FrameTypes, NEW q \in 0 .. MaxQ, NEW rcf \in Nat
  PROVE  BitsAt(ft, q, rcf) \in Nat
<1>1. AcQLookup[q] \in Nat \ {0}
  BY TableAssumption
<1>2. BitsPerMb[ft][q] = (4 * (IF ft = "key" THEN 2000000 ELSE 1500000)) \div AcQLookup[q]
  BY DEF BitsPerMb
<1>3. BitsPerMb[ft][q] \in Nat
  BY <1>1, <1>2, DivNat
<1>4. QED
  BY <1>3, ScaledNat, ParameterAssumption DEF BitsAt

LEMMA EstimateNat ==
  ASSUME TypeOK, phase # "created"
  PROVE  EstimatedBits(frame_type, base_qindex, CorrectionFactor(frame_type)) \in Nat
<1> DEFINE rcf == CorrectionFactor(frame_type)
<1>1. frame_type \in FrameTypes /\ base_qindex \in 0 .. MaxQ
  BY DEF TypeOK
<1>2. rcf \in Nat
  BY <1>1, CorrectionFactorBetween, ParameterAssumption
<1> HIDE DEF rcf
<1>3. BitsAt(frame_type, base_qindex, rcf) \in Nat
  BY <1>1, <1>2, BitsAtNat
<1>4. Scaled(BitsAt(frame_type, base_qindex, rcf), MBs, 512) \in Nat
  BY <1>3, InstalledTyped, ScaledNat
<1>5. QED
  BY <1>4 DEF EstimatedBits, Greatest, FrameOverheadBits, rcf

LEMMA FramePctNat ==
  ASSUME TypeOK, phase # "created", NEW bits \in Nat
  PROVE  FramePct(bits) \in Nat
<1> DEFINE estimate == EstimatedBits(frame_type, base_qindex, CorrectionFactor(frame_type))
<1>1. estimate \in Nat
  BY EstimateNat
<1>2. FramePct(bits) = SizePct(bits, estimate)
  BY DEF FramePct
<1> HIDE DEF estimate
<1>3. estimate > FrameOverheadBits => (100 * bits) \div estimate \in Nat
  BY <1>1, DivNat DEF FrameOverheadBits
<1>4. QED
  BY <1>2, <1>3 DEF SizePct

LEMMA CorrectedBetween ==
  ASSUME TypeOK, phase # "created", NEW bits \in Nat
  PROVE  Corrected(bits) \in RcfMin .. RcfMax
<1> DEFINE pct == FramePct(bits)
           rcf == CorrectionFactor(frame_type)
<1>1. pct \in Nat
  BY FramePctNat
<1>2. Damping(pct) \in Nat
  <2> HIDE DEF pct
  <2>1. QED
    BY <1>1, DampingNat
<1>3. CorrectionPct(pct) \in Int
  <2> HIDE DEF pct
  <2>1. (pct - 100) * Damping(pct) \in Int /\ (100 - pct) * Damping(pct) \in Int
    BY <1>1, <1>2
  <2>2. ((pct - 100) * Damping(pct)) \div 100 \in Int
        /\ (10000 - (100 - pct) * Damping(pct)) \div 100 \in Int
    BY <2>1, DivBounds
  <2>3. QED
    BY <2>2 DEF CorrectionPct
<1>4. rcf \in Int
  BY CorrectionFactorBetween, ParameterAssumption DEF TypeOK
<1>5. (rcf * CorrectionPct(pct)) \div 100 \in Int
  <2> HIDE DEF pct, rcf
  <2>1. rcf * CorrectionPct(pct) \in Int
    BY <1>3, <1>4
  <2>2. QED
    BY <2>1, DivBounds
<1>6. Corrected(bits) = Clamp((rcf * CorrectionPct(pct)) \div 100, RcfMin, RcfMax)
  BY DEF Corrected
<1> HIDE DEF pct, rcf
<1>7. QED
  BY <1>5, <1>6, ParameterAssumption DEF Clamp

\* The level after a frame never exceeds the maximum.
LEMMA DrainedAtMost ==
  ASSUME TypeOK, phase # "created", NEW bits \in Nat
  PROVE  Drained(bits) \in Int /\ Drained(bits) <= maximum_buffer_size
<1>1. buffer_level + (IF show_frame THEN avg_frame_bandwidth ELSE 0) - bits \in Int
  BY InstalledTyped DEF TypeOK
<1>2. QED
  BY <1>1, InstalledTyped DEF Drained, Least

-----------------------------------------------------------------------------
(* Invariants for the documented client. *)

\* A bucket that does not start over its maximum stays within it.
LevelWithinMaximum ==
  phase # "created" /\ StartingLevel(oxcf) <= MaximumSize(oxcf)
    => buffer_level <= maximum_buffer_size

ClientInv ==
  /\ TypeOK /\ QpInRange /\ DecreaseLimited
  /\ LevelWithinMaximum /\ FaultNeedsOverfullStart

LEMMA InitClientInv == Init => ClientInv
<1> SUFFICES ASSUME Init PROVE ClientInv
  OBVIOUS
<1>1. MaxQ \in Nat /\ RcfMax \in Nat
  BY TableAssumption, ParameterAssumption
<1>2. TypeOK
  BY <1>1 DEF Init, TypeOK, FrameTypes, Faults, Phases
<1>3. QED
  BY <1>2 DEF Init, ClientInv, QpInRange, DecreaseLimited, LevelWithinMaximum,
              FaultNeedsOverfullStart

\* A call that leaves the engine alone; one that ends the process was made
\* with the bucket too full or a quantizer outside the table.
LEMMA UnchangedClientInv ==
  ASSUME ClientInv, UNCHANGED <<phase, engine>>, frames' \in Nat, updates' \in Nat,
         fault' \in Faults,
         fault' = "below_table" /\ fault # "below_table" =>
           StartingLevel(oxcf) > MaximumSize(oxcf)
  PROVE  ClientInv'
<1>1. /\ UNCHANGED <<oxcf, init_framerate, projected_frame_size>>
      /\ UNCHANGED <<buffer_level, rate_correction_factors, avg_frame_qindex, frames_since_key>>
      /\ UNCHANGED <<rc_1_frame, rc_2_frame, q_1_frame, q_2_frame>>
      /\ UNCHANGED <<this_frame_target, frame_type, frame_number, base_qindex>>
      /\ phase' = phase
  BY DEF engine, rc, history, frame
<1>2. TypeOK'
  BY <1>1 DEF ClientInv, TypeOK
<1>3. FaultNeedsOverfullStart'
  BY <1>1 DEF ClientInv, FaultNeedsOverfullStart
<1>4. QpInRange' /\ LevelWithinMaximum'
  BY <1>1 DEF ClientInv, QpInRange, LevelWithinMaximum, best_quality, worst_quality,
              maximum_buffer_size
<1>5. DecreaseLimited'
  BY <1>1 DEF ClientInv, DecreaseLimited, ActiveWorst, Relief, worst_quality,
              maximum_buffer_size, optimal_buffer_level
<1>6. QED
  BY <1>2, <1>3, <1>4, <1>5 DEF ClientInv

\* A new configuration, and the level and averages it starts.
LEMMA InstallClientInv ==
  ASSUME ClientInv, NEW c \in Configs, Validate(c), ReadsInTable(c), Install(c),
         phase' = "idle", frames' \in Nat, updates' \in Nat, fault' = "none"
  PROVE  ClientInv'
<1>1. c \in Config
  BY ParameterAssumption
<1>2. oxcf' \in Config /\ Validate(oxcf') /\ ReadsInTable(oxcf')
  BY <1>1 DEF Install
<1>3. init_framerate' \in Nat
  BY <1>1, ConfigTyped DEF ClientInv, TypeOK, Install, InstalledRate
<1>4. buffer_level' \in Int /\ frames_since_key' \in {0, 8}
  BY <1>1, SizesTyped DEF Install
<1>5. rate_correction_factors' \in [FrameTypes -> 0 .. RcfMax]
  BY ParameterAssumption DEF Install
<1>6. avg_frame_qindex' \in [FrameTypes -> 0 .. MaxQ]
  BY <1>1, AllowedRange DEF Install
<1>7. /\ UNCHANGED <<rc_1_frame, rc_2_frame, q_1_frame, q_2_frame, projected_frame_size>>
      /\ UNCHANGED <<this_frame_target, frame_type, frame_number, base_qindex>>
  BY DEF Install, history, frame
<1>8. TypeOK'
  BY <1>2, <1>3, <1>4, <1>5, <1>6, <1>7 DEF ClientInv, TypeOK, Phases, Faults
<1>9. QpInRange' /\ DecreaseLimited' /\ FaultNeedsOverfullStart'
  BY DEF QpInRange, DecreaseLimited, FaultNeedsOverfullStart
<1>10. LevelWithinMaximum'
  BY DEF Install, LevelWithinMaximum, maximum_buffer_size
<1>11. QED
  BY <1>8, <1>9, <1>10 DEF ClientInv

LEMMA ComputeQpClientInv ==
  ASSUME ClientInv, phase = "idle", NEW ft \in FrameTypes, ComputeQp(ft)
  PROVE  ClientInv'
<1> DEFINE n == IF ft = "key" THEN 0 ELSE frame_number
<1>1. TypeOK /\ phase # "created" /\ frames' \in Nat /\ updates' \in Nat /\ n \in Nat
      /\ fault = "none"
  BY DEF ClientInv, TypeOK, ComputeQp
<1>2. CASE /\ ~Undefined(ft, n)
           /\ phase' = "computed" /\ fault' = fault
           /\ this_frame_target' = FrameTarget(ft)
           /\ frame_type' = ft /\ frame_number' = n
           /\ base_qindex' = PickQ(ft, n, FrameTarget(ft))
           /\ UNCHANGED <<oxcf, init_framerate, rc, history, projected_frame_size>>
  <2>1. /\ UNCHANGED <<oxcf, init_framerate, projected_frame_size>>
        /\ UNCHANGED <<buffer_level, rate_correction_factors, avg_frame_qindex,
                       frames_since_key>>
        /\ UNCHANGED <<rc_1_frame, rc_2_frame, q_1_frame, q_2_frame>>
    BY <1>2 DEF rc, history
  <2>2. FrameTarget(ft) \in Nat
    BY <1>1, FrameTargetNat
  <2>3. /\ base_qindex' \in best_quality .. worst_quality
        /\ ft = "inter" /\ frames_since_key > 1 =>
             \/ base_qindex' >= q_1_frame - MaxDelta
             \/ base_qindex' >= Least(worst_quality, ActiveWorst(ft, n))
    BY <1>1, <1>2, <2>2, PickQRange
  <2>4. base_qindex' \in 0 .. MaxQ
    BY <1>1, <2>3, InstalledTyped
  <2>5. TypeOK'
    BY <1>1, <1>2, <2>1, <2>2, <2>4 DEF TypeOK, Phases
  <2>6. QpInRange'
    BY <2>1, <2>3 DEF QpInRange, best_quality, worst_quality
  <2>7. /\ worst_quality' = worst_quality
        /\ \A k : ActiveWorst("inter", k)' = ActiveWorst("inter", k)
    BY <2>1 DEF ActiveWorst, Relief, worst_quality, maximum_buffer_size,
                optimal_buffer_level
  <2>8. DecreaseLimited'
    <3> DEFINE held(k) == \/ base_qindex >= q_1_frame - MaxDelta
                          \/ base_qindex >= Least(worst_quality, ActiveWorst("inter", k))
    <3>1. frame_number' = n /\ q_1_frame' = q_1_frame
      BY <1>2, <2>1
    <3>2. QED
      BY <1>2, <2>1, <2>3, <2>7, <3>1 DEF DecreaseLimited
  <2>9. LevelWithinMaximum' /\ FaultNeedsOverfullStart'
    BY <1>1, <1>2, <2>1 DEF ClientInv, LevelWithinMaximum, FaultNeedsOverfullStart,
                            maximum_buffer_size
  <2>10. QED
    BY <2>5, <2>6, <2>8, <2>9 DEF ClientInv
<1>3. CASE Undefined(ft, n) /\ fault' = "below_table" /\ UNCHANGED <<phase, engine>>
  <2>1. StartingLevel(oxcf) > MaximumSize(oxcf)
    <3>1. ActiveWorst(ft, n) < 0
      BY <1>3 DEF Undefined
    <3>2. ActiveWorst(ft, n) \in Int
      BY <1>1, ActiveWorstInt
    <3>3. ~(buffer_level <= maximum_buffer_size)
      BY <1>1, <3>1, <3>2, ActiveWorstNatural
    <3>4. StartingLevel(oxcf) \in Nat /\ MaximumSize(oxcf) \in Nat
      BY <1>1, SizesTyped DEF TypeOK
    <3>5. QED
      BY <1>1, <3>3, <3>4 DEF ClientInv, LevelWithinMaximum
  <2>2. QED
    BY <1>1, <1>3, <2>1, UnchangedClientInv DEF Faults
<1>4. QED
  BY <1>2, <1>3 DEF ComputeQp

LEMMA PostEncodeUpdateClientInv ==
  ASSUME ClientInv, phase = "computed", NEW size \in FrameSizes, PostEncodeUpdate(size)
  PROVE  ClientInv'
<1> DEFINE bits == 8 * size
<1>1. TypeOK /\ phase # "created" /\ bits \in Nat
  BY ParameterAssumption DEF ClientInv
<1>2. /\ phase' = "idle" /\ frames' = frames + 1 /\ updates' = updates /\ fault' = fault
      /\ fault = "none" /\ projected_frame_size' = bits
      /\ UNCHANGED <<oxcf, init_framerate, this_frame_target, frame_type, base_qindex>>
      /\ frame_number' = frame_number + 1
      /\ q_2_frame' = q_1_frame /\ q_1_frame' = base_qindex
      /\ rc_2_frame' = rc_1_frame /\ rc_1_frame' = Outcome(FramePct(bits))
      /\ frames_since_key' = IF frame_type = "key" THEN 0 ELSE frames_since_key
      /\ buffer_level' = Drained(bits)
  BY DEF PostEncodeUpdate
<1>3. rate_correction_factors' \in [FrameTypes -> 0 .. RcfMax]
  <2>1. Corrected(bits) \in 0 .. RcfMax
    <3> HIDE DEF bits
    <3>1. Corrected(bits) \in RcfMin .. RcfMax
      BY <1>1, CorrectedBetween
    <3>2. QED
      BY <3>1, ParameterAssumption
  <2>2. rate_correction_factors' = [rate_correction_factors EXCEPT ![frame_type] = Corrected(bits)]
    BY DEF PostEncodeUpdate
  <2>3. rate_correction_factors \in [FrameTypes -> 0 .. RcfMax]
    BY <1>1 DEF TypeOK
  <2> HIDE DEF bits
  <2>4. QED
    BY <2>1, <2>2, <2>3
<1>4. avg_frame_qindex' \in [FrameTypes -> 0 .. MaxQ]
  <2>1. avg_frame_qindex["key"] \in 0 .. MaxQ /\ base_qindex \in 0 .. MaxQ /\ MaxQ \in Nat
        /\ avg_frame_qindex \in [FrameTypes -> 0 .. MaxQ]
    BY <1>1, InstalledTyped DEF TypeOK, FrameTypes
  <2>2. Average(avg_frame_qindex["key"], base_qindex) \in 0 .. MaxQ
    BY <2>1 DEF Average
  <2>3. avg_frame_qindex' =
          [avg_frame_qindex EXCEPT !["key"] =
             IF frame_type = "key" THEN Average(avg_frame_qindex["key"], base_qindex)
             ELSE avg_frame_qindex["key"]]
    BY DEF PostEncodeUpdate
  <2>4. QED
    BY <2>1, <2>2, <2>3
<1>5. buffer_level' \in Int /\ buffer_level' <= maximum_buffer_size
  <2> HIDE DEF bits
  <2>1. QED
    BY <1>1, <1>2, DrainedAtMost
<1>6. rc_1_frame' \in -1 .. 1
  BY <1>2 DEF Outcome
<1> HIDE DEF bits
<1>7. TypeOK'
  BY <1>1, <1>2, <1>3, <1>4, <1>5, <1>6 DEF TypeOK, Phases
<1>8. QpInRange' /\ DecreaseLimited' /\ FaultNeedsOverfullStart'
  BY <1>2 DEF QpInRange, DecreaseLimited, FaultNeedsOverfullStart
<1>9. LevelWithinMaximum'
  BY <1>2, <1>5 DEF LevelWithinMaximum, maximum_buffer_size
<1>10. QED
  BY <1>7, <1>8, <1>9 DEF ClientInv

LEMMA NextClientInv == ClientInv /\ [Next]_vars => ClientInv'
<1> SUFFICES ASSUME ClientInv, [Next]_vars PROVE ClientInv'
  OBVIOUS
<1>1. TypeOK
  BY DEF ClientInv
<1>2. ASSUME NEW c \in Configs, RateControlInit(c) PROVE ClientInv'
  <2>1. frames' \in Nat /\ updates' \in Nat /\ fault = "none"
    BY <1>1, <1>2 DEF TypeOK, RateControlInit
  <2>2. CASE Validate(c) /\ ReadsInTable(c) /\ Install(c) /\ phase' = "idle" /\ fault' = fault
    BY <2>1, <2>2, InstallClientInv
  <2>3. CASE UNCHANGED <<phase, engine>> /\ fault' \in {"none", "bad_quantizer"}
    BY <2>1, <2>3, UnchangedClientInv DEF Faults
  <2>4. QED
    BY <1>2, <2>1, <2>2, <2>3 DEF RateControlInit
<1>3. ASSUME phase = "idle", NEW c \in Configs, Validate(c), UpdateConfig(c) PROVE ClientInv'
  <2>1. frames' \in Nat /\ updates' \in Nat /\ fault = "none" /\ phase' = "idle"
    BY <1>1, <1>3 DEF TypeOK, UpdateConfig
  <2>2. CASE ReadsInTable(c) /\ Install(c) /\ fault' = fault
    BY <1>3, <2>1, <2>2, InstallClientInv
  <2>3. CASE UNCHANGED engine /\ fault' = "bad_quantizer"
    BY <1>3, <2>1, <2>3, UnchangedClientInv DEF Faults
  <2>4. QED
    BY <1>3, <2>2, <2>3 DEF UpdateConfig
<1>4. ASSUME phase = "idle", NEW ft \in FrameTypes, ComputeQp(ft) PROVE ClientInv'
  BY <1>4, ComputeQpClientInv
<1>5. ASSUME phase = "computed", NEW size \in FrameSizes, PostEncodeUpdate(size)
      PROVE  ClientInv'
  BY <1>5, PostEncodeUpdateClientInv
<1>6. CASE UNCHANGED vars
  <2>1. UNCHANGED <<phase, engine>> /\ UNCHANGED <<frames, updates, fault>>
    BY <1>6 DEF vars, client
  <2>2. QED
    BY <1>1, <2>1, UnchangedClientInv DEF TypeOK
<1>7. QED
  BY <1>2, <1>3, <1>4, <1>5, <1>6 DEF Next

\* Every field keeps its type, so every read of a table is inside it.
THEOREM TypeCorrect == Spec => []TypeOK
<1>1. ClientInv => TypeOK
  BY DEF ClientInv
<1>2. QED
  BY <1>1, InitClientInv, NextClientInv, PTL DEF Spec

\* Every index handed to the encoder respects the configured quantizers.
THEOREM QpAlwaysInRange == Spec => []QpInRange
<1>1. ClientInv => QpInRange
  BY DEF ClientInv
<1>2. QED
  BY <1>1, InitClientInv, NextClientInv, PTL DEF Spec

\* An inter frame with no key frame since the last update is at most 16 indices
\* finer than the one before, unless bucket or range ask for more.
THEOREM DecreaseAlwaysLimited == Spec => []DecreaseLimited
<1>1. ClientInv => DecreaseLimited
  BY DEF ClientInv
<1>2. QED
  BY <1>1, InitClientInv, NextClientInv, PTL DEF Spec

\* Only a configuration that starts the bucket over its maximum can make the
\* engine read before the start of a table.
THEOREM OnlyOverfullStartsFault == Spec => []FaultNeedsOverfullStart
<1>1. ClientInv => FaultNeedsOverfullStart
  BY DEF ClientInv
<1>2. QED
  BY <1>1, InitClientInv, NextClientInv, PTL DEF Spec

-----------------------------------------------------------------------------
(* The engine implements BrcEngine and its level implements FrameBudget. *)

\* The range an update leaves is one an engine may choose from.
LEMMA ConfiguredRange ==
  ASSUME TypeOK', phase' # "created"
  PROVE  EngineRange' \in Engine!Ranges
<1>1. oxcf' \in Config /\ Validate(oxcf') /\ ReadsInTable(oxcf')
  BY DEF TypeOK
<1>2. /\ BestAllowed(oxcf') \in 0 .. MaxQ /\ WorstAllowed(oxcf') \in 0 .. MaxQ
      /\ BestAllowed(oxcf') <= WorstAllowed(oxcf')
  BY <1>1, AllowedRange
<1>3. EngineRange' = <<BestAllowed(oxcf'), WorstAllowed(oxcf')>>
  BY DEF EngineRange, best_quality, worst_quality
<1>4. QED
  BY <1>2, <1>3 DEF Engine!Ranges

LEMMA StutterRefines ==
  ASSUME UNCHANGED <<phase, fault, engine>>
  PROVE  UNCHANGED Engine!vars /\ UNCHANGED BudgetState!vars
<1>1. UNCHANGED <<oxcf, base_qindex, buffer_level, projected_frame_size>>
  BY DEF engine, rc, frame
<1>2. UNCHANGED Engine!vars
  BY <1>1 DEF Engine!vars, EngineRange, best_quality, worst_quality
<1>3. UNCHANGED BudgetState!vars
  BY <1>1 DEF BudgetState!vars, maximum_buffer_size
<1>4. QED
  BY <1>2, <1>3

LEMMA StopRefines ==
  ASSUME phase \in {"created", "idle"}, fault = "none", fault' # "none",
         UNCHANGED <<phase, engine>>
  PROVE  Engine!Next /\ UNCHANGED BudgetState!vars
<1>1. UNCHANGED <<oxcf, base_qindex, buffer_level, projected_frame_size>>
  BY DEF engine, rc, frame
<1>2. EngineRange' = EngineRange
  BY <1>1 DEF EngineRange, best_quality, worst_quality
<1>3. Engine!Stop
  BY <1>1, <1>2 DEF Engine!Stop
<1>4. UNCHANGED BudgetState!vars
  BY <1>1 DEF BudgetState!vars, maximum_buffer_size
<1>5. QED
  BY <1>3, <1>4 DEF Engine!Next

LEMMA InstallGrants ==
  ASSUME NEW c \in Configs, Install(c), phase' # "created"
  PROVE  BudgetState!Grant
<1>1. oxcf' = c /\ buffer_level' = StartingLevel(c)
      /\ projected_frame_size' = projected_frame_size
  BY DEF Install
<1>2. StartingLevel(oxcf)' = StartingLevel(c)
  BY <1>1 DEF StartingLevel, BufferBits, Bandwidth
<1>3. QED
  BY <1>1, <1>2 DEF BudgetState!Grant

LEMMA NextRefines ==
  ClientInv /\ ClientInv' /\ [Next]_vars
    => [Engine!Next]_(Engine!vars) /\ [BudgetState!Next]_(BudgetState!vars)
<1> SUFFICES ASSUME ClientInv, ClientInv', [Next]_vars
             PROVE  [Engine!Next]_(Engine!vars) /\ [BudgetState!Next]_(BudgetState!vars)
  OBVIOUS
<1>1. phase \in {"created", "idle", "computed"} /\ TypeOK /\ TypeOK' /\ QpInRange'
  BY DEF ClientInv, TypeOK, Phases
<1>2. ASSUME NEW c \in Configs, RateControlInit(c)
      PROVE  [Engine!Next]_(Engine!vars) /\ [BudgetState!Next]_(BudgetState!vars)
  <2>1. fault = "none" /\ phase = "created"
    BY <1>2 DEF RateControlInit
  <2>2. CASE Install(c) /\ phase' = "idle" /\ fault' = fault
    <3>1. EngineRange' \in Engine!Ranges
      BY <1>1, <2>2, ConfiguredRange
    <3>2. Engine!Create
      BY <2>1, <2>2, <3>1 DEF Engine!Create
    <3>3. BudgetState!Grant
      BY <2>2, InstallGrants
    <3>4. QED
      BY <3>2, <3>3 DEF Engine!Next, BudgetState!Next
  <2>3. CASE fault' = "bad_quantizer" /\ UNCHANGED <<phase, engine>>
    BY <2>1, <2>3, StopRefines
  <2>4. CASE UNCHANGED <<phase, fault, engine>>
    BY <2>4, StutterRefines
  <2>5. QED
    BY <1>2, <2>2, <2>3, <2>4 DEF RateControlInit
<1>3. ASSUME phase = "idle", NEW c \in Configs, UpdateConfig(c)
      PROVE  [Engine!Next]_(Engine!vars) /\ [BudgetState!Next]_(BudgetState!vars)
  <2>1. fault = "none" /\ phase' = phase
    BY <1>3 DEF UpdateConfig
  <2>2. CASE Install(c) /\ fault' = fault
    <3>1. EngineRange' \in Engine!Ranges
      BY <1>1, <1>3, <2>1, ConfiguredRange
    <3>2. base_qindex' = base_qindex
      BY <2>2 DEF Install, frame
    <3>3. Engine!Update
      BY <1>3, <2>1, <2>2, <3>1, <3>2 DEF Engine!Update
    <3>4. BudgetState!Grant
      BY <1>3, <2>1, <2>2, InstallGrants
    <3>5. QED
      BY <3>3, <3>4 DEF Engine!Next, BudgetState!Next
  <2>3. CASE fault' = "bad_quantizer" /\ UNCHANGED engine
    BY <1>3, <2>1, <2>3, StopRefines
  <2>4. QED
    BY <1>3, <2>2, <2>3 DEF UpdateConfig
<1>4. ASSUME phase = "idle", NEW ft \in FrameTypes, ComputeQp(ft)
      PROVE  [Engine!Next]_(Engine!vars) /\ [BudgetState!Next]_(BudgetState!vars)
  <2>1. fault = "none"
    BY <1>4 DEF ComputeQp
  <2>2. CASE /\ phase' = "computed" /\ fault' = fault
             /\ UNCHANGED <<oxcf, init_framerate, rc, history, projected_frame_size>>
    <3>1. UNCHANGED <<oxcf, buffer_level, projected_frame_size>>
      BY <2>2 DEF rc
    <3>2. EngineRange' = EngineRange /\ EngineRange = <<best_quality, worst_quality>>
      BY <1>4, <2>2, <3>1 DEF EngineRange, best_quality, worst_quality
    <3>3. base_qindex' \in best_quality .. worst_quality
      BY <1>1, <2>2, <3>1 DEF QpInRange, best_quality, worst_quality
    <3>4. Engine!Compute
      BY <1>4, <2>1, <2>2, <3>2, <3>3 DEF Engine!Compute
    <3>5. UNCHANGED BudgetState!vars
      BY <1>4, <2>2, <3>1 DEF BudgetState!vars, maximum_buffer_size
    <3>6. QED
      BY <3>4, <3>5 DEF Engine!Next
  <2>3. CASE fault' = "below_table" /\ UNCHANGED <<phase, engine>>
    BY <1>4, <2>1, <2>3, StopRefines
  <2>4. QED
    BY <1>4, <2>2, <2>3 DEF ComputeQp
<1>5. ASSUME phase = "computed", NEW size \in FrameSizes, PostEncodeUpdate(size)
      PROVE  [Engine!Next]_(Engine!vars) /\ [BudgetState!Next]_(BudgetState!vars)
  <2>1. /\ fault = "none" /\ fault' = fault /\ phase' = "idle"
        /\ UNCHANGED <<oxcf, base_qindex>>
        /\ projected_frame_size' = 8 * size /\ buffer_level' = Drained(8 * size)
    BY <1>5 DEF PostEncodeUpdate
  <2>2. EngineRange' = EngineRange
    BY <1>5, <2>1 DEF EngineRange, best_quality, worst_quality
  <2>3. Engine!PostEncode
    BY <1>5, <2>1, <2>2 DEF Engine!PostEncode
  <2>4. maximum_buffer_size' = maximum_buffer_size
    BY <2>1 DEF maximum_buffer_size
  <2>5. buffer_level' = Least(buffer_level - projected_frame_size', maximum_buffer_size)
    <3>1. buffer_level \in Int
      BY <1>1 DEF TypeOK
    <3>2. QED
      BY <2>1, <3>1 DEF Drained, show_frame
  <2>6. projected_frame_size' >= 0
    BY <1>1 DEF TypeOK
  <2>7. BudgetState!Spend
    BY <1>5, <2>1, <2>4, <2>5, <2>6 DEF BudgetState!Spend, BudgetState!Least, Least
  <2>8. QED
    BY <2>3, <2>7 DEF Engine!Next, BudgetState!Next
<1>6. CASE UNCHANGED vars
  BY <1>6, StutterRefines DEF vars, client
<1>7. QED
  BY <1>2, <1>3, <1>4, <1>5, <1>6 DEF Next

\* For every configuration, frame size and table, the engine does what
\* BrcEngine promises to a client of the documented loop.
THEOREM ContractKept == Spec => EngineContract
<1>1. Init => Engine!Init
  BY DEF Init, Engine!Init
<1>2. QED
  BY <1>1, InitClientInv, NextClientInv, NextRefines, PTL
     DEF Spec, EngineContract, Engine!Spec

\* The level is a budget that every update grants anew and frames only spend.
THEOREM BudgetKept == Spec => Budget
<1>1. Init => BudgetState!Init
  BY DEF Init, BudgetState!Init
<1>2. QED
  BY <1>1, InitClientInv, NextClientInv, NextRefines, PTL
     DEF Spec, Budget, BudgetState!Spec
=============================================================================
