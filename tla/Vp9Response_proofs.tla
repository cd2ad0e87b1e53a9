------------------------- MODULE Vp9Response_proofs -------------------------
(***************************************************************************)
(* How Vp9RateControl answers to more bits, with any number of layers:     *)
(* what a larger encoded frame does to the feedback, and what a larger     *)
(* target does to the index.                                               *)
(***************************************************************************)
EXTENDS Vp9Buckets_proofs

-----------------------------------------------------------------------------
(* Larger encoded frames. *)

\* The factor the stream steers by after a frame of so many bits.
Factor(r, ft) == CorrectionFactor(r, ft)
Pct(r, ft, bits) == SizePct(bits, EstimatedBits(ft, base_qindex, MBs, Factor(r, ft)))
Steered(r, ft, bits) ==
  Clamp((Factor(r, ft) * CorrectionPct(r, Pct(r, ft, bits))) \div 100, RcfMin, RcfMax)

LEMMA CorrectedSteers ==
  ASSUME NEW r \in RateControl, NEW ft \in FrameTypes, NEW bits
  PROVE  Corrected(r, ft, bits).rate_correction_factors[ft] = Steered(r, ft, bits)
<1>1. r.rate_correction_factors \in [FrameTypes -> 0 .. RcfMax]
  BY RcTyped
<1> DEFINE factors == [r.rate_correction_factors EXCEPT ![ft] = Steered(r, ft, bits)]
<1>2. Corrected(r, ft, bits).rate_correction_factors = factors
  BY DEF Corrected, RateControl, Steered, Pct, Factor
<1>3. factors[ft] = Steered(r, ft, bits)
  BY <1>1
<1>4. QED
  BY <1>2, <1>3

LEMMA LevelKeepsFactors ==
  ASSUME NEW r \in RateControl, NEW bits \in Int
  PROVE  Level(r, bits).rate_correction_factors = r.rate_correction_factors
  BY DEF Level, RateControl

\* What a frame of so many bits leaves in rc: the factor and the level.
LEMMA ChargedFeedback ==
  ASSUME rc \in RateControl, base_qindex \in 0 .. MaxQ, frame_type \in FrameTypes,
         MBs \in Nat, NEW bits \in Nat
  PROVE  /\ ChargedRc(bits).rate_correction_factors[frame_type]
              = Steered(rc, frame_type, bits)
         /\ ChargedRc(bits).buffer_level
              = Least(rc.bits_off_target - bits, rc.maximum_buffer_size)
<1> DEFINE x == Corrected(rc, frame_type, bits)
           level == Least(rc.bits_off_target - bits, rc.maximum_buffer_size)
           y == Drained(x, bits)
           average == AverageAfter(bits)
           last == IF frame_type = "key" THEN base_qindex ELSE y.last_key_q
           since == IF frame_type = "key" THEN 1 ELSE y.frames_since_key + 1
<1>1. /\ x \in RateControl /\ x.bits_off_target = rc.bits_off_target
      /\ x.maximum_buffer_size = rc.maximum_buffer_size
      /\ x.rate_correction_factors[frame_type] = Steered(rc, frame_type, bits)
  BY CorrectedKeeps, CorrectedBits, CorrectedSteers
<1>2. level \in Int
  BY RcTyped DEF Least
<1> HIDE DEF x
<1>3. y = Level(x, level)
  BY <1>1 DEF Drained
<1> HIDE DEF level
<1>4. /\ y \in RateControl /\ y.buffer_level = level
      /\ y.rate_correction_factors = x.rate_correction_factors
  <2>1. /\ Level(x, level) \in RateControl /\ Level(x, level).buffer_level = level
        /\ Level(x, level).rate_correction_factors = x.rate_correction_factors
    BY <1>1, <1>2, LevelKeeps, LevelKeepsFactors
  <2>2. QED
    BY <1>3, <2>1
<1>5. ChargedRc(bits) =
        [y EXCEPT !.avg_frame_qindex = average, !.last_key_q = last,
                  !.frames_since_key = since,
                  !.last_avg_frame_bandwidth = rc.avg_frame_bandwidth]
  BY <1>4 DEF ChargedRc, RateControl, x
<1> HIDE DEF y, average, last, since
<1>6. /\ ChargedRc(bits).buffer_level = y.buffer_level
      /\ ChargedRc(bits).rate_correction_factors = y.rate_correction_factors
  BY <1>4, <1>5 DEF RateControl
<1>7. QED
  BY <1>1, <1>4, <1>6 DEF level

LEMMA SizePctMonotone ==
  ASSUME NEW a \in Nat, NEW b \in Nat, a <= b, NEW estimate \in Nat
  PROVE  SizePct(a, estimate) <= SizePct(b, estimate)
<1>1. CASE estimate > FrameOverheadBits
  <2>1. estimate \in Nat \ {0} /\ 100 * a \in Nat /\ 100 * b \in Nat /\ 100 * a <= 100 * b
    BY <1>1 DEF FrameOverheadBits
  <2>2. (100 * a) \div estimate <= (100 * b) \div estimate
    BY <2>1, DivMonotone
  <2>3. QED
    BY <1>1, <2>2 DEF SizePct
<1>2. CASE ~(estimate > FrameOverheadBits)
  BY <1>2 DEF SizePct
<1>3. QED
  BY <1>1, <1>2

\* Whatever the damping and the band that changes nothing.
LEMMA CorrectionPctMonotone ==
  ASSUME NEW r \in RateControl, NEW a \in Nat, NEW b \in Nat, a <= b
  PROVE  /\ CorrectionPct(r, a) \in Int /\ CorrectionPct(r, b) \in Int
         /\ CorrectionPct(r, a) <= CorrectionPct(r, b)
<1> DEFINE damping(p) == IF r.damped_adjustment THEN Damping(p) ELSE 100
<1>1. (\A d \in Decade : d \in Nat /\ d >= 100) /\ IsFiniteSet(Decade)
  <2> DEFINE low  == 100
             high == 1000
  <2>1. low \in Int /\ high \in Int /\ Decade \subseteq low .. high
    BY DEF Decade
  <2>2. \A d \in low .. high : d \in Nat /\ d >= 100
    OBVIOUS
  <2> HIDE DEF low, high
  <2>3. IsFiniteSet(low .. high)
    BY <2>1, FS_Interval
  <2>4. IsFiniteSet(Decade)
    BY <2>1, <2>3, FS_Subset
  <2>5. QED
    BY <2>1, <2>2, <2>4
<1>2. \A p \in Nat : Damping(p) = 25 + 5 * Cardinality(Tenths(Decade, p))
  BY DEF Damping, Tenths
<1>3. /\ Cardinality(Tenths(Decade, a)) \in Nat /\ Cardinality(Tenths(Decade, b)) \in Nat
      /\ a >= 100 => Cardinality(Tenths(Decade, a)) <= Cardinality(Tenths(Decade, b))
      /\ b <= 99 => Cardinality(Tenths(Decade, b)) <= Cardinality(Tenths(Decade, a))
  BY <1>1, TenthsMonotone
<1>4. /\ Damping(a) \in Nat /\ Damping(b) \in Nat
      /\ a >= 100 => Damping(a) <= Damping(b)
      /\ b <= 99 => Damping(b) <= Damping(a)
  BY <1>2, <1>3
<1>5. /\ damping(a) \in Nat /\ damping(b) \in Nat
      /\ a >= 100 => damping(a) <= damping(b)
      /\ b <= 99 => damping(b) <= damping(a)
  BY <1>4
<1>6. /\ CorrectionPct(r, a) = CorrectionAt(a, damping(a))
      /\ CorrectionPct(r, b) = CorrectionAt(b, damping(b))
  BY DEF CorrectionPct, CorrectionAt
<1> HIDE DEF damping
<1>7. QED
  BY <1>5, <1>6, CorrectionMonotone

LEMMA SteeredMonotone ==
  ASSUME NEW r \in RateControl, NEW ft \in FrameTypes,
         base_qindex \in 0 .. MaxQ, MBs \in Nat,
         NEW a \in Nat, NEW b \in Nat, a <= b
  PROVE  Steered(r, ft, a) <= Steered(r, ft, b)
<1> DEFINE factor == Factor(r, ft)
           estimate == EstimatedBits(ft, base_qindex, MBs, factor)
           pa == CorrectionPct(r, Pct(r, ft, a))
           pb == CorrectionPct(r, Pct(r, ft, b))
<1>1. factor \in Nat
  <2>1. r.rate_correction_factors[ft] \in 0 .. RcfMax
    BY RcTyped
  <2>2. QED
    BY <2>1, ParameterAssumption DEF Factor, CorrectionFactor, Clamp
<1>2. estimate \in Nat
  <2>1. BitsAt(ft, base_qindex, factor) \in Nat
    <3> HIDE DEF factor
    <3>1. QED
      BY <1>1, BitsAtNat
  <2> HIDE DEF factor
  <2>2. Scaled(BitsAt(ft, base_qindex, factor), MBs, 512) \in Nat
    BY <2>1, ScaledNat
  <2>3. QED
    BY <2>2 DEF EstimatedBits, Greatest, FrameOverheadBits
<1>3. /\ Pct(r, ft, a) \in Nat /\ Pct(r, ft, b) \in Nat /\ Pct(r, ft, a) <= Pct(r, ft, b)
  <2>1. Pct(r, ft, a) = SizePct(a, estimate) /\ Pct(r, ft, b) = SizePct(b, estimate)
    BY DEF Pct
  <2>2. SizePct(a, estimate) \in Nat /\ SizePct(b, estimate) \in Nat
    <3> HIDE DEF factor
    <3>1. QED
      BY <1>1, SizePctNat
  <2> HIDE DEF estimate
  <2>3. QED
    BY <1>2, <2>1, <2>2, SizePctMonotone
<1>4. pa \in Int /\ pb \in Int /\ pa <= pb
  BY <1>3, CorrectionPctMonotone
<1>5. /\ Steered(r, ft, a) = Clamp((factor * pa) \div 100, RcfMin, RcfMax)
      /\ Steered(r, ft, b) = Clamp((factor * pb) \div 100, RcfMin, RcfMax)
  BY DEF Steered
<1> HIDE DEF factor, pa, pb
<1>6. factor * pa \in Int /\ factor * pb \in Int /\ factor * pa <= factor * pb
  <2>1. pa * factor <= pb * factor
    BY <1>1, <1>4, TimesMonotone
  <2>2. QED
    BY <1>1, <1>4, <2>1
<1>7. (factor * pa) \div 100 \in Int /\ (factor * pb) \div 100 \in Int
      /\ (factor * pa) \div 100 <= (factor * pb) \div 100
  BY <1>6, DivBounds, DivMonotone
<1>8. RcfMin \in Int /\ RcfMax \in Int /\ RcfMin <= RcfMax
  BY ParameterAssumption
<1>9. QED
  BY <1>5, <1>7, <1>8, ClampMonotone

\* The signs of the feedback, for every pair of sizes of a frame whose target is
\* natural.
LEMMA FeedbackOneSigned ==
  ASSUME TypeOK, phase = "computed", rc.this_frame_target \in Nat
  PROVE  FeedbackMonotone
<1> DEFINE percents == {0, 40, 80, 98, 100, 104, 115, 200, 1100}
           sizes == {(rc.this_frame_target * percent) \div 100 : percent \in percents}
           after == [bits \in sizes |-> ChargedRc(bits)]
<1>1. sizes \subseteq Nat
  <2>1. SUFFICES ASSUME NEW percent \in percents
                 PROVE  (rc.this_frame_target * percent) \div 100 \in Nat
    OBVIOUS
  <2>2. percent \in Nat
    OBVIOUS
  <2> HIDE DEF percents
  <2>3. rc.this_frame_target * percent \in Nat
    BY <2>2, ProductNat
  <2>4. QED
    BY <2>3, DivNat
<1> HIDE DEF sizes
<1>2. ASSUME NEW a \in sizes, NEW b \in sizes, a <= b
      PROVE  /\ after[a].rate_correction_factors[frame_type]
                  <= after[b].rate_correction_factors[frame_type]
             /\ after[a].buffer_level >= after[b].buffer_level
  <2>1. /\ rc \in RateControl /\ base_qindex \in 0 .. MaxQ /\ frame_type \in FrameTypes
        /\ MBs \in Nat /\ a \in Nat /\ b \in Nat
    BY <1>1, <1>2 DEF TypeOK
  <2>2. /\ after[a].rate_correction_factors[frame_type] = Steered(rc, frame_type, a)
        /\ after[a].buffer_level = Least(rc.bits_off_target - a, rc.maximum_buffer_size)
        /\ after[b].rate_correction_factors[frame_type] = Steered(rc, frame_type, b)
        /\ after[b].buffer_level = Least(rc.bits_off_target - b, rc.maximum_buffer_size)
    BY <1>2, <2>1, ChargedFeedback
  <2> HIDE DEF after
  <2>3. Steered(rc, frame_type, a) <= Steered(rc, frame_type, b)
    BY <1>2, <2>1, SteeredMonotone
  <2>4. Least(rc.bits_off_target - a, rc.maximum_buffer_size)
          >= Least(rc.bits_off_target - b, rc.maximum_buffer_size)
    <3>1. rc.bits_off_target \in Int /\ rc.maximum_buffer_size \in Int
      BY <2>1, RcTyped
    <3>2. QED
      BY <1>2, <2>1, <3>1 DEF Least
  <2>5. QED
    BY <2>2, <2>3, <2>4
<1>3. QED
  BY <1>2, ZenonT(60) DEF FeedbackMonotone, sizes

-----------------------------------------------------------------------------
(* A frame that was computed. *)

\* Until its filter level is asked for, a frame has macroblocks, a natural target
\* and a bucket within its size.
FrameInv ==
  phase = "computed" =>
    /\ MBs \in Nat \ {0}
    /\ rc.this_frame_target \in Nat
    /\ rc.buffer_level <= rc.maximum_buffer_size

LEMMA BlocksPositive ==
  ASSUME NEW x \in Nat \ {0}
  PROVE  Blocks(x) \in Nat \ {0}
<1> DEFINE y == (x + 7) \div 8
<1>1. y \in Nat \ {0}
  BY DivAtLeast
<1> HIDE DEF y
<1>2. (y + 1) \div 2 \in Nat \ {0}
  BY <1>1
<1>3. QED
  BY <1>2 DEF Blocks, y

LEMMA ComputeQpFrameInv ==
  ASSUME ClientInv, phase = "idle", NEW ft \in FrameTypes,
         NEW s \in 0 .. oxcf.ss_number_layers - 1, NEW t \in 0 .. oxcf.ts_number_layers - 1,
         ComputeQp(ft, s, t), phase' = "computed"
  PROVE  FrameInv'
<1>1. rc'.buffer_level <= rc'.maximum_buffer_size /\ rc'.this_frame_target \in Nat
  BY ComputedClientInv
<1>2. /\ ~Undefined(ft, s, t)
      /\ width' = FrameSize(s)[1] /\ height' = FrameSize(s)[2]
      /\ MBs' = Blocks(width') * Blocks(height')
  <2>1. phase' # phase
    OBVIOUS
  <2>2. QED
    BY <2>1 DEF ComputeQp
<1>3. /\ oxcf \in Config /\ Usable(oxcf) /\ width \in Nat /\ height \in Nat
  BY DEF ClientInv, TypeOK, RangesHold
<1>4. s \in SpatialIds
  BY <1>3, LayersInArrays
<1>5. width' \in Nat \ {0} /\ height' \in Nat \ {0}
  <2>1. oxcf.ss_number_layers > 1 => oxcf.scaling_factor_den[s] # 0
    BY <1>2 DEF Undefined
  <2>2. FrameSize(s)[1] \in Nat /\ FrameSize(s)[2] \in Nat
    BY <1>3, <1>4, <2>1, FrameSizeNat
  <2>3. FrameSize(s)[1] # 0 /\ FrameSize(s)[2] # 0
    BY <1>2 DEF Undefined
  <2>4. QED
    BY <1>2, <2>2, <2>3
<1>6. MBs' \in Nat \ {0}
  <2>1. Blocks(width') \in Nat \ {0} /\ Blocks(height') \in Nat \ {0}
    BY <1>5, BlocksPositive
  <2>2. \A x, y \in Nat \ {0} : x * y \in Nat \ {0}
    OBVIOUS
  <2>3. QED
    BY <1>2, <2>1, <2>2
<1>7. QED
  BY <1>1, <1>6 DEF FrameInv

LEMMA NextFrameInv == ClientInv /\ FrameInv /\ [Next]_vars => FrameInv'
<1> SUFFICES ASSUME ClientInv, FrameInv, [Next]_vars PROVE FrameInv'
  OBVIOUS
<1>1. ASSUME phase' # "computed" PROVE FrameInv'
  BY <1>1 DEF FrameInv
<1>2. ASSUME NEW c \in Configs, RateControlInit(c) PROVE phase' # "computed"
  BY <1>2 DEF RateControlInit
<1>3. ASSUME phase = "idle", NEW c \in Configs, UpdateConfig(c) PROVE phase' # "computed"
  BY <1>3 DEF UpdateConfig
<1>4. ASSUME phase = "idle", NEW ft \in FrameTypes,
             NEW s \in 0 .. oxcf.ss_number_layers - 1,
             NEW t \in 0 .. oxcf.ts_number_layers - 1, ComputeQp(ft, s, t)
      PROVE  FrameInv'
  BY <1>1, <1>4, ComputeQpFrameInv
<1>5. ASSUME phase = "computed", GetLoopFilterLevel PROVE phase' # "computed"
  BY <1>5 DEF GetLoopFilterLevel
<1>6. ASSUME NEW size \in FrameSizes, PostEncodeUpdate(size) PROVE phase' # "computed"
  BY <1>6 DEF PostEncodeUpdate
<1>7. CASE UNCHANGED vars
  <2>1. UNCHANGED <<phase, MBs, rc>>
    BY <1>7 DEF vars, client, engine, stream, frame
  <2>2. QED
    BY <2>1 DEF FrameInv
<1>8. QED
  BY <1>1, <1>2, <1>3, <1>4, <1>5, <1>6, <1>7 DEF Next

\* A larger encoded frame never leaves the controller expecting smaller ones,
\* nor its bucket fuller, in a stream or in a layer.
THEOREM FeedbackAlwaysMonotone == Spec => []FeedbackMonotone
<1>1. Init => FrameInv
  BY DEF Init, FrameInv
<1>2. ClientInv /\ FrameInv => FeedbackMonotone
  <2>1. ASSUME phase # "computed" PROVE FeedbackMonotone
    BY <2>1 DEF FeedbackMonotone
  <2>2. ASSUME ClientInv, FrameInv, phase = "computed" PROVE FeedbackMonotone
    BY <2>2, FeedbackOneSigned DEF ClientInv, FrameInv
  <2>3. QED
    BY <2>1, <2>2
<1>3. QED
  BY <1>1, <1>2, InitClientInv, NextClientInv, NextFrameInv, PTL DEF Spec
-----------------------------------------------------------------------------
(* Larger targets. *)

\* The search is that of Arithmetic_proofs.
LEMMA NearestQIsNearestFit ==
  ASSUME NEW ft, NEW target, NEW best \in Nat, NEW worst \in Nat, best <= worst, NEW rcf
  PROVE  NearestQ(ft, target, best, worst, rcf)
           = NearestFit([q \in best .. worst |-> BitsAt(ft, q, rcf)], target, best, worst)
<1> DEFINE f == [q \in best .. worst |-> BitsAt(ft, q, rcf)]
           fits == {q \in best .. worst : BitsAt(ft, q, rcf) <= target}
           first == CHOOSE q \in fits : \A p \in fits : q <= p
<1>1. fits = Fits(f, target, best, worst)
  BY DEF Fits
<1>2. first = FirstFit(f, target, best, worst)
  BY <1>1 DEF FirstFit
<1>3. CASE fits = {}
  BY <1>1, <1>3 DEF NearestFit, NearestQ
<1>4. CASE fits # {}
  <2>1. first \in best .. worst
    <3>1. FirstFit(f, target, best, worst) \in Fits(f, target, best, worst)
      BY <1>1, <1>4, FirstFits
    <3>2. first \in fits
      BY <1>1, <1>2, <3>1
    <3>3. fits \subseteq best .. worst
      OBVIOUS
    <3>4. QED
      BY <3>2, <3>3
  <2>2. NearestQ(ft, target, best, worst, rcf)
          = IF first = best THEN first
            ELSE IF target - BitsAt(ft, first, rcf) <= BitsAt(ft, first - 1, rcf) - target
            THEN first ELSE first - 1
    BY <1>4 DEF NearestQ
  <2>3. NearestFit(f, target, best, worst)
          = IF first = best THEN first
            ELSE IF target - f[first] <= f[first - 1] - target THEN first ELSE first - 1
    BY <1>1, <1>2, <1>4 DEF NearestFit
  <2> HIDE DEF first
  <2>4. f[first] = BitsAt(ft, first, rcf)
        /\ (first # best => f[first - 1] = BitsAt(ft, first - 1, rcf))
    BY <2>1
  <2> HIDE DEF f
  <2>5. CASE first = best
    BY <2>2, <2>3, <2>5 DEF f
  <2>6. CASE first # best
    BY <2>2, <2>3, <2>4, <2>6 DEF f
  <2>7. QED
    BY <2>5, <2>6
<1>5. QED
  BY <1>3, <1>4

\* The band between the last two indices keeps the order, with the half way above
\* it after an overshoot, and so does the configured range.
LEMMA AdjustQMonotone ==
  ASSUME NEW r \in RateControl, r.best_quality <= r.worst_quality,
         NEW p \in Int, NEW q \in Int, p <= q
  PROVE  /\ AdjustQ(r, p) \in Int /\ AdjustQ(r, q) \in Int
         /\ AdjustQ(r, p) <= r.worst_quality /\ AdjustQ(r, q) <= r.worst_quality
         /\ AdjustQ(r, p) <= AdjustQ(r, q)
<1> DEFINE low  == Least(r.q_1_frame, r.q_2_frame)
           high == Greatest(r.q_1_frame, r.q_2_frame)
           bound(x) == Clamp(x, low, high)
           half(x) == IF x > bound(x) THEN (x + bound(x)) \div 2 ELSE bound(x)
<1>1. low \in Int /\ high \in Int /\ low <= high
  <2>1. r.q_1_frame \in Nat /\ r.q_2_frame \in Nat
    BY IndicesNat
  <2>2. QED
    BY <2>1 DEF Least, Greatest
<1>2. ASSUME NEW x \in Int
      PROVE  Damped(r, x) = IF r.rc_1_frame * r.rc_2_frame = -1 /\ r.q_1_frame # r.q_2_frame
                            THEN IF r.rc_1_frame = -1 THEN half(x) ELSE bound(x)
                            ELSE x
  BY DEF Damped
<1> HIDE DEF low, high
<1>3. /\ bound(p) \in Int /\ bound(q) \in Int /\ bound(p) <= bound(q)
      /\ p > bound(p) => bound(p) = high /\ bound(q) = high
  BY <1>1 DEF Clamp
<1> HIDE DEF bound
<1>4. half(p) \in Int /\ half(q) \in Int /\ half(p) <= half(q)
  <2>1. CASE p > bound(p)
    <3>1. q > bound(q) /\ bound(p) = bound(q)
      BY <1>1, <1>3, <2>1
    <3>2. QED
      BY <1>3, <2>1, <3>1
  <2>2. CASE ~(p > bound(p))
    BY <1>3, <2>2
  <2>3. QED
    BY <2>1, <2>2
<1> HIDE DEF half
<1>5. Damped(r, p) \in Int /\ Damped(r, q) \in Int /\ Damped(r, p) <= Damped(r, q)
  BY <1>2, <1>3, <1>4
<1>6. r.worst_quality \in Int /\ r.best_quality \in Int
  BY IndicesNat
<1>7. QED
  BY <1>5, <1>6 DEF AdjustQ, Greatest, Least

\* Below max_frame_bandwidth an index is at most the active worst one, and that
\* of a key frame always is.
LEMMA PickQMonotone ==
  ASSUME NEW r \in RateControl, NEW base \in Bases, NEW ft \in FrameTypes, NEW size,
         NEW mbs \in Nat \ {0}, NEW a \in Nat, NEW b \in Nat, a <= b,
         r.best_quality <= r.worst_quality, r.buffer_level <= r.maximum_buffer_size,
         ft = "inter" => b < r.max_frame_bandwidth
  PROVE  PickQ(ft, r, base, size, mbs, b) <= PickQ(ft, r, base, size, mbs, a)
<1> DEFINE limit == ActiveWorst(ft, r, base)
           finest == IF ft = "key" THEN KeyBest(r, size) ELSE InterBest(r, limit)
           best  == Clamp(finest, r.best_quality, r.worst_quality)
           worst == Clamp(limit, best, r.worst_quality)
           rcf   == CorrectionFactor(r, ft)
           near(t) == NearestQ(ft, Scaled(t, 512, mbs), best, worst, rcf)
           q(t)    == AdjustQ(r, near(t))
<1>1. limit \in Nat
  BY ActiveWorstNat
<1>2. /\ r.best_quality \in Nat /\ r.worst_quality \in Nat /\ r.max_frame_bandwidth \in Nat
      /\ r.worst_quality <= MaxQ /\ MaxQ \in Nat
  <2>1. r.worst_quality \in 0 .. MaxQ
    BY RcTyped
  <2>2. r.best_quality \in Nat /\ r.worst_quality \in Nat /\ MaxQ \in Nat
    BY IndicesNat
  <2>3. r.max_frame_bandwidth \in Nat
    BY RcTyped
  <2>4. QED
    BY <2>1, <2>2, <2>3
<1>3. best \in r.best_quality .. r.worst_quality
  <2>1. finest \in Int
    <3> HIDE DEF limit
    <3>1. QED
      BY <1>1, BestInt
  <2> HIDE DEF finest
  <2>2. QED
    BY <1>2, <2>1 DEF Clamp
<1>4. worst \in best .. r.worst_quality /\ (ft = "key" => worst = r.worst_quality)
  <2>1. ft = "key" => limit = r.worst_quality
    BY DEF ActiveWorst
  <2> HIDE DEF limit, best
  <2>2. QED
    BY <1>1, <1>2, <1>3, <2>1 DEF Clamp
<1>5. rcf \in Nat
  <2>1. r.rate_correction_factors[ft] \in 0 .. RcfMax
    BY RcTyped
  <2>2. QED
    BY <2>1, ParameterAssumption DEF CorrectionFactor, Clamp
<1>6. /\ PickQ(ft, r, base, size, mbs, a)
           = IF q(a) > worst /\ a < r.max_frame_bandwidth THEN worst ELSE q(a)
      /\ PickQ(ft, r, base, size, mbs, b)
           = IF q(b) > worst /\ b < r.max_frame_bandwidth THEN worst ELSE q(b)
  BY DEF PickQ
<1>7. near(a) \in Int /\ near(b) \in Int /\ near(b) <= near(a)
  <2> DEFINE f == [i \in best .. worst |-> BitsAt(ft, i, rcf)]
             ta == Scaled(a, 512, mbs)
             tb == Scaled(b, 512, mbs)
  <2>1. ta \in Nat /\ tb \in Nat /\ ta <= tb
    <3>1. 512 \in Nat /\ 512 <= 512
      OBVIOUS
    <3> HIDE DEF ta, tb
    <3>2. Scaled(a, 512, mbs) <= Scaled(b, 512, mbs)
      BY <3>1, ScaledMonotone
    <3>3. QED
      BY <3>1, <3>2, ScaledNat DEF ta, tb
  <2> HIDE DEF limit, finest, best, worst, rcf, ta, tb
  <2>2. /\ best \in Nat /\ worst \in Nat /\ best <= worst
        /\ \A i \in best .. worst : i \in 0 .. MaxQ
    BY <1>2, <1>3, <1>4
  <2>3. \A i \in best .. worst : f[i] \in Int
    BY <1>5, <2>2, BitsAtNat
  <2>4. NearestQ(ft, ta, best, worst, rcf) = NearestFit(f, ta, best, worst)
        /\ NearestQ(ft, tb, best, worst, rcf) = NearestFit(f, tb, best, worst)
    BY <2>2, NearestQIsNearestFit
  <2> HIDE DEF f
  <2>5. NearestFit(f, tb, best, worst) <= NearestFit(f, ta, best, worst)
        /\ NearestFit(f, ta, best, worst) \in best .. worst
        /\ NearestFit(f, tb, best, worst) \in best .. worst
    BY <2>1, <2>2, <2>3, NearestFitMonotone, NearestFitInRange
  <2>6. QED
    BY <2>2, <2>4, <2>5 DEF ta, tb
<1> HIDE DEF near
<1>8. q(a) \in Int /\ q(b) \in Int /\ q(a) <= r.worst_quality /\ q(b) <= r.worst_quality
      /\ q(b) <= q(a)
  BY <1>7, AdjustQMonotone
<1> HIDE DEF limit, finest, best, worst, rcf, q
<1>9. CASE ft = "key"
  BY <1>2, <1>4, <1>6, <1>8, <1>9
<1>10. CASE ft = "inter"
  BY <1>2, <1>3, <1>4, <1>6, <1>8, <1>10
<1>11. QED
  BY <1>9, <1>10 DEF FrameTypes

\* For the state of a frame: half its target, its target and twice its target.
LEMMA MoreBitsFiner == ClientInv /\ FrameInv => MoreBitsFinerQ
<1>1. ASSUME phase # "computed" PROVE MoreBitsFinerQ
  BY <1>1 DEF MoreBitsFinerQ
<1>2. ASSUME ClientInv, FrameInv, phase = "computed",
             frame_type = "inter" => 2 * rc.this_frame_target < rc.max_frame_bandwidth
      PROVE  MoreBitsFinerQ
  <2> DEFINE target == rc.this_frame_target
             base == KeyBase(spatial_layer_id, temporal_layer_id)
             size == <<width, height>>
             at(percent) == PickQ(frame_type, rc, base, size, MBs, (target * percent) \div 100)
             pick == [percent \in {50, 100, 200} |-> at(percent)]
  <2>1. /\ rc \in RateControl /\ frame_type \in FrameTypes /\ MBs \in Nat \ {0}
        /\ target \in Nat /\ rc.buffer_level <= rc.maximum_buffer_size
        /\ oxcf \in Config /\ Usable(oxcf)
        /\ layer_context \in [Indices(oxcf) -> LayerContext]
        /\ spatial_layer_id \in 0 .. oxcf.ss_number_layers - 1
        /\ temporal_layer_id \in 0 .. oxcf.ts_number_layers - 1
    BY <1>2 DEF ClientInv, FrameInv, TypeOK, RangesHold
  <2>2. rc.best_quality <= rc.worst_quality
    <3>1. rc.worst_quality = WorstAllowed(oxcf) /\ rc.best_quality = BestAllowed(oxcf)
      <4>1. \/ Configured(rc) = StreamShare(oxcf)
            \/ Configured(rc) = LayerShare(oxcf, current_layer)
        BY <1>2 DEF ClientInv, RangesHold, InFrame
      <4>2. QED
        BY <4>1 DEF Configured, StreamShare, LayerShare
    <3>2. QED
      BY <2>1, <3>1 DEF Usable
  <2>3. base \in Bases
    <3>1. 0 \in 0 .. oxcf.ss_number_layers - 1
      BY <2>1 DEF Usable, MaxSpatialLayers
    <3>2. Index(oxcf, 0, temporal_layer_id) \in Indices(oxcf)
      BY <2>1, <3>1, LayersInArrays
    <3>3. QED
      BY <2>1, <3>2 DEF KeyBase, Bases
  <2>4. /\ (target * 50) \div 100 \in Nat /\ (target * 100) \div 100 = target
        /\ (target * 200) \div 100 = 2 * target
        /\ (target * 50) \div 100 <= target
    BY <2>1
  <2>5. rc.max_frame_bandwidth \in Nat
    BY <2>1, RcTyped
  <2> DEFINE fewer == (target * 50) \div 100
             same  == (target * 100) \div 100
             more  == (target * 200) \div 100
  <2>6. /\ fewer \in Nat /\ same \in Nat /\ more \in Nat /\ fewer <= same /\ same <= more
        /\ frame_type = "inter" => /\ same < rc.max_frame_bandwidth
                                   /\ more < rc.max_frame_bandwidth
    BY <1>2, <2>1, <2>4, <2>5
  <2>7. pick[50] = at(50) /\ pick[100] = at(100) /\ pick[200] = at(200)
    OBVIOUS
  <2>8. /\ at(50) = PickQ(frame_type, rc, base, size, MBs, fewer)
        /\ at(100) = PickQ(frame_type, rc, base, size, MBs, same)
        /\ at(200) = PickQ(frame_type, rc, base, size, MBs, more)
    OBVIOUS
  <2> HIDE DEF base, size, fewer, same, more, target, at
  <2>9. /\ PickQ(frame_type, rc, base, size, MBs, same)
             <= PickQ(frame_type, rc, base, size, MBs, fewer)
        /\ PickQ(frame_type, rc, base, size, MBs, more)
             <= PickQ(frame_type, rc, base, size, MBs, same)
    BY <2>1, <2>2, <2>3, <2>6, PickQMonotone
  <2>10. \A x : PickQ(frame_type, rc, base, size, MBs, x) \in Int
    <3> SUFFICES ASSUME NEW x
                 PROVE  PickQ(frame_type, rc, base, size, MBs, x) \in Int
      OBVIOUS
    <3>1. PickQ(frame_type, rc, base, size, MBs, x) \in rc.best_quality .. rc.worst_quality
      BY <2>1, <2>2, <2>3, PickQInRange
    <3>2. rc.best_quality \in Nat /\ rc.worst_quality \in Nat
      BY <2>1, IndicesNat
    <3>3. QED
      BY <3>1, <3>2
  <2>11. at(50) >= at(100) /\ at(100) >= at(200)
    BY <2>8, <2>9, <2>10
  <2>12. pick[50] >= pick[100] /\ pick[100] >= pick[200]
    BY <2>7, <2>11
  <2>13. QED
    BY <2>12 DEF MoreBitsFinerQ, at, base, size, target
<1>3. ASSUME ~(frame_type = "inter" => 2 * rc.this_frame_target < rc.max_frame_bandwidth)
      PROVE  MoreBitsFinerQ
  BY <1>3 DEF MoreBitsFinerQ
<1>4. QED
  BY <1>1, <1>2, <1>3

\* A larger target never gives a coarser index, in a stream or in a layer.
THEOREM MoreBitsAlwaysFiner == Spec => []MoreBitsFinerQ
<1>1. Init => FrameInv
  BY DEF Init, FrameInv
<1>2. QED
  BY <1>1, MoreBitsFiner, InitClientInv, NextClientInv, NextFrameInv, PTL DEF Spec
-----------------------------------------------------------------------------
(* Without layers the hypothesis of MoreBitsFinerQ always holds, unless a  *)
(* negative undershoot percentage raises the targets of an empty bucket.   *)

\* The average frame and the largest one.
FrameSizesOf(r) == <<r.avg_frame_bandwidth, r.max_frame_bandwidth>>
RoomIn(r) ==
  r.max_frame_bandwidth >= 20 * r.avg_frame_bandwidth /\ r.max_frame_bandwidth >= Maxrate1080P

LEMMA RoomKept ==
  ASSUME NEW q, NEW r, FrameSizesOf(q) = FrameSizesOf(r), RoomIn(r)
  PROVE  RoomIn(q)
  BY DEF FrameSizesOf, RoomIn

LEMMA LevelKeepsFrameSizes ==
  ASSUME NEW r \in RateControl, NEW bits \in Int
  PROVE  FrameSizesOf(Level(r, bits)) = FrameSizesOf(r)
  BY DEF Level, RateControl, FrameSizesOf

LEMMA ResetKeepsFrameSizes ==
  ASSUME NEW r \in RateControl
  PROVE  FrameSizesOf(ResetRc(r)) = FrameSizesOf(r)
<1> DEFINE x == Level(r, r.optimal_buffer_level)
<1>1. r.optimal_buffer_level \in Int
  BY RcTyped
<1>2. x \in RateControl /\ FrameSizesOf(x) = FrameSizesOf(r)
  BY <1>1, LevelKeeps, LevelKeepsFrameSizes
<1>3. ResetRc(r) = [x EXCEPT !.rc_1_frame = 0, !.rc_2_frame = 0]
  BY DEF ResetRc
<1> HIDE DEF x
<1>4. QED
  BY <1>2, <1>3 DEF RateControl, FrameSizesOf

LEMMA StreamRcHasRoom ==
  ASSUME NEW r \in RateControl, NEW c \in Config, Usable(c)
  PROVE  RoomIn(StreamRc(r, c))
<1> DEFINE x == [r EXCEPT !.worst_quality = WorstAllowed(c), !.best_quality = BestAllowed(c)]
           y == Resized(x, StartingLevel(c), OptimalLevel(c), MaximumSize(c))
           average == Bandwidth(c) \div Framerate(c)
           floor == Greatest(((c.width * c.height) \div 256) * MaxMbRate, Maxrate1080P)
           largest == Greatest(floor, 20 * average)
<1>1. x \in RateControl
  BY DEF Usable, RateControl
<1> HIDE DEF x
<1>2. /\ StartingLevel(c) \in Nat /\ OptimalLevel(c) \in Nat /\ MaximumSize(c) \in Nat
  BY SizesTyped
<1>3. y \in RateControl
  BY <1>1, <1>2, ResizedTyped, ZenonT(60)
<1>4. StreamRc(r, c) = [y EXCEPT !.avg_frame_bandwidth = average,
                                 !.max_frame_bandwidth = largest]
  BY DEF StreamRc, Retimed, x
<1> HIDE DEF y
<1>5. average \in Nat
  BY SizesTyped, DivNat
<1>6. floor \in Nat /\ floor >= Maxrate1080P
  <2>1. (c.width * c.height) \div 256 \in Nat
    BY ConfigTyped, ProductNat, DivNat
  <2> DEFINE mbs == (c.width * c.height) \div 256
  <2> HIDE DEF mbs
  <2>2. mbs * MaxMbRate \in Nat /\ Maxrate1080P \in Nat
    BY <2>1 DEF mbs, MaxMbRate, Maxrate1080P
  <2>3. floor = Greatest(mbs * MaxMbRate, Maxrate1080P)
    BY DEF mbs
  <2>4. QED
    BY <2>2, <2>3 DEF Greatest
<1> HIDE DEF average, floor
<1>7. largest >= 20 * average /\ largest >= Maxrate1080P
  BY <1>5, <1>6 DEF Greatest, Maxrate1080P
<1> HIDE DEF largest
<1>8. QED
  BY <1>3, <1>4, <1>7 DEF RoomIn, RateControl

LEMMA StartedKeepsFrameSizes ==
  ASSUME NEW r \in RateControl, NEW c
  PROVE  FrameSizesOf(StartedRc(r, c)) = FrameSizesOf(r)
<1> DEFINE x == Level(r, r.starting_buffer_level)
<1>1. x \in RateControl /\ FrameSizesOf(x) = FrameSizesOf(r)
  BY RcTyped, LevelKeeps, LevelKeepsFrameSizes
<1> HIDE DEF x
<1>2. QED
  BY <1>1 DEF StartedRc, RateControl, FrameSizesOf, x

LEMMA CorrectedKeepsFrameSizes ==
  ASSUME NEW r \in RateControl, NEW ft, NEW bits
  PROVE  FrameSizesOf(Corrected(r, ft, bits)) = FrameSizesOf(r)
  BY DEF Corrected, RateControl, FrameSizesOf

LEMMA ChargedKeepsFrameSizes ==
  ASSUME rc \in RateControl, base_qindex \in 0 .. MaxQ, frame_type \in FrameTypes,
         MBs \in Nat, NEW bits \in Nat
  PROVE  FrameSizesOf(ChargedRc(bits)) = FrameSizesOf(rc)
<1> DEFINE x == Corrected(rc, frame_type, bits)
           level == Least(x.bits_off_target - bits, x.maximum_buffer_size)
           y == Drained(x, bits)
           average == AverageAfter(bits)
           last == IF frame_type = "key" THEN base_qindex ELSE y.last_key_q
           since == IF frame_type = "key" THEN 1 ELSE y.frames_since_key + 1
<1>1. x \in RateControl /\ FrameSizesOf(x) = FrameSizesOf(rc)
  BY CorrectedKeeps, CorrectedKeepsFrameSizes
<1> HIDE DEF x
<1>2. level \in Int
  BY <1>1, RcTyped DEF Least
<1>3. y = Level(x, level)
  BY DEF Drained
<1> HIDE DEF level
<1>4. y \in RateControl /\ FrameSizesOf(y) = FrameSizesOf(x)
  BY <1>1, <1>2, <1>3, LevelKeeps, LevelKeepsFrameSizes
<1>5. ChargedRc(bits) =
        [y EXCEPT !.avg_frame_qindex = average, !.last_key_q = last,
                  !.frames_since_key = since,
                  !.last_avg_frame_bandwidth = rc.avg_frame_bandwidth]
  BY <1>4 DEF ChargedRc, RateControl, x
<1> HIDE DEF y, average, last, since
<1>6. QED
  BY <1>1, <1>4, <1>5 DEF RateControl, FrameSizesOf

\* An inter frame of average size gets at most one and a half of it, or the
\* overhead of a frame.
LEMMA InterTargetBounded ==
  ASSUME NEW c \in Config, c.undershoot_pct >= 0, c.overshoot_pct <= 100,
         NEW r \in RateControl, NEW size \in Nat
  PROVE  \/ 2 * InterTarget(c, r, size) <= 3 * size
         \/ InterTarget(c, r, size) = FrameOverheadBits
<1> DEFINE diff == r.optimal_buffer_level - r.buffer_level
           one_pct_bits == 1 + r.optimal_buffer_level \div 100
           below == Least(diff \div one_pct_bits, c.undershoot_pct)
           above == Least((-diff) \div one_pct_bits, c.overshoot_pct)
           target == IF diff > 0 THEN size - Quotient(size * below, 200)
                     ELSE IF diff < 0 THEN size + Quotient(size * above, 200)
                     ELSE size
<1>1. diff \in Int /\ one_pct_bits \in Nat \ {0}
  BY RcTyped, DivNat
<1>2. c.undershoot_pct \in Int /\ c.overshoot_pct \in Int
  BY ConfigTyped
<1>3. InterTarget(c, r, size) = Greatest(Greatest(size \div 16, FrameOverheadBits), target)
  BY DEF InterTarget
<1>4. target \in Int /\ 2 * target <= 3 * size
  <2> HIDE DEF one_pct_bits, diff
  <2>1. CASE diff > 0
    <3>1. diff \div one_pct_bits \in Nat
      BY <1>1, <2>1, DivNat
    <3>2. below \in Nat
      BY <1>2, <3>1 DEF Least
    <3> HIDE DEF below
    <3>3. size * below \in Nat
      BY <3>2, ProductNat
    <3>4. Quotient(size * below, 200) \in Nat
      BY <3>3, QuotientPositive, DivNat
    <3>5. QED
      BY <1>1, <2>1, <3>4
  <2>2. CASE diff < 0
    <3>1. (-diff) \div one_pct_bits \in Int
      BY <1>1, DivBounds
    <3>2. above \in Int /\ above <= 100
      BY <1>2, <3>1 DEF Least
    <3> HIDE DEF above
    <3> DEFINE x == size * above
    <3>3. x \in Int /\ x <= 100 * size
      <4>1. above * size <= 100 * size
        BY <3>2, TimesMonotone
      <4>2. QED
        BY <3>2, <4>1
    <3> HIDE DEF x
    <3>4. Quotient(x, 200) \in Int /\ 2 * Quotient(x, 200) <= size
      <4>1. CASE x >= 0
        <5>1. Quotient(x, 200) = x \div 200
          BY <3>3, <4>1, QuotientPositive
        <5>2. QED
          BY <3>3, <5>1
      <4>2. CASE x < 0
        <5>1. Quotient(x, 200) = -((-x) \div 200)
          BY <3>3, <4>2, QuotientPositive
        <5>2. QED
          BY <3>3, <4>2, <5>1
      <4>3. QED
        BY <3>3, <4>1, <4>2
    <3>5. target = size + Quotient(x, 200)
      BY <1>1, <2>2 DEF x
    <3>6. QED
      BY <3>4, <3>5
  <2>3. CASE diff = 0
    BY <2>3
  <2>4. QED
    BY <1>1, <2>1, <2>2, <2>3
<1> HIDE DEF target
<1>5. QED
  BY <1>3, <1>4 DEF Greatest, FrameOverheadBits
TargetsLeaveRoom ==
  InFrame /\ ~Layered(oxcf) /\ frame_type = "inter" /\ oxcf.undershoot_pct >= 0
    => 2 * rc.this_frame_target < rc.max_frame_bandwidth

RoomInv ==
  phase # "created" =>
    /\ oxcf.overshoot_pct <= 100
    /\ ~Layered(oxcf) => RoomIn(rc)
    /\ TargetsLeaveRoom

LEMMA OvershootCopied ==
  ASSUME NEW c \in Config
  PROVE  Copied(c).overshoot_pct = c.overshoot_pct
  BY DEF Copied, Config

LEMMA StartedRoom ==
  ASSUME ClientInv, RoomInv, phase = "idle", NEW ft \in FrameTypes,
         NEW s \in 0 .. oxcf.ss_number_layers - 1, NEW t \in 0 .. oxcf.ts_number_layers - 1,
         ComputeQp(ft, s, t), phase' = "computed"
  PROVE  RoomInv'
<1>1. /\ frame_type' = ft /\ oxcf' = oxcf /\ InFrame'
      /\ ~Layered(oxcf) => StartFrame(ft)
  <2>1. phase' # phase
    OBVIOUS
  <2>2. QED
    BY <2>1 DEF ComputeQp, InFrame
<1>2. /\ oxcf \in Config /\ rc \in RateControl /\ oxcf.overshoot_pct <= 100
      /\ ~Layered(oxcf) => RoomIn(rc)
  BY DEF ClientInv, TypeOK, RoomInv
<1>3. CASE Layered(oxcf)
  BY <1>1, <1>2, <1>3 DEF RoomInv, TargetsLeaveRoom
<1>4. CASE ~Layered(oxcf)
  <2> DEFINE target == IF ft = "key" THEN KeyTarget(oxcf, rc, 1)
                       ELSE InterTarget(oxcf, rc, rc.avg_frame_bandwidth)
             bits == Least(rc.bits_off_target + rc.avg_frame_bandwidth, rc.maximum_buffer_size)
             x == Level(rc, bits)
  <2>1. rc' = [x EXCEPT !.this_frame_target = target]
    BY <1>1, <1>4 DEF StartFrame
  <2>2. bits \in Int
    BY <1>2, RcTyped DEF Least
  <2>3. ft = "inter" => target = InterTarget(oxcf, rc, rc.avg_frame_bandwidth)
    OBVIOUS
  <2> HIDE DEF target, bits
  <2>4. x \in RateControl /\ FrameSizesOf(x) = FrameSizesOf(rc)
    BY <1>2, <2>2, LevelKeeps, LevelKeepsFrameSizes
  <2> HIDE DEF x
  <2>5. FrameSizesOf(rc') = FrameSizesOf(rc) /\ rc'.this_frame_target = target
    BY <2>1, <2>4 DEF RateControl, FrameSizesOf
  <2>6. RoomIn(rc) /\ RoomIn(rc')
    BY <1>2, <1>4, <2>5, RoomKept
  <2>7. rc'.max_frame_bandwidth = rc.max_frame_bandwidth
    BY <2>5 DEF FrameSizesOf
  <2>8. ASSUME ft = "inter", oxcf.undershoot_pct >= 0
        PROVE  2 * rc'.this_frame_target < rc'.max_frame_bandwidth
    <3> DEFINE avg == rc.avg_frame_bandwidth
               largest == rc.max_frame_bandwidth
    <3>1. avg \in Nat /\ largest \in Nat /\ largest >= 20 * avg /\ largest >= 4000000
      BY <1>2, <2>6, RcTyped DEF RoomIn, Maxrate1080P
    <3>2. /\ target \in Nat
          /\ 2 * target <= 3 * avg \/ target = 200
      <4>1. target = InterTarget(oxcf, rc, avg)
        BY <2>3, <2>8
      <4>2. InterTarget(oxcf, rc, avg) \in Nat
        BY <1>2, <3>1, InterTargetNat
      <4>3. 2 * InterTarget(oxcf, rc, avg) <= 3 * avg
              \/ InterTarget(oxcf, rc, avg) = FrameOverheadBits
        BY <1>2, <2>8, <3>1, InterTargetBounded
      <4>4. QED
        BY <4>1, <4>2, <4>3 DEF FrameOverheadBits
    <3> HIDE DEF avg, largest
    <3>3. 2 * target < largest
      BY <3>1, <3>2
    <3>4. QED
      BY <2>5, <2>7, <3>3 DEF largest
  <2>9. QED
    BY <1>1, <1>2, <1>4, <2>6, <2>8 DEF RoomInv, TargetsLeaveRoom
<1>5. QED
  BY <1>3, <1>4

LEMMA NextRoomInv == ClientInv /\ RoomInv /\ [Next]_vars => RoomInv'
<1> SUFFICES ASSUME ClientInv, RoomInv, [Next]_vars PROVE RoomInv'
  OBVIOUS
<1>1. ASSUME UNCHANGED <<phase, engine>> PROVE RoomInv'
  BY <1>1 DEF RoomInv, TargetsLeaveRoom, RoomIn, InFrame, engine, stream, frame
<1>2. ASSUME NEW c \in Configs, RateControlInit(c) PROVE RoomInv'
  <2>1. CASE phase' = "idle"
    <3> DEFINE r == StreamRc(BlankRc, c)
    <3>1. /\ Validate(c) /\ ReadsInTable(c) /\ rc' = StartedRc(r, c) /\ oxcf' = Copied(c)
      <4>1. phase' # phase
        BY <1>2, <2>1 DEF RateControlInit
      <4>2. QED
        BY <1>2, <4>1 DEF RateControlInit
    <3>2. c \in Config /\ Usable(c) /\ c.overshoot_pct <= 100
      BY <3>1, ConfigUsable, ParameterAssumption DEF Validate
    <3>3. r \in RateControl /\ RoomIn(r)
      BY <3>2, BlankTyped, StreamRcTyped, StreamRcHasRoom
    <3> HIDE DEF r
    <3>4. RoomIn(rc')
      BY <3>1, <3>3, StartedKeepsFrameSizes, RoomKept
    <3>5. oxcf'.overshoot_pct <= 100
      BY <3>1, <3>2, OvershootCopied
    <3>6. QED
      BY <2>1, <3>4, <3>5 DEF RoomInv, TargetsLeaveRoom, InFrame
  <2>2. CASE phase' # "idle"
    BY <1>1, <1>2, <2>2 DEF RateControlInit
  <2>3. QED
    BY <2>1, <2>2
<1>3. ASSUME phase = "idle", NEW c \in Configs, Validate(c), SameLayers(c), UpdateConfig(c)
      PROVE  RoomInv'
  <2>1. CASE ReadsInTable(c)
    <3> DEFINE d == Copied(c)
               r == StreamRc(rc, d)
    <3>1. /\ oxcf' = d /\ phase' = "idle"
          /\ rc' = IF ~Layered(d) /\ ResetDue(d) /\ RateJumped(r) THEN ResetRc(r) ELSE r
      BY <1>3, <2>1 DEF UpdateConfig, Install
    <3>2. /\ d \in Config /\ Usable(d) /\ d.overshoot_pct <= 100 /\ rc \in RateControl
      <4>1. c \in Config /\ Usable(c) /\ c.overshoot_pct <= 100
        BY <1>3, <2>1, ConfigUsable, ParameterAssumption DEF Validate
      <4>2. QED
        BY <4>1, CopiedKeeps, OvershootCopied DEF ClientInv, TypeOK
    <3> HIDE DEF d
    <3>3. r \in RateControl /\ RoomIn(r)
      BY <3>2, StreamRcTyped, StreamRcHasRoom
    <3> HIDE DEF r
    <3>4. RoomIn(rc')
      BY <3>1, <3>3, ResetKeepsFrameSizes, RoomKept
    <3>5. QED
      BY <3>1, <3>2, <3>4 DEF RoomInv, TargetsLeaveRoom, InFrame
  <2>2. CASE ~ReadsInTable(c)
    BY <1>1, <1>3, <2>2 DEF UpdateConfig
  <2>3. QED
    BY <2>1, <2>2
<1>4. ASSUME phase = "idle", NEW ft \in FrameTypes,
             NEW s \in 0 .. oxcf.ss_number_layers - 1,
             NEW t \in 0 .. oxcf.ts_number_layers - 1, ComputeQp(ft, s, t)
      PROVE  RoomInv'
  <2>1. CASE phase' = "computed"
    BY <1>4, <2>1, StartedRoom
  <2>2. CASE phase' # "computed"
    BY <1>1, <1>4, <2>2 DEF ComputeQp
  <2>3. QED
    BY <2>1, <2>2
<1>5. ASSUME phase = "computed", GetLoopFilterLevel PROVE RoomInv'
  <2>1. UNCHANGED <<oxcf, rc, frame_type>> /\ InFrame /\ InFrame' /\ phase # "created"
    BY <1>5 DEF GetLoopFilterLevel, stream, frame, InFrame
  <2>2. QED
    BY <2>1 DEF RoomInv, TargetsLeaveRoom
<1>6. ASSUME phase = "filtered", NEW size \in FrameSizes, PostEncodeUpdate(size)
      PROVE  RoomInv'
  <2> DEFINE bits == 8 * size
  <2>1. /\ rc' = ChargedRc(bits) /\ oxcf' = oxcf /\ phase' = "idle" /\ phase # "created"
    BY <1>6 DEF PostEncodeUpdate
  <2>2. bits \in Nat
    BY ParameterAssumption
  <2> HIDE DEF bits
  <2>3. FrameSizesOf(rc') = FrameSizesOf(rc)
    BY <2>1, <2>2, ChargedKeepsFrameSizes DEF ClientInv, TypeOK
  <2>4. QED
    BY <2>1, <2>3, RoomKept DEF RoomInv, TargetsLeaveRoom, InFrame
<1>7. ASSUME UNCHANGED vars PROVE RoomInv'
  BY <1>1, <1>7 DEF vars, client
<1>8. QED
  BY <1>2, <1>3, <1>4, <1>5, <1>6, <1>7 DEF Next

\* Without layers, twice the target of an inter frame is below the largest frame:
\* there MoreBitsFinerQ speaks of every frame.
THEOREM TargetsAlwaysLeaveRoom == Spec => []TargetsLeaveRoom
<1>1. Init => RoomInv
  BY DEF Init, RoomInv
<1>2. ClientInv /\ RoomInv => TargetsLeaveRoom
  BY DEF RoomInv, TargetsLeaveRoom, InFrame
<1>3. QED
  BY <1>1, <1>2, InitClientInv, NextClientInv, NextRoomInv, PTL DEF Spec
=============================================================================
