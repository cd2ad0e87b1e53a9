------------------------- MODULE Av1Response_proofs -------------------------
(***************************************************************************)
(* How Av1RateControl answers to more bits: what a larger encoded frame    *)
(* does to the feedback, what a larger target does to the index, and that  *)
(* the search finds the index nearest the target.                          *)
(***************************************************************************)
EXTENDS Av1RateControl_proofs

-----------------------------------------------------------------------------
(* Larger encoded frames. *)

LEMMA SizePctMonotone ==
  ASSUME NEW a \in Nat, NEW b \in Nat, a <= b, NEW estimate \in Nat
  PROVE  /\ SizePct(a, estimate) \in Nat /\ SizePct(b, estimate) \in Nat
         /\ SizePct(a, estimate) <= SizePct(b, estimate)
<1>1. CASE estimate > FrameOverheadBits
  <2>1. estimate \in Nat \ {0} /\ 100 * a \in Nat /\ 100 * b \in Nat /\ 100 * a <= 100 * b
    BY <1>1 DEF FrameOverheadBits
  <2>2. /\ (100 * a) \div estimate \in Nat /\ (100 * b) \div estimate \in Nat
        /\ (100 * a) \div estimate <= (100 * b) \div estimate
    BY <2>1, DivNat, DivMonotone
  <2>3. QED
    BY <1>1, <2>2 DEF SizePct
<1>2. CASE ~(estimate > FrameOverheadBits)
  BY <1>2 DEF SizePct
<1>3. QED
  BY <1>1, <1>2

\* Whatever the damping and the band that changes nothing.
LEMMA CorrectionPctMonotone ==
  ASSUME NEW a \in Nat, NEW b \in Nat, a <= b
  PROVE  /\ CorrectionPct(a) \in Int /\ CorrectionPct(b) \in Int
         /\ CorrectionPct(a) <= CorrectionPct(b)
<1>1. (\A d \in Decade : d \in Nat /\ d >= 100) /\ IsFiniteSet(Decade)
  <2> DEFINE low  == 100
             high == 1000
  <2>1. low \in Int /\ high \in Int /\ Decade \subseteq low .. high
    BY DEF Decade
  <2>2. \A d \in low .. high : d \in Nat /\ d >= 100
    OBVIOUS
  <2> HIDE DEF low, high
  <2>3. IsFiniteSet(low .. high)
    BY <2>1, FS_Interval
  <2>4. IsFiniteSet(Decade)
    BY <2>1, <2>3, FS_Subset
  <2>5. QED
    BY <2>1, <2>2, <2>4
<1>2. \A p \in Nat : Damping(p) = 25 + 5 * Cardinality(Tenths(Decade, p))
  BY DEF Damping, Tenths
<1>3. /\ Cardinality(Tenths(Decade, a)) \in Nat /\ Cardinality(Tenths(Decade, b)) \in Nat
      /\ a >= 100 => Cardinality(Tenths(Decade, a)) <= Cardinality(Tenths(Decade, b))
      /\ b <= 99 => Cardinality(Tenths(Decade, b)) <= Cardinality(Tenths(Decade, a))
  BY <1>1, TenthsMonotone
<1>4. /\ Damping(a) \in Nat /\ Damping(b) \in Nat
      /\ a >= 100 => Damping(a) <= Damping(b)
      /\ b <= 99 => Damping(b) <= Damping(a)
  BY <1>2, <1>3
<1>5. /\ CorrectionPct(a) = CorrectionAt(a, Damping(a))
      /\ CorrectionPct(b) = CorrectionAt(b, Damping(b))
  BY DEF CorrectionPct, CorrectionAt
<1>6. QED
  BY <1>4, <1>5, CorrectionMonotone

LEMMA CorrectedMonotone ==
  ASSUME TypeOK, phase # "created", NEW a \in Nat, NEW b \in Nat, a <= b
  PROVE  Corrected(a) <= Corrected(b)
<1> DEFINE rcf == CorrectionFactor(frame_type)
           estimate == EstimatedBits(frame_type, base_qindex, rcf)
<1>1. rcf \in Nat
  BY CorrectionFactorBetween, ParameterAssumption DEF TypeOK
<1>2. FramePct(a) \in Nat /\ FramePct(b) \in Nat
  BY FramePctNat
<1>3. FramePct(a) <= FramePct(b)
  <2>1. estimate \in Nat
    BY EstimateNat
  <2>2. FramePct(a) = SizePct(a, estimate) /\ FramePct(b) = SizePct(b, estimate)
    BY DEF FramePct
  <2> HIDE DEF estimate
  <2>3. QED
    BY <2>1, <2>2, SizePctMonotone
<1> DEFINE pa == CorrectionPct(FramePct(a))
           pb == CorrectionPct(FramePct(b))
<1>4. pa \in Int /\ pb \in Int /\ pa <= pb
  BY <1>2, <1>3, CorrectionPctMonotone
<1>5. /\ Corrected(a) = Clamp((rcf * pa) \div 100, RcfMin, RcfMax)
      /\ Corrected(b) = Clamp((rcf * pb) \div 100, RcfMin, RcfMax)
  BY DEF Corrected
<1> HIDE DEF rcf, pa, pb
<1>6. rcf * pa \in Int /\ rcf * pb \in Int /\ rcf * pa <= rcf * pb
  <2>1. pa * rcf <= pb * rcf
    BY <1>1, <1>4, TimesMonotone
  <2>2. QED
    BY <1>1, <1>4, <2>1
<1>7. (rcf * pa) \div 100 \in Int /\ (rcf * pb) \div 100 \in Int
      /\ (rcf * pa) \div 100 <= (rcf * pb) \div 100
  BY <1>6, DivBounds, DivMonotone
<1>8. RcfMin \in Int /\ RcfMax \in Int /\ RcfMin <= RcfMax
  BY ParameterAssumption
<1>9. QED
  BY <1>5, <1>7, <1>8, ClampMonotone

LEMMA DrainedAntitone ==
  ASSUME TypeOK, phase # "created", NEW a \in Nat, NEW b \in Nat, a <= b
  PROVE  Drained(a) >= Drained(b)
<1>1. buffer_level \in Int /\ maximum_buffer_size \in Int
  BY InstalledTyped DEF TypeOK
<1>2. /\ Drained(a) = Least(buffer_level - a, maximum_buffer_size)
      /\ Drained(b) = Least(buffer_level - b, maximum_buffer_size)
  BY <1>1 DEF Drained, show_frame
<1>3. QED
  BY <1>1, <1>2 DEF Least

\* The signs of the feedback, for every pair of sizes.
LEMMA FeedbackOneSigned == TypeOK => FeedbackMonotone
<1>1. ASSUME TypeOK, phase = "computed" PROVE FeedbackMonotone
  <2> DEFINE percents == {0, 40, 80, 98, 100, 104, 115, 200, 1100}
             sizes == {(this_frame_target * percent) \div 100 : percent \in percents}
             factor == [bits \in sizes |-> Corrected(bits)]
  <2>1. sizes \subseteq Nat
    <3>1. SUFFICES ASSUME NEW percent \in percents
                   PROVE  (this_frame_target * percent) \div 100 \in Nat
      OBVIOUS
    <3>2. percent \in Nat /\ this_frame_target \in Nat
      BY <1>1 DEF TypeOK
    <3> HIDE DEF percents
    <3>3. this_frame_target * percent \in Nat
      BY <3>2, ProductNat
    <3>4. QED
      BY <3>3, DivNat
  <2> HIDE DEF sizes
  <2>2. \A a, b \in sizes : a <= b => factor[a] <= factor[b] /\ Drained(a) >= Drained(b)
    BY <1>1, <2>1, CorrectedMonotone, DrainedAntitone
  <2>3. QED
    BY <2>2, ZenonT(60) DEF FeedbackMonotone, sizes
<1>2. ASSUME phase # "computed" PROVE FeedbackMonotone
  BY <1>2 DEF FeedbackMonotone
<1>3. QED
  BY <1>1, <1>2

\* A larger encoded frame never leaves the controller expecting smaller ones,
\* nor its bucket fuller.
THEOREM FeedbackAlwaysMonotone == Spec => []FeedbackMonotone
  BY FeedbackOneSigned, TypeCorrect, PTL

-----------------------------------------------------------------------------
(* Larger targets. *)

LEMMA IntervalPositive ==
  ASSUME NEW n \in Nat, NEW x \in 1 .. n
  PROVE  x \in Nat \ {0}
  OBVIOUS

\* A frame has macroblocks.
LEMMA MBsPositive ==
  ASSUME TypeOK, phase # "created"
  PROVE  MBs \in Nat \ {0}
<1>1. oxcf.width \in Nat \ {0} /\ oxcf.height \in Nat \ {0}
  <2>1. oxcf.width \in 1 .. MaxDimension /\ oxcf.height \in 1 .. MaxDimension
    BY ZenonT(60) DEF TypeOK, Validate
  <2>2. MaxDimension \in Nat
    BY DEF MaxDimension
  <2>3. QED
    BY <2>1, <2>2, IntervalPositive
<1>2. ASSUME NEW x \in Nat \ {0} PROVE Blocks(x) \in Nat \ {0}
  <2>1. (x + 7) \div 8 \in Nat \ {0}
    BY DivAtLeast
  <2> DEFINE y == (x + 7) \div 8
  <2> HIDE DEF y
  <2>2. (2 * y + 2) \div 4 \in Nat \ {0}
    BY <2>1 DEF y
  <2>3. QED
    BY <2>2 DEF Blocks, y
<1>3. Blocks(oxcf.width) \in Nat \ {0} /\ Blocks(oxcf.height) \in Nat \ {0}
  BY <1>1, <1>2
<1>4. \A x, y \in Nat \ {0} : x * y \in Nat \ {0}
  OBVIOUS
<1>5. QED
  BY <1>3, <1>4 DEF MBs, Mbs

\* The sizes of frames, by index, and the index nearest a target.
FrameBits(ft, rcf) == [q \in 0 .. MaxQ |-> BitsAt(ft, q, rcf)]

LEMMA FrameBitsTyped ==
  ASSUME NEW ft \in FrameTypes, NEW rcf \in Nat,
         NEW best \in 0 .. MaxQ, NEW worst \in 0 .. MaxQ
  PROVE  \A q \in best .. worst : FrameBits(ft, rcf)[q] = BitsAt(ft, q, rcf)
                                  /\ FrameBits(ft, rcf)[q] \in Int
<1>1. MaxQ \in Nat
  BY MaxQNat
<1>2. \A q \in best .. worst : q \in 0 .. MaxQ
  BY <1>1
<1>3. \A q \in best .. worst : BitsAt(ft, q, rcf) \in Int
  BY <1>2, BitsAtNat
<1>4. QED
  BY <1>2, <1>3 DEF FrameBits

LEMMA NearestQIsNearestFit ==
  ASSUME NEW ft \in FrameTypes, NEW best \in 0 .. MaxQ, NEW worst \in 0 .. MaxQ,
         best <= worst, NEW rcf \in Nat, NEW target \in Int
  PROVE  NearestQ(ft, target, best, worst, rcf)
           = NearestFit(FrameBits(ft, rcf), target, best, worst)
<1> DEFINE f == FrameBits(ft, rcf)
           fits == {q \in best .. worst : BitsAt(ft, q, rcf) <= target}
           first == CHOOSE q \in fits : \A p \in fits : q <= p
<1>1. \A q \in best .. worst : f[q] = BitsAt(ft, q, rcf)
  BY FrameBitsTyped
<1>2. fits = Fits(f, target, best, worst)
  BY <1>1 DEF Fits
<1>3. first = FirstFit(f, target, best, worst)
  BY <1>2 DEF FirstFit
<1>4. best \in Nat /\ worst \in Nat
  BY MaxQNat
<1>5. CASE fits = {}
  BY <1>2, <1>5 DEF NearestQ, NearestFit
<1>6. CASE fits # {}
  <2>1. FirstFit(f, target, best, worst) \in Fits(f, target, best, worst)
    BY <1>2, <1>4, <1>6, FirstFits
  <2>2. first \in best .. worst
    BY <1>3, <2>1 DEF Fits
  <2> HIDE DEF first, f, fits
  <2>3. f[first] = BitsAt(ft, first, rcf)
        /\ (first # best => f[first - 1] = BitsAt(ft, first - 1, rcf))
    BY <1>1, <1>4, <2>2
  <2>4. NearestQ(ft, target, best, worst, rcf)
          = IF first = best THEN first
            ELSE IF target - BitsAt(ft, first, rcf) <= BitsAt(ft, first - 1, rcf) - target
                 THEN first ELSE first - 1
    BY <1>6 DEF NearestQ, first, fits
  <2>5. NearestFit(f, target, best, worst)
          = IF first = best THEN first
            ELSE IF target - f[first] <= f[first - 1] - target THEN first ELSE first - 1
    BY <1>2, <1>3, <1>6 DEF NearestFit
  <2>6. QED
    BY <2>3, <2>4, <2>5 DEF f
<1>7. QED
  BY <1>5, <1>6

\* The band between the last two indices and the limit of the decrease keep
\* the order of indices, and so does the configured range.
LEMMA AdjustQMonotone ==
  ASSUME TypeOK, phase # "created", NEW ft \in FrameTypes,
         NEW p \in Int, NEW q \in Int, p <= q
  PROVE  /\ AdjustQ(ft, p) \in Int /\ AdjustQ(ft, q) \in Int
         /\ AdjustQ(ft, p) <= worst_quality /\ AdjustQ(ft, q) <= worst_quality
         /\ AdjustQ(ft, p) <= AdjustQ(ft, q)
<1>1. q_1_frame \in Int /\ q_2_frame \in Int
  <2>1. q_1_frame \in 0 .. MaxQ /\ q_2_frame \in 0 .. MaxQ
    BY DEF TypeOK
  <2>2. QED
    BY <2>1
<1> DEFINE low  == Least(q_1_frame, q_2_frame)
           high == Greatest(q_1_frame, q_2_frame)
           between(x) == IF rc_1_frame * rc_2_frame = -1 /\ q_1_frame # q_2_frame
                         THEN Clamp(x, low, high) ELSE x
<1>2. low \in Int /\ high \in Int /\ low <= high
  BY <1>1 DEF Least, Greatest
<1> HIDE DEF low, high
<1>3. Clamp(p, low, high) \in Int /\ Clamp(q, low, high) \in Int
      /\ Clamp(p, low, high) <= Clamp(q, low, high)
  BY <1>2, ClampMonotone DEF Clamp
<1>4. between(p) \in Int /\ between(q) \in Int /\ between(p) <= between(q)
  BY <1>3
<1>5. \A x : Damped(ft, x) = IF ft = "inter" /\ frames_since_key > 1
                             THEN Greatest(between(x), q_1_frame - MaxDelta) ELSE x
  BY DEF Damped, low, high
<1> HIDE DEF between
<1>6. Damped(ft, p) \in Int /\ Damped(ft, q) \in Int /\ Damped(ft, p) <= Damped(ft, q)
  BY <1>1, <1>4, <1>5 DEF Greatest, MaxDelta
<1>7. worst_quality \in Int /\ best_quality \in Int /\ best_quality <= worst_quality
  BY InstalledTyped
<1>8. QED
  BY <1>6, <1>7 DEF AdjustQ, Greatest, Least

\* Below max_frame_bandwidth an index is at most the active worst one, and that
\* of a key frame always is.
LEMMA PickQMonotone ==
  ASSUME TypeOK, phase # "created", NEW ft \in FrameTypes, NEW n \in Nat,
         ~Undefined(ft, n), NEW a \in Nat, NEW b \in Nat, a <= b,
         ft = "inter" => b < max_frame_bandwidth
  PROVE  PickQ(ft, n, b) <= PickQ(ft, n, a)
<1> DEFINE limit == ActiveWorst(ft, n)
           best  == Clamp(ActiveBest(ft, n, limit), best_quality, worst_quality)
           worst == Clamp(limit, best, worst_quality)
           rcf   == CorrectionFactor(ft)
           near(t) == NearestQ(ft, Scaled(t, 512, MBs), best, worst, rcf)
           q(t)    == AdjustQ(ft, near(t))
<1>1. limit \in Int /\ (ft = "inter" => limit >= 0)
  BY ActiveWorstInt DEF Undefined
<1>2. worst_quality \in 0 .. MaxQ /\ best_quality \in 0 .. MaxQ /\ best_quality <= worst_quality
      /\ MaxQ \in Nat /\ max_frame_bandwidth \in Nat
  BY InstalledTyped
<1>3. best \in best_quality .. worst_quality
  <2> HIDE DEF limit
  <2>1. ActiveBest(ft, n, limit) \in Int
    BY <1>1, <1>2, ActiveBestInTable
  <2>2. QED
    BY <1>2, <2>1 DEF Clamp
<1>4. worst \in best .. worst_quality /\ (ft = "key" => worst = worst_quality)
  <2>1. ft = "key" => limit = worst_quality
    BY DEF ActiveWorst
  <2> HIDE DEF limit, best
  <2>2. QED
    BY <1>1, <1>2, <1>3, <2>1 DEF Clamp
<1>5. rcf \in Nat
  BY CorrectionFactorBetween, ParameterAssumption
<1>6. /\ PickQ(ft, n, a) = IF q(a) > worst /\ a < max_frame_bandwidth THEN worst ELSE q(a)
      /\ PickQ(ft, n, b) = IF q(b) > worst /\ b < max_frame_bandwidth THEN worst ELSE q(b)
  BY DEF PickQ
<1>7. near(a) \in Int /\ near(b) \in Int /\ near(b) <= near(a)
  <2> DEFINE f == FrameBits(ft, rcf)
             ta == Scaled(a, 512, MBs)
             tb == Scaled(b, 512, MBs)
  <2>1. ta \in Nat /\ tb \in Nat /\ ta <= tb
    <3>1. 512 \in Nat /\ 512 <= 512 /\ MBs \in Nat \ {0}
      BY MBsPositive
    <3> HIDE DEF ta, tb
    <3>2. Scaled(a, 512, MBs) <= Scaled(b, 512, MBs)
      BY <3>1, ScaledMonotone
    <3>3. QED
      BY <3>1, <3>2, ScaledNat DEF ta, tb
  <2> HIDE DEF limit, best, worst, rcf, ta, tb
  <2>2. best \in 0 .. MaxQ /\ worst \in 0 .. MaxQ /\ best <= worst /\ best \in Nat /\ worst \in Nat
    BY <1>2, <1>3, <1>4
  <2>3. \A i \in best .. worst : f[i] \in Int
    BY <1>5, <2>2, FrameBitsTyped
  <2>4. NearestQ(ft, ta, best, worst, rcf) = NearestFit(f, ta, best, worst)
        /\ NearestQ(ft, tb, best, worst, rcf) = NearestFit(f, tb, best, worst)
    BY <1>5, <2>1, <2>2, NearestQIsNearestFit
  <2> HIDE DEF f
  <2>5. NearestFit(f, tb, best, worst) <= NearestFit(f, ta, best, worst)
        /\ NearestFit(f, ta, best, worst) \in best .. worst
        /\ NearestFit(f, tb, best, worst) \in best .. worst
    BY <2>1, <2>2, <2>3, NearestFitMonotone, NearestFitInRange
  <2>6. QED
    BY <2>2, <2>4, <2>5 DEF ta, tb
<1> HIDE DEF near
<1>8. q(a) \in Int /\ q(b) \in Int /\ q(a) <= worst_quality /\ q(b) <= worst_quality
      /\ q(b) <= q(a)
  BY <1>7, AdjustQMonotone
<1> HIDE DEF limit, best, worst, rcf, q
<1>9. CASE ft = "key"
  BY <1>2, <1>4, <1>6, <1>8, <1>9
<1>10. CASE ft = "inter"
  BY <1>2, <1>3, <1>4, <1>6, <1>8, <1>10
<1>11. QED
  BY <1>9, <1>10 DEF FrameTypes

\* What holds of a frame until its size is reported: its index was found, and
\* the target of an inter frame is still what the bucket says.
FrameInv ==
  phase = "computed" =>
    /\ ~Undefined(frame_type, frame_number)
    /\ frame_type = "inter" => this_frame_target = InterTarget

LEMMA ComputeQpFrameInv ==
  ASSUME TypeOK, NEW ft \in FrameTypes, ComputeQp(ft), phase = "idle"
  PROVE  FrameInv'
<1> DEFINE n == IF ft = "key" THEN 0 ELSE frame_number
<1>1. CASE /\ ~Undefined(ft, n)
           /\ this_frame_target' = FrameTarget(ft) /\ frame_type' = ft /\ frame_number' = n
           /\ UNCHANGED <<oxcf, init_framerate, rc, history, projected_frame_size>>
  <2>1. UNCHANGED <<oxcf, init_framerate, buffer_level, avg_frame_qindex>>
    BY <1>1 DEF rc
  <2>2. ActiveWorst(ft, n)' = ActiveWorst(ft, n)
    BY <1>1, <2>1 DEF ActiveWorst, Relief, worst_quality, optimal_buffer_level,
       maximum_buffer_size
  <2>3. ActiveWorst(frame_type, frame_number)' = ActiveWorst(ft, n)
    BY <1>1, <2>1 DEF ActiveWorst, Relief, worst_quality, optimal_buffer_level,
       maximum_buffer_size
  <2>4. InterTarget' = InterTarget
    BY <2>1 DEF InterTarget, Capped, optimal_buffer_level, avg_frame_bandwidth
  <2>5. QED
    BY <1>1, <2>3, <2>4 DEF FrameInv, Undefined, FrameTarget
<1>2. CASE phase' = phase
  BY <1>2 DEF FrameInv
<1>3. QED
  BY <1>1, <1>2 DEF ComputeQp

LEMMA NextFrameInv == TypeOK /\ FrameInv /\ [Next]_vars => FrameInv'
<1> SUFFICES ASSUME TypeOK, FrameInv, [Next]_vars PROVE FrameInv'
  OBVIOUS
<1>1. ASSUME NEW c \in Configs, RateControlInit(c) PROVE FrameInv'
  BY <1>1 DEF RateControlInit, FrameInv
<1>2. ASSUME phase = "idle", NEW c \in Configs, UpdateConfig(c) PROVE FrameInv'
  BY <1>2 DEF UpdateConfig, FrameInv
<1>3. ASSUME phase = "idle", NEW ft \in FrameTypes, ComputeQp(ft) PROVE FrameInv'
  BY <1>3, ComputeQpFrameInv
<1>4. ASSUME NEW size \in FrameSizes, PostEncodeUpdate(size) PROVE FrameInv'
  BY <1>4 DEF PostEncodeUpdate, FrameInv
<1>5. CASE UNCHANGED vars
  BY <1>5 DEF vars, client, engine, rc, history, frame, FrameInv, Undefined, ActiveWorst,
     Relief, InterTarget, Capped, worst_quality, optimal_buffer_level, maximum_buffer_size,
     avg_frame_bandwidth
<1>6. QED
  BY <1>1, <1>2, <1>3, <1>4, <1>5 DEF Next

\* A frame being coded has an index that was found, and its target still holds.
THEOREM FrameAlwaysFound == Spec => []FrameInv
<1>1. Init => FrameInv
  BY DEF Init, FrameInv
<1>2. QED
  BY <1>1, NextFrameInv, TypeCorrect, PTL DEF Spec

\* With an undershoot percentage that lowers targets, an inter frame gets at most
\* one and a half average frames: twice that is well below max_frame_bandwidth.
LEMMA InterTargetFarFromMaximum ==
  ASSUME TypeOK, phase # "created", oxcf.undershoot_pct >= 0
  PROVE  2 * InterTarget < max_frame_bandwidth
<1> DEFINE diff == optimal_buffer_level - buffer_level
           one_pct_bits == 1 + optimal_buffer_level \div 100
           avg == avg_frame_bandwidth
           low == Least(diff \div one_pct_bits, oxcf.undershoot_pct)
           high == Least((-diff) \div one_pct_bits, oxcf.overshoot_pct)
           target == IF diff > 0 THEN avg - Quotient(avg * low, 200)
                     ELSE IF diff < 0 THEN avg + Quotient(avg * high, 200)
                     ELSE avg
<1>1. avg \in Nat /\ optimal_buffer_level \in Nat /\ diff \in Int
  BY InstalledTyped DEF TypeOK
<1>2. one_pct_bits \in Nat \ {0}
  BY <1>1
<1>3. /\ oxcf.undershoot_pct \in Int /\ oxcf.overshoot_pct \in Int /\ oxcf.overshoot_pct <= 100
      /\ oxcf.max_inter_bitrate_pct \in Nat
  BY ConfigTyped DEF TypeOK, Validate
<1>4. target \in Int /\ 2 * target <= 3 * avg
  <2> HIDE DEF one_pct_bits, avg, diff
  <2>1. CASE diff > 0
    <3>1. diff \div one_pct_bits \in Nat
      BY <1>1, <1>2, <2>1, DivNat
    <3>2. low \in Nat
      BY <1>3, <3>1 DEF Least
    <3> HIDE DEF low
    <3>3. avg * low \in Nat
      BY <1>1, <3>2, ProductNat
    <3>4. Quotient(avg * low, 200) \in Nat
      BY <3>3, QuotientPositive, DivNat
    <3>5. QED
      BY <1>1, <2>1, <3>4
  <2>2. CASE diff < 0
    <3>1. (-diff) \div one_pct_bits \in Int
      BY <1>1, <1>2, DivBounds
    <3>2. high \in Int /\ high <= 100
      BY <1>3, <3>1 DEF Least
    <3> HIDE DEF high
    <3>3. avg * high \in Int /\ avg * high <= 100 * avg
      <4>1. high * avg <= 100 * avg
        BY <1>1, <3>2, TimesMonotone
      <4>2. QED
        BY <1>1, <3>2, <4>1
    <3> DEFINE x == avg * high
    <3> HIDE DEF x
    <3>4. x \in Int /\ x <= 100 * avg
      BY <3>3 DEF x
    <3>5. Quotient(x, 200) \in Int /\ 2 * Quotient(x, 200) <= avg
      <4>1. CASE x >= 0
        <5>1. Quotient(x, 200) = x \div 200
          BY <3>4, <4>1, QuotientPositive
        <5>2. QED
          BY <1>1, <3>4, <5>1
      <4>2. CASE x < 0
        <5>1. Quotient(x, 200) = -((-x) \div 200)
          BY <3>4, <4>2, QuotientPositive
        <5>2. QED
          BY <1>1, <3>4, <4>2, <5>1
      <4>3. QED
        BY <3>4, <4>1, <4>2
    <3>6. target = avg + Quotient(x, 200)
      BY <1>1, <2>2 DEF x
    <3>7. QED
      BY <1>1, <3>5, <3>6
  <2>3. CASE diff = 0
    BY <1>1, <2>3
  <2>4. QED
    BY <1>1, <2>1, <2>2, <2>3
<1>5. InterTarget = Greatest(Greatest(avg \div 16, FrameOverheadBits),
                             Capped(target, oxcf.max_inter_bitrate_pct))
  BY DEF InterTarget
<1> HIDE DEF target, avg
<1>6. Capped(target, oxcf.max_inter_bitrate_pct) \in Int
      /\ Capped(target, oxcf.max_inter_bitrate_pct) <= target
  <2>1. Capped(target, oxcf.max_inter_bitrate_pct) \in Int
    BY <1>3, <1>4, CappedNat
  <2>2. avg_frame_bandwidth * oxcf.max_inter_bitrate_pct \in Nat
    BY <1>3, InstalledTyped, ProductNat
  <2>3. (avg_frame_bandwidth * oxcf.max_inter_bitrate_pct) \div 100 \in Nat
    BY <2>2, DivNat
  <2>4. QED
    BY <1>4, <2>1, <2>3 DEF Capped, Least
<1>7. avg \div 16 \in Nat /\ 16 * (avg \div 16) <= avg
  BY <1>1
<1>8. InterTarget \in Int /\ (2 * InterTarget <= 400 \/ 2 * InterTarget <= 3 * avg)
  BY <1>1, <1>4, <1>5, <1>6, <1>7 DEF Greatest, FrameOverheadBits
<1>9. /\ max_frame_bandwidth \in Nat /\ max_frame_bandwidth >= 2025000
      /\ max_frame_bandwidth >= 20 * avg
  <2>1. Mbs(oxcf) * MaxMbRate \in Nat
    BY InstalledTyped DEF MBs, MaxMbRate
  <2>2. AverageBandwidth(oxcf, init_framerate) \in Nat
        /\ avg = AverageBandwidth(oxcf, init_framerate)
    BY <1>1 DEF avg, avg_frame_bandwidth
  <2>3. QED
    BY <2>1, <2>2 DEF max_frame_bandwidth, MaximumBandwidth, Greatest, Maxrate1080P
<1>10. QED
  BY <1>1, <1>8, <1>9

LEMMA MoreBitsFiner == TypeOK /\ FrameInv => MoreBitsFinerQ
<1>1. ASSUME TypeOK, FrameInv, phase = "computed", oxcf.undershoot_pct >= 0
      PROVE  MoreBitsFinerQ
  <2> DEFINE part(percent) == (this_frame_target * percent) \div 100
             pick == [percent \in {50, 100, 200} |->
                        PickQ(frame_type, frame_number, part(percent))]
  <2>1. /\ this_frame_target \in Nat /\ frame_type \in FrameTypes /\ frame_number \in Nat
        /\ phase # "created" /\ ~Undefined(frame_type, frame_number)
    BY <1>1 DEF TypeOK, FrameInv
  <2>2. /\ part(50) \in Nat /\ part(100) \in Nat /\ part(200) \in Nat
        /\ part(50) <= part(100) /\ part(100) <= part(200)
        /\ part(200) <= 2 * this_frame_target
    BY <2>1
  <2>3. frame_type = "inter" => 2 * this_frame_target < max_frame_bandwidth
    BY <1>1, <2>1, InterTargetFarFromMaximum DEF FrameInv
  <2>4. max_frame_bandwidth \in Nat
    BY <1>1, <2>1, InstalledTyped
  <2> HIDE DEF part
  <2>5. frame_type = "inter" => part(100) < max_frame_bandwidth /\ part(200) < max_frame_bandwidth
    BY <2>1, <2>2, <2>3, <2>4
  <2>6. /\ PickQ(frame_type, frame_number, part(100)) <= PickQ(frame_type, frame_number, part(50))
        /\ PickQ(frame_type, frame_number, part(200)) <= PickQ(frame_type, frame_number, part(100))
    BY <1>1, <2>1, <2>2, <2>5, PickQMonotone
  <2>7. /\ PickQ(frame_type, frame_number, part(50)) \in Int
        /\ PickQ(frame_type, frame_number, part(100)) \in Int
        /\ PickQ(frame_type, frame_number, part(200)) \in Int
    <3>1. worst_quality \in Int /\ best_quality \in Int
      BY <1>1, <2>1, InstalledTyped
    <3>2. ASSUME NEW t \in Nat PROVE PickQ(frame_type, frame_number, t) \in Int
      <4>1. PickQ(frame_type, frame_number, t) \in best_quality .. worst_quality
        BY <1>1, <2>1, PickQRange
      <4>2. QED
        BY <3>1, <4>1
    <3>3. QED
      BY <2>2, <3>2
  <2>8. pick[50] >= pick[100] /\ pick[100] >= pick[200]
    BY <2>6, <2>7
  <2>9. QED
    BY <2>8 DEF MoreBitsFinerQ, part
<1>2. ASSUME ~(phase = "computed" /\ oxcf.undershoot_pct >= 0) PROVE MoreBitsFinerQ
  BY <1>2 DEF MoreBitsFinerQ
<1>3. QED
  BY <1>1, <1>2

\* A larger target never gives a coarser index.
THEOREM MoreBitsAlwaysFiner == Spec => []MoreBitsFinerQ
  BY MoreBitsFiner, FrameAlwaysFound, TypeCorrect, PTL

-----------------------------------------------------------------------------
(* The binary search.  Its recursion is on the distance of its ends: what  *)
(* it finds is proved on the least distance at which it could go wrong.    *)

\* A coarser index never makes a larger frame.
LEMMA FrameBitsAntitone ==
  ASSUME NEW ft \in FrameTypes, NEW rcf \in Nat,
         NEW p \in 0 .. MaxQ, NEW q \in 0 .. MaxQ, p <= q
  PROVE  FrameBits(ft, rcf)[q] <= FrameBits(ft, rcf)[p]
<1> DEFINE enumerator == 4 * (IF ft = "key" THEN 2000000 ELSE 1500000)
<1>1. enumerator \in Nat /\ BitsPerMb[ft][p] = enumerator \div AcQLookup[p]
      /\ BitsPerMb[ft][q] = enumerator \div AcQLookup[q]
  BY DEF BitsPerMb
<1> HIDE DEF enumerator
<1>2. AcQLookup[p] \in Nat \ {0} /\ AcQLookup[q] \in Nat \ {0} /\ AcQLookup[p] <= AcQLookup[q]
  BY TableAssumption, MonotoneTableAssumption
<1>3. BitsPerMb[ft][q] <= BitsPerMb[ft][p] /\ BitsPerMb[ft][q] \in Nat /\ BitsPerMb[ft][p] \in Nat
  BY <1>1, <1>2, DivAntitone, DivNat
<1>4. Scaled(BitsPerMb[ft][q], rcf, RcfOne) <= Scaled(BitsPerMb[ft][p], rcf, RcfOne)
  <2>1. rcf <= rcf /\ RcfOne \in Nat \ {0}
    BY ParameterAssumption
  <2>2. QED
    BY <1>3, <2>1, ScaledMonotone
<1>5. QED
  BY <1>4 DEF FrameBits, BitsAt

\* The equation that the search is defined by.
SearchEquation(ft, target, rcf, s) ==
  s = [ends \in (0 .. MaxQ) \X (0 .. MaxQ) |->
         LET low == ends[1]  high == ends[2]  mid == (low + high) \div 2
         IN  IF low >= high THEN low
             ELSE IF BitsAt(ft, mid, rcf) > target THEN s[<<mid + 1, high>>]
             ELSE s[<<low, mid>>]]

Search(ft, target, rcf) == CHOOSE s : SearchEquation(ft, target, rcf, s)

LEMMA ClosestBySearch ==
  ASSUME NEW ft, NEW target, NEW best, NEW worst, NEW rcf
  PROVE  find_closest_qindex_by_rate(ft, target, best, worst, rcf)
           = LET found == Search(ft, target, rcf)[<<best, worst>>]
                 miss(q) == Distance(BitsAt(ft, q, rcf), target)
             IN  IF \/ BitsAt(ft, found, rcf) > target \/ found = best
                    \/ miss(found) <= miss(found - 1)
                 THEN found ELSE found - 1
  BY DEF find_closest_qindex_by_rate, Search, SearchEquation

\* One halving keeps what is found.
LEMMA SearchHalves ==
  ASSUME NEW ft \in FrameTypes, NEW target \in Int, NEW rcf \in Nat,
         NEW low \in 0 .. MaxQ, NEW high \in 0 .. MaxQ, low < high
  PROVE  LET mid == (low + high) \div 2
             f   == FrameBits(ft, rcf)
         IN  /\ mid \in low .. high - 1 /\ mid \in 0 .. MaxQ /\ mid + 1 \in 0 .. MaxQ
             /\ f[mid] > target =>
                  \A x : Found(f, target, mid + 1, high, x) => Found(f, target, low, high, x)
             /\ ~(f[mid] > target) =>
                  \A x : Found(f, target, low, mid, x) => Found(f, target, low, high, x)
<1> DEFINE mid == (low + high) \div 2
           f   == FrameBits(ft, rcf)
<1>1. MaxQ \in Nat /\ low \in Nat /\ high \in Nat
  BY MaxQNat
<1>2. mid \in low .. high - 1 /\ mid \in 0 .. MaxQ /\ mid + 1 \in 0 .. MaxQ
  BY <1>1
<1>3. mid \in low .. high
  BY <1>1, <1>2
<1>4. \A q \in low .. high : f[q] \in Int /\ q \in 0 .. MaxQ
  <2>1. \A q \in low .. high : f[q] \in Int
    BY FrameBitsTyped
  <2>2. \A q \in low .. high : q \in 0 .. MaxQ
    BY <1>1
  <2>3. QED
    BY <2>1, <2>2
<1>5. \A p, q \in low .. high : p <= q => f[q] <= f[p]
  BY <1>4, FrameBitsAntitone
<1> HIDE DEF f, mid
<1>6. ASSUME f[mid] > target, NEW x, Found(f, target, mid + 1, high, x)
      PROVE  Found(f, target, low, high, x)
  BY <1>1, <1>2, <1>4, <1>5, <1>6, FoundAbove
<1>7. ASSUME ~(f[mid] > target), NEW x, Found(f, target, low, mid, x)
      PROVE  Found(f, target, low, high, x)
  <2>1. f[mid] <= target
    BY <1>3, <1>4, <1>7
  <2>2. QED
    BY <1>1, <1>3, <1>7, <2>1, FoundBelow
<1>8. QED
  BY <1>2, <1>6, <1>7 DEF f, mid

\* The equation has a solution, the index that is to be found.
LEMMA SearchExists ==
  ASSUME NEW ft \in FrameTypes, NEW target \in Int, NEW rcf \in Nat
  PROVE  SearchEquation(ft, target, rcf, Search(ft, target, rcf))
<1> DEFINE f == FrameBits(ft, rcf)
           found(low, high) == CHOOSE x : Found(f, target, low, high, x)
           s == [ends \in (0 .. MaxQ) \X (0 .. MaxQ) |->
                   IF ends[1] >= ends[2] THEN ends[1] ELSE found(ends[1], ends[2])]
<1>1. MaxQ \in Nat
  BY MaxQNat
<1>2. ASSUME NEW low \in 0 .. MaxQ, NEW high \in 0 .. MaxQ, low <= high
      PROVE  Found(f, target, low, high, s[<<low, high>>])
  <2>1. low \in Nat /\ high \in Nat /\ \A q \in low .. high : f[q] \in Int
    <3>1. \A q \in low .. high : f[q] \in Int
      BY FrameBitsTyped
    <3>2. QED
      BY <1>1, <3>1
  <2>2. CASE low = high
    <3>1. s[<<low, high>>] = low
      BY <1>1, <2>2
    <3> HIDE DEF s
    <3>2. QED
      BY <2>1, <2>2, <3>1 DEF Found
  <2>3. CASE low < high
    <3>1. \E x : Found(f, target, low, high, x)
      BY <1>2, <2>1, FoundExists
    <3>2. Found(f, target, low, high, found(low, high))
      BY <3>1
    <3>3. s[<<low, high>>] = found(low, high)
      BY <1>1, <2>1, <2>3
    <3> HIDE DEF s
    <3>4. QED
      BY <3>2, <3>3
  <2>4. QED
    BY <1>2, <2>1, <2>2, <2>3
<1>3. ASSUME NEW low \in 0 .. MaxQ, NEW high \in 0 .. MaxQ
      PROVE  s[<<low, high>>] =
               LET mid == (low + high) \div 2
               IN  IF low >= high THEN low
                   ELSE IF BitsAt(ft, mid, rcf) > target THEN s[<<mid + 1, high>>]
                   ELSE s[<<low, mid>>]
  <2> DEFINE mid == (low + high) \div 2
  <2>1. low \in Nat /\ high \in Nat
    BY <1>1
  <2>2. CASE low >= high
    BY <2>1, <2>2
  <2>3. CASE low < high
    <3>1. mid \in low .. high - 1 /\ mid \in 0 .. MaxQ /\ mid + 1 \in 0 .. MaxQ
      BY <2>3, SearchHalves
    <3>2. f[mid] = BitsAt(ft, mid, rcf) /\ (f[mid] > target \/ ~(f[mid] > target))
      BY <3>1 DEF FrameBits
    <3>3. \A q \in low .. high : f[q] \in Int
      BY <1>1, FrameBitsTyped
    <3>4. Found(f, target, low, high, s[<<low, high>>])
      <4>1. low <= high
        BY <2>1, <2>3
      <4> HIDE DEF s, f
      <4>2. QED
        BY <1>2, <4>1
    <3>5. CASE f[mid] > target
      <4>1. Found(f, target, mid + 1, high, s[<<mid + 1, high>>])
        <5>1. mid + 1 <= high
          BY <2>1, <3>1
        <5> HIDE DEF s, mid, f
        <5>2. QED
          BY <1>2, <3>1, <5>1
      <4> HIDE DEF s
      <4>2. Found(f, target, low, high, s[<<mid + 1, high>>])
        BY <2>3, <3>5, <4>1, SearchHalves
      <4> HIDE DEF mid, f
      <4>3. s[<<low, high>>] = s[<<mid + 1, high>>]
        BY <2>1, <3>3, <3>4, <4>2, FoundUnique
      <4>4. QED
        BY <2>1, <2>3, <3>2, <3>5, <4>3 DEF mid
    <3>6. CASE ~(f[mid] > target)
      <4>1. Found(f, target, low, mid, s[<<low, mid>>])
        <5>1. low <= mid
          BY <2>1, <3>1
        <5> HIDE DEF s, mid, f
        <5>2. QED
          BY <1>2, <3>1, <5>1
      <4> HIDE DEF s
      <4>2. Found(f, target, low, high, s[<<low, mid>>])
        BY <2>3, <3>6, <4>1, SearchHalves
      <4> HIDE DEF mid, f
      <4>3. s[<<low, high>>] = s[<<low, mid>>]
        BY <2>1, <3>3, <3>4, <4>2, FoundUnique
      <4>4. QED
        BY <2>1, <2>3, <3>2, <3>6, <4>3 DEF mid
    <3>7. QED
      BY <3>5, <3>6
  <2>4. QED
    BY <2>1, <2>2, <2>3
<1>4. SearchEquation(ft, target, rcf, s)
  <2> DEFINE body(ends) ==
               LET low == ends[1]  high == ends[2]  mid == (low + high) \div 2
               IN  IF low >= high THEN low
                   ELSE IF BitsAt(ft, mid, rcf) > target THEN s[<<mid + 1, high>>]
                   ELSE s[<<low, mid>>]
  <2>1. s = [ends \in (0 .. MaxQ) \X (0 .. MaxQ) |-> s[ends]]
    OBVIOUS
  <2> HIDE DEF s
  <2>2. ASSUME NEW ends \in (0 .. MaxQ) \X (0 .. MaxQ)
        PROVE  s[ends] = body(ends)
    <3>1. PICK low \in 0 .. MaxQ, high \in 0 .. MaxQ : ends = <<low, high>>
      OBVIOUS
    <3>2. ends[1] = low /\ ends[2] = high
      BY <3>1
    <3>3. QED
      BY <1>3, <3>1, <3>2
  <2>3. s = [ends \in (0 .. MaxQ) \X (0 .. MaxQ) |-> body(ends)]
    <3> HIDE DEF body
    <3>1. QED
      BY <2>1, <2>2
  <2>4. QED
    BY <2>3 DEF SearchEquation
<1> HIDE DEF s
<1>5. QED
  BY <1>4 DEF Search

\* And only that index.
LEMMA SearchFinds ==
  ASSUME NEW ft \in FrameTypes, NEW target \in Int, NEW rcf \in Nat,
         NEW best \in 0 .. MaxQ, NEW worst \in 0 .. MaxQ, best <= worst
  PROVE  Found(FrameBits(ft, rcf), target, best, worst, Search(ft, target, rcf)[<<best, worst>>])
<1> DEFINE f == FrameBits(ft, rcf)
           s == Search(ft, target, rcf)
           wrong == {d \in Nat : \E low, high \in 0 .. MaxQ :
                       low <= high /\ high - low = d
                       /\ ~Found(f, target, low, high, s[<<low, high>>])}
           middle(low, high) == (low + high) \div 2
<1> HIDE DEF s, wrong
<1>1. MaxQ \in Nat /\ best \in Nat /\ worst \in Nat
  BY MaxQNat
<1>2. ASSUME NEW low \in 0 .. MaxQ, NEW high \in 0 .. MaxQ
      PROVE  /\ low >= high => s[<<low, high>>] = low
             /\ ~(low >= high) /\ BitsAt(ft, middle(low, high), rcf) > target =>
                  s[<<low, high>>] = s[<<middle(low, high) + 1, high>>]
             /\ ~(low >= high) /\ ~(BitsAt(ft, middle(low, high), rcf) > target) =>
                  s[<<low, high>>] = s[<<low, middle(low, high)>>]
  <2> DEFINE body(ends) ==
               LET l == ends[1]  h == ends[2]  mid == (l + h) \div 2
               IN  IF l >= h THEN l
                   ELSE IF BitsAt(ft, mid, rcf) > target THEN s[<<mid + 1, h>>]
                   ELSE s[<<l, mid>>]
  <2>1. s = [ends \in (0 .. MaxQ) \X (0 .. MaxQ) |-> body(ends)]
    BY SearchExists DEF SearchEquation, s
  <2>2. s[<<low, high>>] = body(<<low, high>>)
    <3> HIDE DEF body
    <3>1. QED
      BY <2>1
  <2>3. QED
    BY <2>2
<1>3. wrong = {}
  <2>1. SUFFICES ASSUME wrong # {} PROVE FALSE
    OBVIOUS
  <2>2. PICK d \in wrong : \A e \in wrong : d <= e
    <3>1. wrong \in SUBSET Nat
      BY DEF wrong
    <3>2. QED
      BY <2>1, <3>1, LeastElement
  <2>3. PICK low \in 0 .. MaxQ, high \in 0 .. MaxQ :
          low <= high /\ high - low = d /\ ~Found(f, target, low, high, s[<<low, high>>])
    BY DEF wrong
  <2>4. low \in Nat /\ high \in Nat
    BY <1>1
  <2>5. ASSUME NEW l \in 0 .. MaxQ, NEW h \in 0 .. MaxQ, l <= h, h - l < d
        PROVE  Found(f, target, l, h, s[<<l, h>>])
    <3>1. SUFFICES ASSUME ~Found(f, target, l, h, s[<<l, h>>]) PROVE FALSE
      OBVIOUS
    <3>2. l \in Nat /\ h \in Nat /\ h - l \in Nat
      BY <1>1, <2>5
    <3>3. h - l \in wrong
      BY <2>5, <3>1, <3>2 DEF wrong
    <3>4. QED
      BY <2>2, <2>3, <2>4, <2>5, <3>2, <3>3
  <2>6. CASE low = high
    <3>1. s[<<low, high>>] = low
      <4>1. low >= high
        BY <2>4, <2>6
      <4> HIDE DEF middle
      <4>2. QED
        BY <1>2, <4>1
    <3>2. Found(f, target, low, high, s[<<low, high>>])
      BY <2>4, <2>6, <3>1 DEF Found
    <3>3. QED
      BY <2>3, <3>2
  <2>7. CASE low < high
    <3> DEFINE mid == middle(low, high)
    <3>1. mid \in low .. high - 1 /\ mid \in 0 .. MaxQ /\ mid + 1 \in 0 .. MaxQ
      BY <2>7, SearchHalves
    <3>2. f[mid] = BitsAt(ft, mid, rcf) /\ (f[mid] > target \/ ~(f[mid] > target))
      BY <3>1 DEF FrameBits
    <3>3. CASE f[mid] > target
      <4>1. mid + 1 <= high /\ high - (mid + 1) < d
        BY <2>3, <2>4, <3>1
      <4>2. Found(f, target, mid + 1, high, s[<<mid + 1, high>>])
        BY <2>5, <3>1, <4>1
      <4>3. Found(f, target, low, high, s[<<mid + 1, high>>])
        BY <2>7, <3>3, <4>2, SearchHalves
      <4>4. s[<<low, high>>] = s[<<mid + 1, high>>]
        <5>1. ~(low >= high)
          BY <2>4, <2>7
        <5> HIDE DEF middle
        <5>2. QED
          BY <1>2, <3>2, <3>3, <5>1
      <4>5. QED
        BY <2>3, <4>3, <4>4
    <3>4. CASE ~(f[mid] > target)
      <4>1. low <= mid /\ mid - low < d
        BY <2>3, <2>4, <3>1
      <4>2. Found(f, target, low, mid, s[<<low, mid>>])
        BY <2>5, <3>1, <4>1
      <4>3. Found(f, target, low, high, s[<<low, mid>>])
        BY <2>7, <3>4, <4>2, SearchHalves
      <4>4. s[<<low, high>>] = s[<<low, mid>>]
        <5>1. ~(low >= high)
          BY <2>4, <2>7
        <5> HIDE DEF middle
        <5>2. QED
          BY <1>2, <3>2, <3>4, <5>1
      <4>5. QED
        BY <2>3, <4>3, <4>4
    <3>5. QED
      BY <3>3, <3>4
  <2>8. QED
    BY <2>3, <2>4, <2>6, <2>7
<1>4. SUFFICES ASSUME ~Found(f, target, best, worst, s[<<best, worst>>]) PROVE FALSE
  BY DEF s
<1>5. worst - best \in Nat
  BY <1>1
<1>6. worst - best \in wrong
  BY <1>4, <1>5 DEF wrong
<1>7. QED
  BY <1>3, <1>6

\* The binary search, for every target and range.
LEMMA ClosestIsNearest ==
  ASSUME NEW ft \in FrameTypes, NEW target \in Int, NEW rcf \in Nat,
         NEW best \in 0 .. MaxQ, NEW worst \in 0 .. MaxQ, best <= worst
  PROVE  find_closest_qindex_by_rate(ft, target, best, worst, rcf)
           = NearestQ(ft, target, best, worst, rcf)
<1> DEFINE f == FrameBits(ft, rcf)
           x == Search(ft, target, rcf)[<<best, worst>>]
           miss(q) == Distance(BitsAt(ft, q, rcf), target)
<1>1. best \in Nat /\ worst \in Nat
  BY MaxQNat
<1>2. \A q \in best .. worst : f[q] = BitsAt(ft, q, rcf) /\ f[q] \in Int
  BY FrameBitsTyped
<1>3. Found(f, target, best, worst, x)
  BY SearchFinds
<1>4. x \in best .. worst
  BY <1>3 DEF Found
<1> HIDE DEF f, x
<1>5. NearestFit(f, target, best, worst)
        = IF \/ f[x] > target \/ x = best
             \/ Distance(f[x], target) <= Distance(f[x - 1], target)
          THEN x ELSE x - 1
  BY <1>1, <1>2, <1>3, FoundNearest
<1>6. f[x] = BitsAt(ft, x, rcf) /\ (x # best => f[x - 1] = BitsAt(ft, x - 1, rcf))
  <2>1. x # best => x - 1 \in best .. worst
    BY <1>1, <1>4
  <2>2. QED
    BY <1>2, <1>4, <2>1
<1>7. find_closest_qindex_by_rate(ft, target, best, worst, rcf)
        = IF BitsAt(ft, x, rcf) > target \/ x = best \/ miss(x) <= miss(x - 1)
          THEN x ELSE x - 1
  BY ClosestBySearch DEF x
<1>8. NearestQ(ft, target, best, worst, rcf) = NearestFit(f, target, best, worst)
  BY NearestQIsNearestFit DEF f
<1>9. QED
  BY <1>5, <1>6, <1>7, <1>8

LEMMA SearchNearest == TypeOK /\ QpInRange => SearchFindsNearest
<1>1. ASSUME TypeOK, QpInRange, phase = "computed" PROVE SearchFindsNearest
  <2> DEFINE rcf == CorrectionFactor(frame_type)
             target(percent) == Scaled(Scaled(this_frame_target, 512, MBs), percent, 100)
  <2>1. frame_type \in FrameTypes /\ this_frame_target \in Nat /\ base_qindex \in 0 .. MaxQ
        /\ phase # "created"
    BY <1>1 DEF TypeOK
  <2>2. rcf \in Nat
    BY <1>1, <2>1, CorrectionFactorBetween, ParameterAssumption
  <2>3. /\ best_quality \in 0 .. MaxQ /\ worst_quality \in 0 .. MaxQ
        /\ best_quality <= base_qindex /\ base_qindex <= worst_quality
        /\ best_quality <= worst_quality /\ base_qindex <= base_qindex
    BY <1>1, <2>1, InstalledTyped DEF QpInRange
  <2>4. \A percent \in Nat : target(percent) \in Int
    <3>1. Scaled(this_frame_target, 512, MBs) \in Nat
      <4>1. 512 \in Nat /\ MBs \in Nat \ {0}
        BY <1>1, <2>1, MBsPositive
      <4>2. QED
        BY <2>1, <4>1, ScaledNat
    <3>2. QED
      BY <3>1, ScaledNat
  <2> HIDE DEF rcf, target
  <2>5. ASSUME NEW percent \in {1, 90, 110, 10000},
               NEW best \in {best_quality, base_qindex}, NEW worst \in {base_qindex, worst_quality}
        PROVE  find_closest_qindex_by_rate(frame_type, target(percent), best, worst, rcf)
                 = NearestQ(frame_type, target(percent), best, worst, rcf)
    <3>1. best \in 0 .. MaxQ /\ worst \in 0 .. MaxQ /\ best <= worst
      BY <2>1, <2>3
    <3>2. target(percent) \in Int
      BY <2>4
    <3>3. QED
      BY <2>1, <2>2, <3>1, <3>2, ClosestIsNearest
  <2>6. QED
    BY <2>5 DEF SearchFindsNearest, rcf, target
<1>2. ASSUME phase # "computed" PROVE SearchFindsNearest
  BY <1>2 DEF SearchFindsNearest
<1>3. QED
  BY <1>1, <1>2

\* The binary search finds the index nearest the target, for every table,
\* configuration and target.
THEOREM SearchAlwaysFindsNearest == Spec => []SearchFindsNearest
  BY SearchNearest, QpAlwaysInRange, TypeCorrect, PTL

\* What nearest means: no other index of the range misses the target by less.
THEOREM NearestMissesLeast ==
  ASSUME NEW ft \in FrameTypes, NEW target \in Int, NEW rcf \in Nat,
         NEW best \in 0 .. MaxQ, NEW worst \in 0 .. MaxQ, best <= worst,
         NEW q \in best .. worst
  PROVE  Distance(BitsAt(ft, NearestQ(ft, target, best, worst, rcf), rcf), target)
           <= Distance(BitsAt(ft, q, rcf), target)
<1> DEFINE f == FrameBits(ft, rcf)
           near == NearestFit(f, target, best, worst)
<1>1. best \in Nat /\ worst \in Nat /\ MaxQ \in Nat
  BY MaxQNat
<1>2. \A p \in best .. worst : p \in 0 .. MaxQ
  BY <1>1
<1>3. \A p \in best .. worst : f[p] = BitsAt(ft, p, rcf) /\ f[p] \in Int
  BY FrameBitsTyped
<1>4. \A p, r \in best .. worst : p <= r => f[r] <= f[p]
  BY <1>2, FrameBitsAntitone
<1>5. NearestQ(ft, target, best, worst, rcf) = near
  BY NearestQIsNearestFit
<1> HIDE DEF f
<1>6. near \in best .. worst
  BY <1>1, NearestFitInRange
<1>7. Distance(f[near], target) <= Distance(f[q], target)
  BY <1>1, <1>3, <1>4, NearestFitNearest
<1> HIDE DEF near
<1>8. QED
  BY <1>3, <1>5, <1>6, <1>7
=============================================================================
