--------------------------- MODULE Av1RateControl ---------------------------
(***************************************************************************)
(* The AV1 constant-bitrate controller (src/brc/av1/aom_derived).  It      *)
(* validates layers but codes one: use_svc is cleared when the engine is   *)
(* created and never set.  Only an update assigns the installed limits and *)
(* sizes, from its configuration and the frame rate, so they are operators *)
(* of these.  bits_off_target always equals buffer_level.                  *)
(*                                                                         *)
(* Fields that keep the zero they start with settle their branches:        *)
(* show_frame (kept below), has_prev_frame, this_key_frame_forced,         *)
(* is_src_frame_alt_ref, check_scene_detection, is_screen_content_type.    *)
(* Fields nothing reads (rolling and total bits, last_q, ni_ averages,     *)
(* last_boosted_qindex, sb64_target_rate, quantizer matrices) are left     *)
(* out.  Rate correction factors are in units of 1 / RcfOne.               *)
(***************************************************************************)
EXTENDS Arithmetic, FiniteSets

CONSTANTS
  MaxQ,                 (* AV1_MAXQ, the coarsest quantizer index             *)
  QuantizerToQindex,    (* public quantizer -> quantizer index                *)
  AcQLookup,            (* index -> quantizer, in quarters                    *)
  RtcMinQ,              (* average or worst index -> best index allowed       *)
  RcfOne, RcfMin, RcfMax, (* rate correction factors 1.0, 0.005 and 50        *)
  RcfInter,             (* and 0.7, where that of inter frames starts         *)
  Configs,              (* configurations a client passes                     *)
  FrameSizes,           (* encoded frame sizes in bytes                       *)
  MaxFrames, MaxUpdates (* bounds: frames and updates of one behaviour        *)

FrameTypes == {"key", "inter"}

MaxSpatialLayers  == 4      \* AOM_MAX_SS_LAYERS
MaxTemporalLayers == 8      \* AOM_MAX_TS_LAYERS
MaxLayers         == 32     \* AOM_MAX_LAYERS
FrameOverheadBits == 200

Config == [rc_mode : {"cbr", "other"}, width : Nat, height : Nat,
           max_quantizer : Int, min_quantizer : Int, target_bandwidth : Nat,
           buf_initial_sz : Nat, buf_optimal_sz : Nat, buf_sz : Nat,
           undershoot_pct : Int, overshoot_pct : Int,
           max_intra_bitrate_pct : Nat, max_inter_bitrate_pct : Nat,
           framerate : Nat,
           ss_number_layers : Nat, ts_number_layers : Nat,
           layer_target_bitrate : [0 .. MaxLayers - 1 -> Nat],
           ts_rate_decimator : [0 .. MaxTemporalLayers - 1 -> Nat]]

ASSUME TableAssumption ==
  /\ MaxQ \in Nat \ {0}
  /\ QuantizerToQindex \in [0 .. 63 -> 0 .. MaxQ]
  /\ \A i, j \in 0 .. 63 : i <= j => QuantizerToQindex[i] <= QuantizerToQindex[j]
  /\ AcQLookup \in [0 .. MaxQ -> Nat \ {0}]
  /\ RtcMinQ \in [0 .. MaxQ -> 0 .. MaxQ]

\* A coarser index never has a finer quantizer.
ASSUME MonotoneTableAssumption ==
  \A p, q \in 0 .. MaxQ : p <= q => AcQLookup[p] <= AcQLookup[q]

ASSUME ParameterAssumption ==
  /\ RcfOne \in Nat \ {0} /\ RcfMin \in Nat /\ RcfMax \in Nat /\ RcfInter \in Nat
  /\ RcfMin <= RcfInter /\ RcfInter <= RcfOne /\ RcfOne <= RcfMax
  /\ Configs \subseteq Config
  /\ FrameSizes \subseteq Nat
  /\ MaxFrames \in Nat /\ MaxUpdates \in Nat

VARIABLES
  phase,                      \* where the client is: see Phases
  frames, updates,            \* made so far (bounded by MaxFrames and MaxUpdates)
  fault,                      \* "none", or what ended the process
  oxcf, init_framerate,       \* the configuration installed last, and its frame rate
  buffer_level,
  rate_correction_factors, avg_frame_qindex,
  frames_since_key,
  rc_1_frame, rc_2_frame, q_1_frame, q_2_frame,
  this_frame_target, projected_frame_size,
  frame_type, frame_number, base_qindex

client  == <<phase, frames, updates, fault>>
history == <<rc_1_frame, rc_2_frame, q_1_frame, q_2_frame>>
frame   == <<this_frame_target, frame_type, frame_number, base_qindex>>
rc      == <<buffer_level, rate_correction_factors, avg_frame_qindex, frames_since_key>>
engine  == <<oxcf, init_framerate, rc, history, frame, projected_frame_size>>
vars    == <<client, engine>>

Phases == {"created", "idle", "computed"}

-----------------------------------------------------------------------------
(* Configuration: brc_av1_validate and brc_av1_update_rate_control. *)

MaxDimension == 65535

Validate(c) ==
  /\ c.rc_mode = "cbr"
  /\ c.width \in 1 .. MaxDimension /\ c.height \in 1 .. MaxDimension
  /\ c.max_quantizer <= 63
  /\ c.min_quantizer <= c.max_quantizer
  /\ c.undershoot_pct <= 100 /\ c.overshoot_pct <= 100
  /\ c.ss_number_layers \in 1 .. MaxSpatialLayers
  /\ c.ts_number_layers \in 1 .. MaxTemporalLayers
  /\ c.ss_number_layers * c.ts_number_layers <= MaxLayers
  /\ c.ts_number_layers > 1 =>
       /\ \A s \in 1 .. c.ss_number_layers - 1, t \in 1 .. c.ts_number_layers - 1 :
            c.layer_target_bitrate[s * c.ts_number_layers + t]
              >= c.layer_target_bitrate[s * c.ts_number_layers + t - 1]
       /\ c.ts_rate_decimator[c.ts_number_layers - 1] = 1
       /\ \A t \in 1 .. c.ts_number_layers - 2 :
            c.ts_rate_decimator[t - 1] = 2 * c.ts_rate_decimator[t]

ReadsInTable(c) ==
  /\ c.max_quantizer \in DOMAIN QuantizerToQindex
  /\ c.min_quantizer \in DOMAIN QuantizerToQindex

WorstAllowed(c) == QuantizerToQindex[c.max_quantizer]
BestAllowed(c)  == QuantizerToQindex[c.min_quantizer]

Bandwidth(c) == 1000 * c.target_bandwidth
BufferBits(c, ms) == Scaled(ms, Bandwidth(c), 1000)
BufferBitsOrDefault(c, ms) == IF ms = 0 THEN Bandwidth(c) \div 8 ELSE BufferBits(c, ms)

StartingLevel(c) == BufferBits(c, c.buf_initial_sz)
OptimalLevel(c)  == BufferBitsOrDefault(c, c.buf_optimal_sz)
MaximumSize(c)   == BufferBitsOrDefault(c, c.buf_sz)

\* av1_get_MBs: blocks of 16, of an even number of blocks of 4.
Blocks(x) == (2 * ((x + 7) \div 8) + 2) \div 4
Mbs(c)    == Blocks(c.width) * Blocks(c.height)

\* av1_new_framerate and av1_rc_update_framerate.
Framerate(rate) == IF rate = 0 THEN 30 ELSE rate
MaxMbRate       == 250
Maxrate1080P    == 2025000
AverageBandwidth(c, rate) == Bandwidth(c) \div Framerate(rate)
MaximumBandwidth(c, rate) ==
  Greatest(Greatest(Mbs(c) * MaxMbRate, Maxrate1080P), 20 * AverageBandwidth(c, rate))

\* The rate an update installs depends on the rate it replaces: after one over
\* 180 it is 30 whatever the configuration says.
InstalledRate(c) == IF init_framerate > 180 THEN 30 ELSE c.framerate

\* Everything an update assigns.  It clips the level to the new maximum, and
\* then av1_rc_init starts it over, clipped or not, as it does the averages
\* and factors; the last two indices and their outcome stay.
Install(c) ==
  /\ oxcf' = c
  /\ init_framerate' = InstalledRate(c)
  /\ buffer_level' = StartingLevel(c)
  /\ rate_correction_factors' =
       [ft \in FrameTypes |-> IF ft = "key" THEN RcfOne ELSE RcfInter]
  /\ avg_frame_qindex' = [ft \in FrameTypes |-> WorstAllowed(c)]
  /\ frames_since_key' = 8
  /\ UNCHANGED <<history, frame, projected_frame_size>>

\* The installed values while a frame is coded.
worst_quality        == WorstAllowed(oxcf)
best_quality         == BestAllowed(oxcf)
optimal_buffer_level == OptimalLevel(oxcf)
maximum_buffer_size  == MaximumSize(oxcf)
avg_frame_bandwidth  == AverageBandwidth(oxcf, init_framerate)
max_frame_bandwidth  == MaximumBandwidth(oxcf, init_framerate)
MBs                  == Mbs(oxcf)

-----------------------------------------------------------------------------
(* Frame targets. *)

\* A target within a percentage of the average, if there is one.
Capped(target, pct) ==
  IF pct > 0 THEN Least(target, (avg_frame_bandwidth * pct) \div 100) ELSE target

\* av1_calc_pframe_target_size_one_pass_cbr
InterTarget ==
  LET diff == optimal_buffer_level - buffer_level
      one_pct_bits == 1 + optimal_buffer_level \div 100
      avg == avg_frame_bandwidth
      target ==
        IF diff > 0
        THEN avg - Quotient(avg * Least(diff \div one_pct_bits, oxcf.undershoot_pct), 200)
        ELSE IF diff < 0
        THEN avg + Quotient(avg * Least((-diff) \div one_pct_bits, oxcf.overshoot_pct), 200)
        ELSE avg
  IN  Greatest(Greatest(avg \div 16, FrameOverheadBits),
               Capped(target, oxcf.max_inter_bitrate_pct))

\* av1_calc_iframe_target_size_one_pass_cbr, by the frame number before the key
\* frame starts it over.
KeyTarget ==
  LET rate     == Framerate(init_framerate)
      boost    == Greatest(32, 2 * rate - 16)
      kf_boost == IF 2 * frames_since_key < rate
                  THEN (2 * boost * frames_since_key) \div rate ELSE boost
      target   == IF frame_number = 0 THEN StartingLevel(oxcf) \div 2
                  ELSE ((16 + kf_boost) * avg_frame_bandwidth) \div 16
  IN  Least(Capped(target, oxcf.max_intra_bitrate_pct), max_frame_bandwidth)

FrameTarget(ft) == IF ft = "key" THEN KeyTarget ELSE InterTarget

-----------------------------------------------------------------------------
(* The quantizer of a frame. *)

\* enumerator / q, in units of 1 / 512 bit per macroblock; q is AcQLookup / 4.
BitsPerMb ==
  [ft \in FrameTypes |-> [q \in 0 .. MaxQ |->
     (4 * (IF ft = "key" THEN 2000000 ELSE 1500000)) \div AcQLookup[q]]]

\* av1_rc_bits_per_mb, and av1_estimate_bits_at_q for a whole frame.
BitsAt(ft, q, rcf) == Scaled(BitsPerMb[ft][q], rcf, RcfOne)
EstimatedBits(ft, q, rcf) ==
  Greatest(FrameOverheadBits, Scaled(BitsAt(ft, q, rcf), MBs, 512))

\* get_rate_correction_factor
CorrectionFactor(ft) == Clamp(rate_correction_factors[ft], RcfMin, RcfMax)

\* Mutant of Relief: in steps up to the whole index.
ReliefWhole(worst) ==
  LET step == (maximum_buffer_size - optimal_buffer_level) \div worst
  IN  IF step <= 0 THEN 0 ELSE (buffer_level - optimal_buffer_level) \div step

\* What a bucket above its optimal level takes off the worst index, in steps
\* up to a third of the index at the maximum.
Relief(worst) ==
  LET third == worst \div 3
      step  == Quotient(maximum_buffer_size - optimal_buffer_level, third)
  IN  IF third = 0 \/ step = 0 THEN 0
      ELSE Quotient(buffer_level - optimal_buffer_level, step)

\* calc_active_worst_quality_no_stats_cbr, for a frame with number n.
ActiveWorst(ft, n) ==
  LET ambient  == IF n < 5 THEN Least(avg_frame_qindex["inter"], avg_frame_qindex["key"])
                  ELSE avg_frame_qindex["inter"]
      worst    == Least(worst_quality, (5 * ambient) \div 4)
      critical == optimal_buffer_level \div 8
  IN  IF ft = "key" THEN worst_quality
      ELSE IF buffer_level > optimal_buffer_level THEN worst - Relief(worst)
      ELSE IF buffer_level <= critical THEN worst_quality
      ELSE IF critical = 0 THEN worst
      ELSE ambient + Quotient((worst_quality - ambient)
                              * (optimal_buffer_level - buffer_level),
                              optimal_buffer_level - critical)

\* calc_active_best_quality_no_stats_cbr.  A key frame has number 0 here, so the
\* quality of earlier key frames plays no part.
ActiveBest(ft, n, worst) ==
  LET recent == avg_frame_qindex[IF n > 1 THEN "inter" ELSE "key"]
  IN  IF ft = "key" THEN best_quality ELSE RtcMinQ[Least(recent, worst)]

\* A bucket that starts over its maximum can push the worst index below zero.
Undefined(ft, n) == ft = "inter" /\ ActiveWorst(ft, n) < 0

\* Mutant of NearestQ: the first index that fits is never compared with the
\* one before it, and none fitting gives the best index.
NearestQOrBest(ft, target, best, worst, rcf) ==
  LET fits == {q \in best .. worst : BitsAt(ft, q, rcf) <= target}
  IN  IF fits = {} THEN best ELSE CHOOSE q \in fits : \A p \in fits : q <= p

\* What find_closest_qindex_by_rate is for: the first index that fits the target
\* per macroblock, or the one before it when that misses by less.
NearestQ(ft, target, best, worst, rcf) ==
  LET fits  == {q \in best .. worst : BitsAt(ft, q, rcf) <= target}
      first == CHOOSE q \in fits : \A p \in fits : q <= p
  IN  IF fits = {} THEN worst
      ELSE IF first = best THEN first
      ELSE IF target - BitsAt(ft, first, rcf) <= BitsAt(ft, first - 1, rcf) - target
           THEN first ELSE first - 1

\* Mutant of find_closest_qindex_by_rate: the neighbour is not considered.
find_first_qindex_by_rate(ft, target, best, worst, rcf) ==
  LET search[ends \in (0 .. MaxQ) \X (0 .. MaxQ)] ==
        LET low == ends[1]  high == ends[2]  mid == (low + high) \div 2
        IN  IF low >= high THEN low
            ELSE IF BitsAt(ft, mid, rcf) > target THEN search[<<mid + 1, high>>]
            ELSE search[<<low, mid>>]
  IN  search[<<best, worst>>]

\* How it finds that index, see SearchFindsNearest.
find_closest_qindex_by_rate(ft, target, best, worst, rcf) ==
  LET search[ends \in (0 .. MaxQ) \X (0 .. MaxQ)] ==
        LET low == ends[1]  high == ends[2]  mid == (low + high) \div 2
        IN  IF low >= high THEN low
            ELSE IF BitsAt(ft, mid, rcf) > target THEN search[<<mid + 1, high>>]
            ELSE search[<<low, mid>>]
      found == search[<<best, worst>>]
      miss(q) == Distance(BitsAt(ft, q, rcf), target)
  IN  IF BitsAt(ft, found, rcf) > target \/ found = best \/ miss(found) <= miss(found - 1)
      THEN found ELSE found - 1

MaxDelta == 16

\* Mutant of Damped: the limit is taken from the frame before the last.
DampedByOlder(ft, q) ==
  IF ft = "inter" /\ frames_since_key > 1 THEN Greatest(q, q_2_frame - MaxDelta) ELSE q

\* The index of an inter frame when the last key frame is some frames back:
\* between the last two after an overshoot and an undershoot, and not more than
\* 16 below the last.
Damped(ft, q) ==
  LET between == IF rc_1_frame * rc_2_frame = -1 /\ q_1_frame # q_2_frame
                 THEN Clamp(q, Least(q_1_frame, q_2_frame), Greatest(q_1_frame, q_2_frame))
                 ELSE q
  IN  IF ft = "inter" /\ frames_since_key > 1
      THEN Greatest(between, q_1_frame - MaxDelta) ELSE q

\* Mutant of AdjustQ: the index is not clipped to the configured range.
AdjustQUnclipped(ft, q) == Damped(ft, q)

\* adjust_q_cbr
AdjustQ(ft, q) == Greatest(Least(Damped(ft, q), worst_quality), best_quality)

\* rc_pick_q_and_bounds_no_stats_cbr for a target of the whole frame.
PickQ(ft, n, target) ==
  LET limit == ActiveWorst(ft, n)
      best  == Clamp(ActiveBest(ft, n, limit), best_quality, worst_quality)
      worst == Clamp(limit, best, worst_quality)
      q     == AdjustQ(ft, NearestQ(ft, Scaled(target, 512, MBs), best, worst,
                                    CorrectionFactor(ft)))
  IN  IF q > worst /\ target < max_frame_bandwidth THEN worst ELSE q

-----------------------------------------------------------------------------
(* After the frame: av1_rc_postencode_update and what it calls. *)

\* The damping of a correction, in percent: a quarter, and a twentieth more for
\* each tenth of a decade between the projected and the coded size.
Decade == {126, 158, 200, 251, 316, 398, 501, 631, 794, 1000}
Damping(factor) == 25 + 5 * Cardinality({d \in Decade : factor >= d \/ factor * d <= 10000})

\* Coded size over estimated size, in percent.
SizePct(bits, estimate) ==
  IF estimate > FrameOverheadBits THEN (100 * bits) \div estimate ELSE 100

\* Mutant of CorrectionPct: an undershoot corrects the wrong way.
CorrectionPctUnsigned(pct) == 100 + (Distance(pct, 100) * Damping(pct)) \div 100

\* What multiplies the correction factor, in percent; a frame within a percent
\* or two changes nothing.
CorrectionPct(pct) ==
  IF pct > 102 THEN 100 + ((pct - 100) * Damping(pct)) \div 100
  ELSE IF pct < 99 THEN (10000 - (100 - pct) * Damping(pct)) \div 100
  ELSE 100

\* av1_rc_update_rate_correction_factors: -1 stands for an overshoot, 1 for an
\* undershoot.
FramePct(bits) ==
  SizePct(bits, EstimatedBits(frame_type, base_qindex, CorrectionFactor(frame_type)))

Corrected(bits) ==
  Clamp((CorrectionFactor(frame_type) * CorrectionPct(FramePct(bits))) \div 100,
        RcfMin, RcfMax)

Outcome(pct) == IF pct > 110 THEN -1 ELSE IF pct < 90 THEN 1 ELSE 0

\* Mutant of Average: the weights do not add up to one.
AverageUnscaled(old, new) == (3 * old + new + 1) \div 2

\* Moving average of the index: three quarters old, one quarter new.
Average(old, new) == (3 * old + new + 2) \div 4

\* Mutant of show_frame: a frame is shown.
show_frame_set == TRUE

\* Nothing sets show_frame, so every frame is one that is not shown.
show_frame == FALSE

\* update_buffer_level: a frame that is not shown is pure overhead.
Drained(bits) ==
  Least(buffer_level + (IF show_frame THEN avg_frame_bandwidth ELSE 0) - bits,
        maximum_buffer_size)

-----------------------------------------------------------------------------
(* The operations. *)

Init ==
  /\ phase = "created" /\ frames = 0 /\ updates = 0 /\ fault = "none"
  /\ oxcf = <<>> /\ init_framerate = 0 /\ buffer_level = 0
  /\ rate_correction_factors = [ft \in FrameTypes |-> 0]
  /\ avg_frame_qindex = [ft \in FrameTypes |-> 0]
  /\ frames_since_key = 0
  /\ rc_1_frame = 0 /\ rc_2_frame = 0 /\ q_1_frame = 0 /\ q_2_frame = 0
  /\ this_frame_target = 0 /\ projected_frame_size = 0
  /\ frame_type = "key" /\ frame_number = 0 /\ base_qindex = 0

\* brc_av1_rate_control_init: a rejected configuration creates no engine.
RateControlInit(c) ==
  /\ phase = "created" /\ fault = "none"
  /\ UNCHANGED <<frames, updates>>
  /\ \/ /\ Validate(c) /\ ReadsInTable(c)
        /\ Install(c)
        /\ phase' = "idle" /\ fault' = fault
     \/ /\ Validate(c) /\ ~ReadsInTable(c)
        /\ fault' = "bad_quantizer" /\ UNCHANGED <<phase, engine>>
     \/ /\ ~Validate(c)
        /\ UNCHANGED <<phase, fault, engine>>

\* brc_av1_update_rate_control: the configuration is not validated again.
UpdateConfig(c) ==
  /\ phase # "created" /\ fault = "none"
  /\ updates < MaxUpdates /\ updates' = updates + 1
  /\ UNCHANGED <<phase, frames>>
  /\ \/ /\ ReadsInTable(c)
        /\ Install(c) /\ fault' = fault
     \/ /\ ~ReadsInTable(c)
        /\ fault' = "bad_quantizer" /\ UNCHANGED engine

\* brc_av1_compute_qp.  A key frame starts the frame numbers over, after its
\* target was computed; the counters of update_keyframe_counters move for
\* shown frames only, that is never.
ComputeQp(ft) ==
  LET n == IF ft = "key" THEN 0 ELSE frame_number IN
  /\ phase # "created" /\ fault = "none"
  /\ frames < MaxFrames /\ UNCHANGED <<frames, updates>>
  /\ \/ /\ ~Undefined(ft, n)
        /\ phase' = "computed" /\ fault' = fault
        /\ this_frame_target' = FrameTarget(ft)
        /\ frame_type' = ft /\ frame_number' = n
        /\ base_qindex' = PickQ(ft, n, FrameTarget(ft))
        /\ UNCHANGED <<oxcf, init_framerate, rc, history, projected_frame_size>>
     \/ /\ Undefined(ft, n)
        /\ fault' = "below_table" /\ UNCHANGED <<phase, engine>>

\* brc_av1_post_encode_update.  brc_av1_get_qp reads base_qindex;
\* brc_av1_get_loop_filter_level is not implemented.
PostEncodeUpdate(size) ==
  LET bits == 8 * size IN
  /\ phase # "created" /\ fault = "none"
  /\ phase' = "idle" /\ frames' = frames + 1 /\ UNCHANGED <<updates, fault>>
  /\ projected_frame_size' = bits
  /\ rate_correction_factors' = [rate_correction_factors EXCEPT ![frame_type] = Corrected(bits)]
  /\ q_2_frame' = q_1_frame /\ q_1_frame' = base_qindex
  /\ rc_2_frame' = rc_1_frame /\ rc_1_frame' = Outcome(FramePct(bits))
  /\ avg_frame_qindex' =
       [avg_frame_qindex EXCEPT !["key"] =
          IF frame_type = "key" THEN Average(@, base_qindex) ELSE @]
  /\ buffer_level' = Drained(bits)
  /\ frames_since_key' = IF frame_type = "key" THEN 0 ELSE frames_since_key
  /\ frame_number' = frame_number + 1
  /\ UNCHANGED <<oxcf, init_framerate, this_frame_target, frame_type, base_qindex>>

\* The client of the documented loop (aom_av1_rtc.h): it updates between frames
\* only, with configurations init would accept, and reports the size of every
\* frame it computed.
Next ==
  \/ \E c \in Configs : RateControlInit(c)
  \/ phase = "idle" /\ \E c \in Configs : Validate(c) /\ UpdateConfig(c)
  \/ phase = "idle" /\ \E ft \in FrameTypes : ComputeQp(ft)
  \/ phase = "computed" /\ \E size \in FrameSizes : PostEncodeUpdate(size)

Spec == Init /\ [][Next]_vars

-----------------------------------------------------------------------------
(* Properties. *)

Faults == {"none", "bad_quantizer", "below_table"}

\* Every field keeps its type: an average index always indexes the tables, and
\* a correction factor stays within its bounds, whatever the sizes of the frames.
TypeOK ==
  /\ phase \in Phases /\ frames \in Nat /\ updates \in Nat /\ fault \in Faults
  /\ init_framerate \in Nat
  /\ phase # "created" => oxcf \in Config /\ Validate(oxcf) /\ ReadsInTable(oxcf)
  /\ buffer_level \in Int
  /\ rate_correction_factors \in [FrameTypes -> 0 .. RcfMax]
  /\ avg_frame_qindex \in [FrameTypes -> 0 .. MaxQ]
  /\ frames_since_key \in {0, 8}
  /\ rc_1_frame \in -1 .. 1 /\ rc_2_frame \in -1 .. 1
  /\ q_1_frame \in 0 .. MaxQ /\ q_2_frame \in 0 .. MaxQ
  /\ this_frame_target \in Nat /\ projected_frame_size \in Nat
  /\ frame_type \in FrameTypes /\ frame_number \in Nat
  /\ base_qindex \in 0 .. MaxQ

\* The index of a frame lies in the range configured last, although the last
\* two indices it is damped towards may come from another range.
QpInRange == phase = "computed" => base_qindex \in best_quality .. worst_quality

\* An inter frame with no key frame since the last update is at most 16 indices
\* finer than the frame before, unless the fullness of the bucket or the range
\* asks for more: neither the search nor the band between the last two indices
\* gets past the limit.
DecreaseLimited ==
  phase = "computed" /\ frame_type = "inter" /\ frames_since_key > 1 =>
    \/ base_qindex >= q_1_frame - MaxDelta
    \/ base_qindex >= Least(worst_quality, ActiveWorst("inter", frame_number))

\* The binary search finds the index nearest the target, for every frame and for
\* targets far from its own: the loop stops on the first index that fits and
\* the comparison with its neighbour never leaves the range.
SearchFindsNearest ==
  phase = "computed" =>
    \A percent \in {1, 90, 110, 10000},
       best \in {best_quality, base_qindex}, worst \in {base_qindex, worst_quality} :
        LET rcf    == CorrectionFactor(frame_type)
            target == Scaled(Scaled(this_frame_target, 512, MBs), percent, 100)
        IN  find_closest_qindex_by_rate(frame_type, target, best, worst, rcf)
              = NearestQ(frame_type, target, best, worst, rcf)

\* A larger target never gives a coarser index: neither the search with its
\* two neighbours nor the damping between the last two indices reverses it.
\* Only a negative undershoot_pct, which validation accepts, gets a target near
\* max_frame_bandwidth, from which on a frame may leave its worst index.
MoreBitsFinerQ ==
  phase = "computed" /\ oxcf.undershoot_pct >= 0 =>
    LET pick == [percent \in {50, 100, 200} |->
                   PickQ(frame_type, frame_number, (this_frame_target * percent) \div 100)]
    IN  pick[50] >= pick[100] /\ pick[100] >= pick[200]

\* A larger encoded frame never leaves the controller expecting smaller ones,
\* nor its bucket fuller: whatever the damping and the band that changes
\* nothing, the feedback has one sign.
FeedbackMonotone ==
  phase = "computed" =>
    LET sizes == {(this_frame_target * percent) \div 100 :
                    percent \in {0, 40, 80, 98, 100, 104, 115, 200, 1100}}
        factor == [bits \in sizes |-> Corrected(bits)]
    IN  \A a, b \in sizes : a <= b => factor[a] <= factor[b] /\ Drained(a) >= Drained(b)

\* The read before the start of the minq table needs a configuration whose
\* initial level is above the maximum: a level the code has clipped takes
\* less than two thirds off the worst index, although a step of the relief
\* is rounded down.
FaultNeedsOverfullStart ==
  fault = "below_table" => StartingLevel(oxcf) > MaximumSize(oxcf)

EngineRange ==
  IF phase = "created" THEN <<0, 0>> ELSE <<best_quality, worst_quality>>

Engine == INSTANCE BrcEngine WITH
  Quantizers <- 0 .. MaxQ,
  status <- IF fault # "none" THEN "stopped"
            ELSE IF phase = "created" THEN "none"
            ELSE IF phase = "idle" THEN "ready" ELSE "computed",
  range  <- EngineRange,
  qp     <- base_qindex

\* For the documented client this engine is one of those BrcEngine specifies.
EngineContract == Engine!Spec

BudgetState == INSTANCE FrameBudget WITH
  left  <- buffer_level,
  grant <- IF phase = "created" THEN 0 ELSE StartingLevel(oxcf),
  limit <- IF phase = "created" THEN 0 ELSE maximum_buffer_size,
  cost  <- projected_frame_size

\* The level is a budget that every update grants anew and frames only spend:
\* no frame time ever adds to it.
Budget == BudgetState!Spec

\* What update_buffer_level is said to be (aom_av1_ratectrl.c:449), a leaky
\* bucket: a coded frame leaves the level an average frame higher and its own
\* size lower, up to the maximum.
LeakyBucket ==
  [][ phase = "computed" /\ phase' = "idle"
      => buffer_level' = Least(buffer_level + avg_frame_bandwidth - projected_frame_size',
                               maximum_buffer_size) ]_vars
=============================================================================
