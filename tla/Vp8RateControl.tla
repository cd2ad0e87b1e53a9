--------------------------- MODULE Vp8RateControl ---------------------------
(***************************************************************************)
(* The VP8 constant-bitrate controller (src/brc/vp8/libvpx_derived): one   *)
(* engine, driven through the four operations the library dispatches to    *)
(* it.  RateControlInit and UpdateConfig install a configuration,          *)
(* ComputeQp chooses the quantizer index of the next frame and             *)
(* PostEncodeUpdate charges the encoded frame to the rate model and to the *)
(* leaky bucket.  get_qp only reads base_qindex.                           *)
(*                                                                         *)
(* Bits, bytes and quantizer indices are the integers of the code.  The    *)
(* rate correction factors are doubles in the code; here they are integers *)
(* in units of 1 / RcfOne.  Fields nothing reads (rolling monitors,        *)
(* last_q, filter_level, golden-frame countdown) are left out.             *)
(***************************************************************************)
EXTENDS Arithmetic, Sequences

CONSTANTS
  MaxQ,                 (* VP8_MAXQ, the coarsest quantizer index             *)
  QTrans,               (* public quantizer -> quantizer index                *)
  MinQ,                 (* frame type -> worst index -> best index allowed    *)
  BitsPerMb,            (* frame type -> index -> 512 * bits of a macroblock  *)
  KfBoostQAdjustment,   (* average index -> key frame boost, in percent       *)
  NiDamping,            (* inter frames before ni_av_qi steers (150)          *)
  RcfOne, RcfMin, RcfMax, (* rate correction factors 1.0, 0.01 and 50         *)
  Configs,              (* configurations a client passes                     *)
  FrameSizes,           (* encoded frame sizes in bytes                       *)
  MaxCalls              (* bound: API calls of one behaviour                  *)

FrameTypes == {"key", "inter"}

Config == [rc_mode : {"cbr", "other"}, width : Nat, height : Nat,
           max_quantizer : Int, min_quantizer : Int,
           undershoot_pct : Int, overshoot_pct : Int,
           ss_number_layers : Nat, ts_number_layers : Nat,
           max_inter_bitrate_pct : Nat, max_intra_bitrate_pct : Nat,
           target_bandwidth : Nat, framerate : Nat,
           buf_initial_sz : Nat, buf_optimal_sz : Nat, buf_sz : Nat]

IntMax == 2147483647

ASSUME TableAssumption ==
  /\ MaxQ \in Nat \ {0}
  /\ QTrans \in [0 .. 63 -> 0 .. MaxQ]
  /\ \A i, j \in 0 .. 63 : i <= j => QTrans[i] <= QTrans[j]
  /\ MinQ \in [FrameTypes -> [0 .. MaxQ -> 0 .. MaxQ]]
  /\ \A ft \in FrameTypes : \A q \in 0 .. MaxQ : MinQ[ft][q] <= Greatest(0, q - 1)
  /\ BitsPerMb \in [FrameTypes -> [0 .. MaxQ -> Nat]]
  /\ KfBoostQAdjustment \in [0 .. MaxQ -> Nat]

\* A coarser index never takes more bits.
ASSUME MonotoneTableAssumption ==
  \A ft \in FrameTypes : \A p, q \in 0 .. MaxQ :
    p <= q => BitsPerMb[ft][q] <= BitsPerMb[ft][p]

ASSUME ParameterAssumption ==
  /\ NiDamping \in Nat
  /\ RcfOne \in Nat \ {0} /\ RcfMin \in Nat /\ RcfMax \in Nat
  /\ RcfMin <= RcfOne /\ RcfOne <= RcfMax
  /\ Configs \subseteq Config
  /\ FrameSizes \subseteq Nat
  /\ MaxCalls \in Nat

VARIABLES
  phase,                      \* where the client is: "created", "idle" or "computed"
  calls,                      \* API calls made so far (bounded by MaxCalls)
  fault,                      \* "none", or what ended the process
  oxcf,                       \* the configuration derived from the public one
  cq_level,                   \* constrained-quality level, an index of QTrans
  initial_size,               \* <<initial_width, initial_height>>
  frame_type, base_qindex,
  active_worst_quality, active_best_quality,
  this_frame_target, projected_frame_size,
  bits_off_target, buffer_level, total_byte_count,
  kf_overspend_bits, gf_overspend_bits, kf_bitrate_adjustment,
  rate_correction_factor,     \* by frame type
  ni_frames, ni_tot_qi, ni_av_qi, avg_frame_qindex,
  current_video_frame, frames_since_key, key_frame_count,
  prior_key_frame_distance

client == <<phase, calls, fault>>
config == <<oxcf, cq_level, initial_size>>
choice == <<frame_type, base_qindex, active_worst_quality, active_best_quality,
            this_frame_target>>
bucket == <<bits_off_target, buffer_level, total_byte_count, projected_frame_size>>
debt   == <<kf_overspend_bits, gf_overspend_bits, kf_bitrate_adjustment>>
average == <<ni_frames, ni_tot_qi, ni_av_qi, avg_frame_qindex>>
keys   == <<current_video_frame, frames_since_key, key_frame_count,
            prior_key_frame_distance>>
engine == <<config, choice, bucket, debt, rate_correction_factor, average, keys>>
vars   == <<client, engine>>

-----------------------------------------------------------------------------
(* Configuration: brc_vp8_validate and brc_vp8_update_rate_control. *)

MaxDimension == 16383

Validate(c) ==
  /\ c.rc_mode = "cbr"
  /\ c.width \in 1 .. MaxDimension /\ c.height \in 1 .. MaxDimension
  /\ c.max_quantizer <= 63
  /\ c.min_quantizer <= c.max_quantizer
  /\ c.undershoot_pct <= 1000 /\ c.overshoot_pct <= 1000
  /\ c.ss_number_layers = 1 /\ c.ts_number_layers = 1
  /\ c.max_inter_bitrate_pct = 0

Macroblocks(c) == (c.width \div 16) * (c.height \div 16)

\* Milliseconds of a buffer as bits at the target rate; an unset size is 1/8 s.
BufferBits(ms, bandwidth) == (ms * bandwidth) \div 1000
BufferBitsOrDefault(ms, bandwidth) ==
  IF ms = 0 THEN bandwidth \div 8 ELSE BufferBits(ms, bandwidth)

\* The derived configuration; a frame rate under 0.1 means 30.
Derived(c) ==
  LET bandwidth == 1000 * c.target_bandwidth IN
  [worst_quality |-> QTrans[c.max_quantizer],
   best_quality  |-> QTrans[c.min_quantizer],
   target_bandwidth |-> bandwidth,
   framerate |-> IF c.framerate = 0 THEN 30 ELSE c.framerate,
   starting_buffer_level |-> BufferBits(c.buf_initial_sz, bandwidth),
   optimal_buffer_level  |-> BufferBitsOrDefault(c.buf_optimal_sz, bandwidth),
   maximum_buffer_size   |-> BufferBitsOrDefault(c.buf_sz, bandwidth),
   under_shoot_pct |-> c.undershoot_pct,
   over_shoot_pct  |-> c.overshoot_pct,
   MBs |-> Macroblocks(c)]

per_frame_bandwidth == oxcf.target_bandwidth \div oxcf.framerate
buffered_mode == oxcf.optimal_buffer_level > 0

\* One index outside q_trans is enough for the update to read past the table.
ReadsInTable(c, cq) ==
  /\ c.max_quantizer \in DOMAIN QTrans
  /\ c.min_quantizer \in DOMAIN QTrans
  /\ cq \in DOMAIN QTrans

FitsInitialSize(c, size) == c.width <= size[1] /\ c.height <= size[2]

\* Everything brc_vp8_update_rate_control assigns.  The overspend of past key
\* frames, their adjustment and the frame counter survive; the rest starts
\* afresh, the buffer level from the initial size whatever its clip against
\* the maximum gave before.
Install(c, cq, size) ==
  /\ oxcf' = Derived(c)
  /\ cq_level' = QTrans[cq]
  /\ initial_size' = size
  /\ frame_type' = IF current_video_frame = 0 THEN "key" ELSE frame_type
  /\ active_worst_quality' = oxcf'.worst_quality
  /\ active_best_quality' = oxcf'.best_quality
  /\ avg_frame_qindex' = oxcf'.worst_quality
  /\ ni_av_qi' = oxcf'.worst_quality
  /\ ni_tot_qi' = 0
  /\ ni_frames' = 0
  /\ buffer_level' = oxcf'.starting_buffer_level
  /\ bits_off_target' = oxcf'.starting_buffer_level
  /\ total_byte_count' = 0
  /\ frames_since_key' = 8
  /\ key_frame_count' = 1
  /\ prior_key_frame_distance' = [i \in 1 .. 5 |-> oxcf'.framerate]
  /\ rate_correction_factor' = [ft \in FrameTypes |-> RcfOne]
  /\ UNCHANGED <<base_qindex, this_frame_target, projected_frame_size, debt,
                 current_video_frame>>

\* The update runs to its end, aborts on the size assertion, or has read
\* outside the table, after which nothing is promised.
Configure(c, cq, size) ==
  \/ /\ ReadsInTable(c, cq) /\ FitsInitialSize(c, size)
     /\ fault' = fault
     /\ Install(c, cq, size)
  \/ /\ ReadsInTable(c, cq) /\ ~FitsInitialSize(c, size)
     /\ fault' = "assertion"
     /\ UNCHANGED engine
  \/ /\ ~ReadsInTable(c, cq)
     /\ fault' = "out_of_bounds"
     /\ UNCHANGED engine

-----------------------------------------------------------------------------
(* Frame targets: calc_iframe_target_size and calc_pframe_target_size. *)

\* The boost of a key frame over the average frame, in sixteenths.
KeyBoost ==
  LET fps     == oxcf.framerate
      initial == Greatest(32, 2 * fps - 16)
      byQ     == (initial * KfBoostQAdjustment[avg_frame_qindex]) \div 100
      spaced  == IF 2 * frames_since_key < fps
                 THEN (2 * byQ * frames_since_key) \div fps ELSE byQ
  IN  Greatest(16, spaced)

\* The limit on key frames, in percent of the average frame; 0 is no limit.
\* Nothing assigns it: no update copies max_intra_bitrate_pct into it.
rc_max_intra_bitrate_pct == 0

KeyTarget ==
  LET target == IF current_video_frame = 0
                THEN Least(oxcf.starting_buffer_level \div 2,
                           (oxcf.target_bandwidth * 3) \div 2)
                ELSE ((16 + KeyBoost) * per_frame_bandwidth) \div 16
  IN  IF rc_max_intra_bitrate_pct = 0 THEN target
      ELSE Least(target, (per_frame_bandwidth * rc_max_intra_bitrate_pct) \div 100)

MinFrameTarget == per_frame_bandwidth \div 4

\* Bits this inter frame gives back for what past key frames overspent.
KfRecovery ==
  IF kf_overspend_bits > 0
  THEN Least(Least(kf_bitrate_adjustment, kf_overspend_bits),
             per_frame_bandwidth - MinFrameTarget)
  ELSE 0

\* Nothing assigns it: it keeps the zero brc_vp8_rate_control_init clears it to.
non_gf_bitrate_adjustment == 0

GfRecovery(target) ==
  IF gf_overspend_bits > 0 /\ target > MinFrameTarget
  THEN Least(Least(non_gf_bitrate_adjustment, gf_overspend_bits),
             target - MinFrameTarget)
  ELSE 0

BaseTarget ==
  LET target == per_frame_bandwidth - KfRecovery
  IN  Greatest(MinFrameTarget, target - GfRecovery(target))

\* A percentage limited to 0 .. limit, in the order of the code's two tests.
Percentage(p, limit) == IF p > limit THEN limit ELSE Greatest(0, p)

OnePercentBits == 1 + oxcf.optimal_buffer_level \div 100

BelowOptimal(level, bits) ==
  level < oxcf.optimal_buffer_level \/ bits < oxcf.optimal_buffer_level

\* Mutant of PercentLow: the reduction is not limited to under_shoot_pct.
PercentLowUnlimited(level, bits) ==
  IF level < oxcf.optimal_buffer_level
  THEN (oxcf.optimal_buffer_level - level) \div OnePercentBits ELSE 0

PercentLow(level, bits) ==
  Percentage(
    IF level < oxcf.optimal_buffer_level
    THEN (oxcf.optimal_buffer_level - level) \div OnePercentBits
    ELSE IF bits < 0 THEN (100 * (-bits)) \div (total_byte_count * 8) ELSE 0,
    oxcf.under_shoot_pct)

PercentHigh(level, bits) ==
  Percentage(
    IF level > oxcf.optimal_buffer_level
    THEN (level - oxcf.optimal_buffer_level) \div OnePercentBits
    ELSE IF bits > oxcf.optimal_buffer_level
         THEN (100 * bits) \div (total_byte_count * 8) ELSE 0,
    oxcf.over_shoot_pct)

\* The inter frame target for a buffer level and the bits off target.
InterTarget(level, bits) ==
  IF ~buffered_mode THEN BaseTarget
  ELSE IF BelowOptimal(level, bits)
       THEN BaseTarget - Quotient(BaseTarget * PercentLow(level, bits), 200)
       ELSE BaseTarget + Quotient(BaseTarget * PercentHigh(level, bits), 200)

Target(ft) ==
  IF ft = "key" THEN KeyTarget ELSE InterTarget(buffer_level, bits_off_target)

-----------------------------------------------------------------------------
(* The range of indices: libvpx_vp8_pick_frame_size, then brc_vp8_compute_qp. *)

\* Mutant of SteeredWorst: the distance is measured from an empty buffer
\* instead of a quarter of the optimal level.
SteeredWorstFromEmpty(level, bits) ==
  LET critical == Least(level, bits)
  IN  IF ~BelowOptimal(level, bits) THEN ni_av_qi
      ELSE IF critical > oxcf.optimal_buffer_level \div 4
           THEN oxcf.worst_quality
                - Quotient((oxcf.worst_quality - ni_av_qi) * critical,
                           (oxcf.optimal_buffer_level * 3) \div 4)
           ELSE oxcf.worst_quality

\* The worst index for a buffer level, once enough inter frames were averaged:
\* from ni_av_qi at the optimal level to the worst quality at a quarter of it.
SteeredWorst(level, bits) ==
  LET critical == Least(level, bits)
      quarter  == oxcf.optimal_buffer_level \div 4
  IN  IF ~BelowOptimal(level, bits) THEN ni_av_qi
      ELSE IF critical > quarter
           THEN oxcf.worst_quality
                - Quotient((oxcf.worst_quality - ni_av_qi) * (critical - quarter),
                           (oxcf.optimal_buffer_level * 3) \div 4)
           ELSE oxcf.worst_quality

InterWorst(level, bits) ==
  IF ~buffered_mode THEN oxcf.worst_quality
  ELSE LET worst == IF ni_frames > NiDamping
                    THEN SteeredWorst(level, bits) ELSE oxcf.worst_quality
       IN  Least(MaxQ, Greatest(worst, oxcf.best_quality + 1))

PickedWorst(ft) ==
  IF ft = "key" THEN oxcf.worst_quality
  ELSE InterWorst(buffer_level, bits_off_target)

PickedBest(ft) ==
  IF ft = "inter" /\ buffered_mode THEN oxcf.best_quality ELSE active_best_quality

\* How far a full buffer lowers the worst index: in steps between the optimal
\* level and the maximum, a quarter of the index from the maximum on.
FullnessAdjustment(worst) ==
  LET quarter == worst \div 4
      step    == (oxcf.maximum_buffer_size - oxcf.optimal_buffer_level) \div quarter
  IN  IF buffer_level >= oxcf.maximum_buffer_size THEN quarter
      ELSE IF step = 0 THEN 0
      ELSE (buffer_level - oxcf.optimal_buffer_level) \div step

RelievedWorst(worst, best) ==
  IF buffer_level >= oxcf.optimal_buffer_level /\ buffered_mode /\ worst \div 4 > 0
  THEN Greatest(best, worst - FullnessAdjustment(worst))
  ELSE worst

\* The best index follows the worst one through MinQ, and the fullness of the
\* buffer brings it down to the configured best quality.
AdaptedBest(ft, worst, best) ==
  IF ni_frames <= NiDamping THEN best
  ELSE IF buffer_level >= oxcf.maximum_buffer_size THEN oxcf.best_quality
  ELSE IF buffer_level > oxcf.optimal_buffer_level
       THEN MinQ[ft][worst]
            - Quotient((MinQ[ft][worst] - oxcf.best_quality)
                       * (((buffer_level - oxcf.optimal_buffer_level) * 128)
                          \div (oxcf.maximum_buffer_size - oxcf.optimal_buffer_level)),
                       128)
       ELSE MinQ[ft][worst]

\* Mutant of ActiveBest: the best index is not clipped to the configured one.
ActiveBestUnclipped(ft) ==
  AdaptedBest(ft, RelievedWorst(PickedWorst(ft), PickedBest(ft)), PickedBest(ft))

\* The range regulate_q searches, after the clips to the configured limits.
ActiveBest(ft) ==
  LET worst == RelievedWorst(PickedWorst(ft), PickedBest(ft))
  IN  Greatest(oxcf.best_quality, AdaptedBest(ft, worst, PickedBest(ft)))

\* Mutant of ActiveWorst: the worst index is not clipped to the configured one.
ActiveWorstUnclipped(ft) ==
  Greatest(ActiveBest(ft), RelievedWorst(PickedWorst(ft), PickedBest(ft)))

ActiveWorst(ft) ==
  Greatest(ActiveBest(ft),
           Least(oxcf.worst_quality, RelievedWorst(PickedWorst(ft), PickedBest(ft))))

-----------------------------------------------------------------------------
(* The quantizer: libvpx_vp8_regulate_q. *)

BitsAt(ft, q, rcf) == (rcf * BitsPerMb[ft][q] + RcfOne \div 2) \div RcfOne

TargetPerMb(target) ==
  IF target >= IntMax \div 512
  THEN Quotient(target, oxcf.MBs) * 512
  ELSE Quotient(target * 512, oxcf.MBs)

\* Mutant of RegulateQ: the search stops at the first index that fits.
RegulateQFirst(ft, target, best, worst, rcf) ==
  LET fits == {q \in best .. worst : BitsAt(ft, q, rcf) <= target}
  IN  IF fits = {} THEN worst ELSE CHOOSE q \in fits : \A p \in fits : q <= p

\* The first index of best .. worst whose frame fits the target, or the one
\* before it when that misses the target by less; worst when none fits.
RegulateQ(ft, target, best, worst, rcf) ==
  LET fits  == {q \in best .. worst : BitsAt(ft, q, rcf) <= target}
      first == CHOOSE q \in fits : \A p \in fits : q <= p
  IN  IF fits = {} THEN worst
      ELSE IF first = best THEN first
      ELSE IF target - BitsAt(ft, first, rcf) <= BitsAt(ft, first - 1, rcf) - target
           THEN first ELSE first - 1

-----------------------------------------------------------------------------
(* Relaxing the worst index after an overshoot, in brc_vp8_compute_qp. *)

OvershootLimit(ft, target) ==
  LET eighths ==
        IF ft = "key" THEN 9
        ELSE IF buffer_level >= (oxcf.optimal_buffer_level + oxcf.maximum_buffer_size) \div 2
             THEN 12
        ELSE IF buffer_level <= oxcf.optimal_buffer_level \div 2 THEN 10
        ELSE 11
      limit == Least(IntMax, Quotient(target * eighths, 8) + 200)
  IN  IF limit = 0 THEN 1 ELSE limit

\* Steps until a percentage losing 4% each step reaches zero.
RelaxSteps[percent \in Nat] ==
  IF percent = 0 THEN 0 ELSE 1 + RelaxSteps[(percent * 96) \div 100]

\* Mutant of RelaxedWorst: the relaxation goes on past the configured quality.
RelaxedWorstUnbounded(q, worst, limit) ==
  LET percent == ((projected_frame_size - limit) * 100) \div limit
  IN  IF /\ q = worst /\ worst < oxcf.worst_quality
         /\ projected_frame_size > limit
         /\ limit > 0 /\ percent > 0
      THEN worst + RelaxSteps[percent]
      ELSE worst

RelaxedWorst(q, worst, limit) ==
  LET percent == ((projected_frame_size - limit) * 100) \div limit
      room    == oxcf.worst_quality - worst
  IN  IF /\ q = worst /\ room > 0
         /\ projected_frame_size > limit
         /\ limit > 0 /\ percent > 0
      THEN IF RelaxSteps[percent] \in 1 .. room
           THEN worst + RelaxSteps[percent] ELSE oxcf.worst_quality
      ELSE worst

-----------------------------------------------------------------------------
(* After the frame: libvpx_vp8_rc_postencode_update and what it calls. *)

ExpectedBits ==
  ((RcfOne \div 2 + rate_correction_factor[frame_type] * BitsPerMb[frame_type][base_qindex])
   * oxcf.MBs) \div (512 * RcfOne)

\* The correction factor moves a quarter of the way to actual / expected size.
CorrectedRcf(bits) ==
  LET rcf    == rate_correction_factor[frame_type]
      actual == IF ExpectedBits > 0 THEN (100 * bits) \div ExpectedBits ELSE 100
  IN  IF actual > 102
      THEN Least(RcfMax, (rcf * (100 + (actual - 98) \div 4)) \div 100)
      ELSE IF actual < 99
      THEN Greatest(RcfMin, (rcf * ((302 + actual) \div 4)) \div 100)
      ELSE rcf

LastKeyInterval == IF frames_since_key > 0 THEN frames_since_key ELSE 1

\* prior_key_frame_distance after estimate_keyframe_frequency.
KeyDistances ==
  IF key_frame_count = 1
  THEN [prior_key_frame_distance EXCEPT ![5] = Least(30, 1 + 2 * oxcf.framerate)]
  ELSE [i \in 1 .. 5 |-> IF i < 5 THEN prior_key_frame_distance[i + 1]
                         ELSE LastKeyInterval]

\* Frames between key frames: a default, then an average weighted 1 .. 5.
KeyFrameFrequency ==
  LET d == KeyDistances
  IN  IF key_frame_count = 1 THEN d[5]
      ELSE Greatest(1, (d[1] + 2 * d[2] + 3 * d[3] + 4 * d[4] + 5 * d[5]) \div 15)

\* A key frame larger than the average frame leaves a debt, seven eighths of
\* it to the inter frames and one eighth to golden frames.
AdjustKeyFrameContext(bits) ==
  LET overspend == bits - per_frame_bandwidth IN
  /\ IF overspend > 0
     THEN /\ kf_overspend_bits' = kf_overspend_bits + (overspend * 7) \div 8
          /\ gf_overspend_bits' = gf_overspend_bits + overspend \div 8
          /\ kf_bitrate_adjustment' = kf_overspend_bits' \div KeyFrameFrequency
          /\ prior_key_frame_distance' = KeyDistances
     ELSE UNCHANGED <<debt, prior_key_frame_distance>>
  /\ key_frame_count' = key_frame_count + 1
  /\ frames_since_key' = 1      \* reset, then counted with this frame

\* Mutant of AverageQ: the average follows the last index down in every case.
AverageQAlwaysBelow(frames, total) == base_qindex - 1

\* Mutant of AverageQ: the damped average is not halved.
AverageQUnhalved(frames, total) ==
  IF frames > NiDamping THEN total \div frames
  ELSE total \div frames + oxcf.worst_quality + 1

\* The average index of inter frames, damped by the worst quality at first,
\* and kept within one of the last index.
AverageQ(frames, total) ==
  LET mean == IF frames > NiDamping THEN total \div frames
              ELSE (total \div frames + oxcf.worst_quality + 1) \div 2
  IN  IF base_qindex > mean THEN base_qindex - 1 ELSE mean

AverageInterFrame ==
  /\ avg_frame_qindex' = (2 + 3 * avg_frame_qindex + base_qindex) \div 4
  /\ ni_frames' = ni_frames + 1
  /\ ni_tot_qi' = ni_tot_qi + base_qindex
  /\ ni_av_qi' = AverageQ(ni_frames', ni_tot_qi')
  /\ frames_since_key' = frames_since_key + 1

\* Mutant of ChargeBucket: only bits_off_target is clipped.
ChargeBucketHalfClipped(bits) ==
  /\ bits_off_target' = Least(bits_off_target + per_frame_bandwidth - bits,
                              oxcf.maximum_buffer_size)
  /\ buffer_level' = bits_off_target + per_frame_bandwidth - bits

\* The bucket gains the average frame, pays the coded one and is clipped.
ChargeBucket(bits) ==
  /\ bits_off_target' = Least(bits_off_target + per_frame_bandwidth - bits,
                              oxcf.maximum_buffer_size)
  /\ buffer_level' = bits_off_target'

-----------------------------------------------------------------------------
(* The operations. *)

Running == fault = "none" /\ calls < MaxCalls

Init ==
  /\ phase = "created" /\ calls = 0 /\ fault = "none"
  /\ oxcf = [worst_quality |-> 0, best_quality |-> 0, target_bandwidth |-> 0,
             framerate |-> 30, starting_buffer_level |-> 0,
             optimal_buffer_level |-> 0, maximum_buffer_size |-> 0,
             under_shoot_pct |-> 0, over_shoot_pct |-> 0, MBs |-> 0]
  /\ cq_level = 10 /\ initial_size = <<0, 0>>
  /\ frame_type = "key" /\ base_qindex = 0
  /\ active_worst_quality = 0 /\ active_best_quality = 0
  /\ this_frame_target = 0 /\ projected_frame_size = 0
  /\ bits_off_target = 0 /\ buffer_level = 0 /\ total_byte_count = 0
  /\ kf_overspend_bits = 0 /\ gf_overspend_bits = 0 /\ kf_bitrate_adjustment = 0
  /\ rate_correction_factor = [ft \in FrameTypes |-> RcfOne]
  /\ ni_frames = 0 /\ ni_tot_qi = 0 /\ ni_av_qi = 0 /\ avg_frame_qindex = 0
  /\ current_video_frame = 0 /\ frames_since_key = 0 /\ key_frame_count = 0
  /\ prior_key_frame_distance = [i \in 1 .. 5 |-> 0]

\* brc_vp8_rate_control_init: a rejected configuration creates no engine.
RateControlInit(c) ==
  /\ Running /\ phase = "created"
  /\ calls' = calls + 1
  /\ \/ /\ Validate(c)
        /\ Configure(c, 10, <<c.width, c.height>>)
        /\ phase' = IF fault' = "none" THEN "idle" ELSE phase
     \/ /\ ~Validate(c)
        /\ UNCHANGED <<phase, fault, engine>>

\* brc_vp8_update_rate_control: the configuration is not validated again.
UpdateConfig(c) ==
  /\ Running /\ phase # "created"
  /\ calls' = calls + 1 /\ phase' = phase
  /\ Configure(c, cq_level, initial_size)

\* brc_vp8_compute_qp.  Without a macroblock the division by MBs ends it.
ComputeQp(ft) ==
  /\ Running /\ phase # "created"
  /\ calls' = calls + 1
  /\ \/ /\ oxcf.MBs = 0
        /\ fault' = "division_by_zero"
        /\ UNCHANGED <<phase, engine>>
     \/ /\ oxcf.MBs > 0
        /\ phase' = "computed" /\ fault' = fault
        /\ frame_type' = ft
        /\ this_frame_target' = Target(ft)
        /\ active_best_quality' = ActiveBest(ft)
        /\ base_qindex' = RegulateQ(ft, TargetPerMb(Target(ft)), ActiveBest(ft),
                                    ActiveWorst(ft), rate_correction_factor[ft])
        /\ active_worst_quality' =
             RelaxedWorst(base_qindex', ActiveWorst(ft), OvershootLimit(ft, Target(ft)))
        /\ kf_overspend_bits' =
             IF ft = "inter" THEN kf_overspend_bits - KfRecovery ELSE kf_overspend_bits
        /\ gf_overspend_bits' =
             IF ft = "inter"
             THEN gf_overspend_bits - GfRecovery(per_frame_bandwidth - KfRecovery)
             ELSE gf_overspend_bits
        /\ UNCHANGED <<config, bucket, kf_bitrate_adjustment,
                       rate_correction_factor, average, keys>>

\* brc_vp8_post_encode_update
PostEncodeUpdate(size) ==
  /\ Running /\ phase # "created"
  /\ calls' = calls + 1 /\ phase' = "idle" /\ fault' = fault
  /\ total_byte_count' = total_byte_count + size
  /\ projected_frame_size' = 8 * size
  /\ rate_correction_factor' =
       [rate_correction_factor EXCEPT ![frame_type] = CorrectedRcf(8 * size)]
  /\ ChargeBucket(8 * size)
  /\ current_video_frame' = current_video_frame + 1
  /\ \/ /\ frame_type = "key"
        /\ AdjustKeyFrameContext(8 * size)
        /\ UNCHANGED average
     \/ /\ frame_type = "inter"
        /\ AverageInterFrame
        /\ UNCHANGED <<debt, key_frame_count, prior_key_frame_distance>>
  /\ UNCHANGED <<config, choice>>

-----------------------------------------------------------------------------
(* The documented client updates only between frames, with configurations  *)
(* init would accept, and alternates ComputeQp with PostEncodeUpdate; any  *)
(* other client calls the operations in whatever order it likes.           *)

Next ==
  \/ \E c \in Configs : RateControlInit(c)
  \/ /\ phase = "idle"
     /\ \/ \E c \in Configs : Validate(c) /\ UpdateConfig(c)
        \/ \E ft \in FrameTypes : ComputeQp(ft)
  \/ phase = "computed" /\ \E size \in FrameSizes : PostEncodeUpdate(size)

AnyNext ==
  \/ \E c \in Configs : RateControlInit(c)
  \/ \E c \in Configs : UpdateConfig(c)
  \/ \E ft \in FrameTypes : ComputeQp(ft)
  \/ \E size \in FrameSizes : PostEncodeUpdate(size)

Spec == Init /\ [][Next]_vars
AnySpec == Init /\ [][AnyNext]_vars

-----------------------------------------------------------------------------
(* Properties. *)

DerivedConfig ==
  [worst_quality : 0 .. MaxQ, best_quality : 0 .. MaxQ, target_bandwidth : Nat,
   framerate : Nat \ {0}, starting_buffer_level : Nat,
   optimal_buffer_level : Nat, maximum_buffer_size : Nat,
   under_shoot_pct : Int, over_shoot_pct : Int, MBs : Nat]

\* Every field keeps its type; every quantizer index, whatever the client
\* calls and in whatever order, is an index of the tables.
TypeOK ==
  /\ phase \in {"created", "idle", "computed"} /\ calls \in Nat
  /\ fault \in {"none", "assertion", "division_by_zero", "out_of_bounds"}
  /\ oxcf \in DerivedConfig
  /\ cq_level \in Nat /\ initial_size \in Nat \X Nat
  /\ frame_type \in FrameTypes
  /\ base_qindex \in 0 .. MaxQ
  /\ active_worst_quality \in 0 .. MaxQ /\ active_best_quality \in 0 .. MaxQ
  /\ this_frame_target \in Int /\ projected_frame_size \in Nat
  /\ bits_off_target \in Int /\ buffer_level \in Int /\ total_byte_count \in Nat
  /\ kf_overspend_bits \in Nat /\ gf_overspend_bits \in Nat
  /\ kf_bitrate_adjustment \in Nat
  /\ rate_correction_factor \in [FrameTypes -> RcfMin .. RcfMax]
  /\ ni_frames \in Nat /\ ni_tot_qi \in Nat
  /\ ni_av_qi \in 0 .. MaxQ /\ avg_frame_qindex \in 0 .. MaxQ
  /\ current_video_frame \in Nat /\ frames_since_key \in Nat
  /\ key_frame_count \in Nat
  /\ prior_key_frame_distance \in [1 .. 5 -> Nat]

\* Between calls buffer_level and bits_off_target agree.  The two branches of
\* calc_pframe_target_size that divide by the bytes coded so far are reached
\* only when they differ, so no call divides by total_byte_count = 0.
LevelsAgree == buffer_level = bits_off_target

\* The index handed to the encoder, and the range it was chosen from, respect
\* the configured quantizers: both clips, the key frame path that keeps the
\* previous best index and the relaxation after an overshoot included.
QpInRange ==
  phase = "computed" =>
    /\ base_qindex \in oxcf.best_quality .. oxcf.worst_quality
    /\ active_best_quality \in oxcf.best_quality .. active_worst_quality
    /\ active_worst_quality <= oxcf.worst_quality

\* The average that steers the worst index stays between the configured
\* qualities, damping and the step toward the last index included.
NiAverageInRange ==
  phase # "created" =>
    ni_av_qi \in oxcf.best_quality .. oxcf.worst_quality

\* Buffer levels from half an optimal level below zero to one and a half.
ProbeLevel(k) == (k * oxcf.optimal_buffer_level) \div 8

\* A fuller buffer never makes the inter frame target smaller nor its worst
\* index coarser, across the three ranges that compute them separately.  Only
\* negative percentages, which validation accepts, reverse the target.
FullerBufferSpendsMore ==
  phase # "created" =>
    \A k \in -4 .. 11 :
      LET less == ProbeLevel(k)
          more == ProbeLevel(k + 1)
      IN  /\ oxcf.under_shoot_pct >= 0 /\ oxcf.over_shoot_pct >= 0 =>
               InterTarget(less, less) <= InterTarget(more, more)
          /\ InterWorst(less, less) >= InterWorst(more, more)

\* Key frame recovery and a low buffer together leave an inter frame at least
\* an eighth of the average frame, for undershoot_pct in its documented range
\* and an overshoot_pct that is not negative.
InterTargetFloor ==
  phase = "computed" /\ frame_type = "inter"
  /\ oxcf.under_shoot_pct \in 0 .. 100 /\ oxcf.over_shoot_pct >= 0
    => 2 * this_frame_target >= MinFrameTarget

\* The index regulate_q stops at misses the target by no more than any other
\* index of the active range, though it looks at two neighbours only.
NearestQ ==
  [][ \A ft \in FrameTypes : ComputeQp(ft) /\ oxcf.MBs > 0 =>
        LET target == TargetPerMb(Target(ft))
            rcf    == rate_correction_factor[ft]
        IN  \A q \in ActiveBest(ft) .. ActiveWorst(ft) :
              Distance(BitsAt(ft, base_qindex', rcf), target)
                <= Distance(BitsAt(ft, q, rcf), target) ]_vars

\* What the comment at libvpx_vp8_ratectrl.c:1054 says of the golden frame
\* share of a key frame's overspend, stated for the frames that could pay it:
\* it shrinks with an inter frame whose target is above the minimum.
GoldenOverspendRecovered ==
  [][ ComputeQp("inter") /\ oxcf.MBs > 0 /\ gf_overspend_bits > 0
      /\ per_frame_bandwidth - KfRecovery > MinFrameTarget
        => gf_overspend_bits' < gf_overspend_bits ]_vars

\* What the comment at libvpx_vp8_rtc.c:323 says of a configuration change:
\* the buffer level stays within the maximum buffer size.
BufferWithinMaximum ==
  phase # "created" => buffer_level <= oxcf.maximum_buffer_size

\* The documented loop may update before every frame, so no number of updates
\* reads outside the quantizer table.
NoReadOutsideTable == fault # "out_of_bounds"

Engine == INSTANCE BrcEngine WITH
  Quantizers <- 0 .. MaxQ,
  status <- IF fault # "none" THEN "stopped"
            ELSE IF phase = "created" THEN "none"
            ELSE IF phase = "idle" THEN "ready" ELSE "computed",
  range  <- <<oxcf.best_quality, oxcf.worst_quality>>,
  qp     <- base_qindex

\* For the documented client this engine is one of those BrcEngine specifies:
\* the index of every frame lies in the range configured last, across key
\* frames, overshoots, averages and configuration changes, and the engine
\* stops only between frames.
EngineContract == Engine!Spec

=============================================================================
