--------------------------- MODULE Vp9RateControl ---------------------------
(***************************************************************************)
(* The VP9 constant-bitrate controller (src/brc/vp9/libvpx_derived), with  *)
(* one layer or with spatial and temporal layers.  With layers, the rate   *)
(* control state of a layer is copied into rc when ComputeQp starts its    *)
(* frame and back into its layer context when PostEncodeUpdate ends it,    *)
(* while the buckets of the temporal layers above it move along.           *)
(*                                                                         *)
(* Bits, bytes and quantizer indices are the integers of the code; rate    *)
(* correction factors are in units of 1 / RcfOne, a layer's frame rate is  *)
(* the stream's divided by its decimator.  Fields nothing reads (rolling   *)
(* and total bits, ni_ averages, golden frame intervals, boosted indices,  *)
(* sb64_target_rate) are left out, and so are fields that keep the zero    *)
(* they start with: kf_boost, this_key_frame_forced, intra_only,           *)
(* rc_max_inter_bitrate_pct, superframe_has_layer_sync.                    *)
(***************************************************************************)
EXTENDS Arithmetic, FiniteSets

CONSTANTS
  MaxQ,                 (* MAXQ, the coarsest quantizer index                 *)
  QuantizerToQindex,    (* public quantizer -> quantizer index                *)
  AcQLookup,            (* index -> quantizer, in quarters                    *)
  KfMinQ,               (* average key frame index -> best index allowed      *)
  RtcMinQ,              (* average or worst index -> best index allowed       *)
  RcfOne, RcfMin, RcfMax, (* rate correction factors 1.0, 0.005 and 50        *)
  Configs,              (* configurations a client passes                     *)
  FrameSizes,           (* encoded frame sizes in bytes                       *)
  MaxFrames, MaxUpdates (* bounds: frames and updates of one behaviour        *)

FrameTypes == {"key", "inter"}

MaxSpatialLayers  == 5      \* VPX_SS_MAX_LAYERS
MaxTemporalLayers == 5      \* VPX_TS_MAX_LAYERS
MaxLayers         == 12     \* VPX_MAX_LAYERS
MaxLoopFilter     == 63
FrameOverheadBits == 200

SpatialIds  == 0 .. MaxSpatialLayers - 1
TemporalIds == 0 .. MaxTemporalLayers - 1
LayerIds    == 0 .. MaxLayers - 1

Config == [rc_mode : {"cbr", "other"}, width : Nat, height : Nat,
           max_quantizer : Int, min_quantizer : Int,
           target_bandwidth : Nat \ {0},
           buf_initial_sz : Nat, buf_optimal_sz : Nat, buf_sz : Nat,
           undershoot_pct : Int, overshoot_pct : Int,
           max_intra_bitrate_pct : Nat, framerate : Nat,
           ss_number_layers : Nat, ts_number_layers : Nat,
           max_quantizers : [LayerIds -> Int], min_quantizers : [LayerIds -> Int],
           scaling_factor_num : [SpatialIds -> Nat],
           scaling_factor_den : [SpatialIds -> Nat],
           layer_target_bitrate : [LayerIds -> Nat],
           ts_rate_decimator : [TemporalIds -> Nat]]

\* RATE_CONTROL: the state one layer, or a stream without layers, steers by.
RateControl ==
  [worst_quality : 0 .. MaxQ, best_quality : 0 .. MaxQ,
   starting_buffer_level : Nat, optimal_buffer_level : Nat,
   maximum_buffer_size : Nat,
   bits_off_target : Int, buffer_level : Int,
   avg_frame_bandwidth : Nat, last_avg_frame_bandwidth : Nat,
   max_frame_bandwidth : Nat, this_frame_target : Int,
   rate_correction_factors : [FrameTypes -> 0 .. RcfMax],
   damped_adjustment : BOOLEAN,
   avg_frame_qindex : [FrameTypes -> 0 .. MaxQ],
   last_key_q : 0 .. MaxQ, frames_since_key : Nat,
   rc_1_frame : -1 .. 1, rc_2_frame : -1 .. 1,
   q_1_frame : 0 .. MaxQ, q_2_frame : 0 .. MaxQ]

LayerContext ==
  [rc : RateControl, target_bandwidth : Nat, decimator : Nat,
   avg_frame_size : Int, is_key_frame : BOOLEAN]

ASSUME TableAssumption ==
  /\ MaxQ \in Nat \ {0}
  /\ QuantizerToQindex \in [0 .. 63 -> 0 .. MaxQ]
  /\ \A i, j \in 0 .. 63 : i <= j => QuantizerToQindex[i] <= QuantizerToQindex[j]
  /\ AcQLookup \in [0 .. MaxQ -> Nat \ {0}]
  /\ KfMinQ \in [0 .. MaxQ -> 0 .. MaxQ]
  /\ RtcMinQ \in [0 .. MaxQ -> 0 .. MaxQ]

ASSUME ParameterAssumption ==
  /\ RcfOne \in Nat \ {0} /\ RcfMin \in Nat /\ RcfMax \in Nat
  /\ RcfMin <= RcfOne /\ RcfOne <= RcfMax
  /\ Configs \subseteq Config
  /\ FrameSizes \subseteq Nat
  /\ MaxFrames \in Nat /\ MaxUpdates \in Nat

VARIABLES
  phase,                      \* where the client is: see Phases
  updates,                    \* updates made so far (bounded by MaxUpdates)
  fault,                      \* "none", or what ended the process
  oxcf,                       \* the configuration installed last
  target_bandwidth,           \* oxcf->target_bandwidth, a layer's during its frame
  rc, layer_context,
  spatial_layer_id, temporal_layer_id,
  frame_type, base_qindex, MBs, width, height, current_video_frame,
  filter_level,
  coded                       \* history: layers coded since the last new configuration

client == <<phase, updates, fault>>
stream == <<oxcf, target_bandwidth, rc, layer_context>>
frame  == <<spatial_layer_id, temporal_layer_id, frame_type, base_qindex, MBs,
            width, height>>
Phases  == {"created", "idle", "computed", "filtered"}
InFrame == phase \in {"computed", "filtered"}

engine == <<stream, frame, current_video_frame, filter_level, coded>>
vars   == <<client, engine>>

-----------------------------------------------------------------------------
(* Layers. *)

Index(c, s, t) == s * c.ts_number_layers + t
Indices(c)     == 0 .. c.ss_number_layers * c.ts_number_layers - 1
SpatialOf(c, l)  == l \div c.ts_number_layers
TemporalOf(c, l) == l % c.ts_number_layers

\* use_svc, and the tests for more than one layer of either kind.
Layered(c) == c.ss_number_layers > 1 \/ c.ts_number_layers > 1

current_layer == Index(oxcf, spatial_layer_id, temporal_layer_id)

\* The temporal layers of a spatial layer that predict from temporal layer t
\* or are t itself.
FromTemporal(c, s, t) == {Index(c, s, u) : u \in t .. c.ts_number_layers - 1}

Framerate(c) == IF c.framerate = 0 THEN 30 ELSE c.framerate
Bandwidth(c) == 1000 * c.target_bandwidth

\* Bits per frame at a rate, for a layer that gets one frame in dec.
PerFrame(c, bandwidth, dec) == (bandwidth * dec) \div Framerate(c)

-----------------------------------------------------------------------------
(* Configuration: brc_vp9_validate and brc_vp9_update_rate_control. *)

MaxDimension == 65535

Validate(c) ==
  /\ c.rc_mode = "cbr"
  /\ c.width \in 1 .. MaxDimension /\ c.height \in 1 .. MaxDimension
  /\ c.max_quantizer <= 63
  /\ c.min_quantizer <= c.max_quantizer
  /\ c.undershoot_pct <= 100 /\ c.overshoot_pct <= 100
  /\ c.ss_number_layers \in 1 .. MaxSpatialLayers
  /\ c.ts_number_layers \in 1 .. MaxTemporalLayers
  /\ c.ss_number_layers * c.ts_number_layers <= MaxLayers
  /\ c.ts_number_layers > 1 =>
       /\ \A s \in 1 .. c.ss_number_layers - 1, t \in 1 .. c.ts_number_layers - 1 :
            c.layer_target_bitrate[Index(c, s, t)]
              >= c.layer_target_bitrate[Index(c, s, t) - 1]
       /\ c.ts_rate_decimator[c.ts_number_layers - 1] = 1
       /\ \A t \in 1 .. c.ts_number_layers - 2 :
            c.ts_rate_decimator[t - 1] = 2 * c.ts_rate_decimator[t]

\* The update copies the layers of the configuration in a loop bounded by
\* their number modulo the maximum: the maximum itself leaves the zeros of a
\* new engine.
LayersCopied(c) ==
  c.ss_number_layers % MaxSpatialLayers > 0 /\ c.ts_number_layers % MaxTemporalLayers > 0

Copied(c) ==
  IF LayersCopied(c) THEN c
  ELSE [c EXCEPT !.scaling_factor_num   = [s \in SpatialIds |-> 0],
                 !.scaling_factor_den   = [s \in SpatialIds |-> 0],
                 !.layer_target_bitrate = [l \in LayerIds |-> 0],
                 !.ts_rate_decimator    = [t \in TemporalIds |-> 0]]

\* Quantizers of the stream and of every copied layer index the table; those
\* of the layers are overwritten with those of the stream before any use.
ReadsInTable(c) ==
  /\ c.max_quantizer \in DOMAIN QuantizerToQindex
  /\ c.min_quantizer \in DOMAIN QuantizerToQindex
  /\ LayersCopied(c) => \A l \in Indices(c) :
       /\ c.max_quantizers[l] \in DOMAIN QuantizerToQindex
       /\ c.min_quantizers[l] \in DOMAIN QuantizerToQindex

WorstAllowed(c) == QuantizerToQindex[c.max_quantizer]
BestAllowed(c)  == QuantizerToQindex[c.min_quantizer]

BufferBits(ms, bandwidth) == Scaled(ms, bandwidth, 1000)
BufferBitsOrDefault(ms, bandwidth) ==
  IF ms = 0 THEN bandwidth \div 8 ELSE BufferBits(ms, bandwidth)

StartingLevel(c) == BufferBits(c.buf_initial_sz, Bandwidth(c))
OptimalLevel(c)  == BufferBitsOrDefault(c.buf_optimal_sz, Bandwidth(c))
MaximumSize(c)   == BufferBitsOrDefault(c.buf_sz, Bandwidth(c))

LayerBandwidth(c, l) == 1000 * c.layer_target_bitrate[l]

\* A layer's share of a buffer of the stream.
Allocated(c, l, size) == Scaled(size, LayerBandwidth(c, l), Bandwidth(c))

\* brc_libvpx_vp9_set_rc_buffer_sizes
Resized(r, starting, optimal, maximum) ==
  [r EXCEPT !.starting_buffer_level = starting,
            !.optimal_buffer_level  = optimal,
            !.maximum_buffer_size   = maximum,
            !.bits_off_target       = Least(@, maximum),
            !.buffer_level          = Least(@, maximum)]

\* brc_libvpx_vp9_new_framerate
MaxMbRate    == 250
Maxrate1080P == 4000000
Retimed(r, c) ==
  LET average == Bandwidth(c) \div Framerate(c) IN
  [r EXCEPT !.avg_frame_bandwidth = average,
            !.max_frame_bandwidth =
               Greatest(Greatest(((c.width * c.height) \div 256) * MaxMbRate, Maxrate1080P),
                        20 * average)]

\* The stream's own rate control state after an update.
StreamRc(r, c) ==
  Retimed(Resized([r EXCEPT !.worst_quality = WorstAllowed(c),
                            !.best_quality  = BestAllowed(c)],
                  StartingLevel(c), OptimalLevel(c), MaximumSize(c)), c)

Level(r, bits) == [r EXCEPT !.bits_off_target = bits, !.buffer_level = bits]

\* vp9_init_layer_context, for one layer.
InitialContext(lc, c, l) ==
  [lc EXCEPT !.target_bandwidth = LayerBandwidth(c, l),
             !.rc = Level([@ EXCEPT
                !.rate_correction_factors = [ft \in FrameTypes |-> RcfOne],
                !.avg_frame_qindex = [ft \in FrameTypes |-> WorstAllowed(c)]],
                BufferBits(c.buf_initial_sz, LayerBandwidth(c, l)))]

\* Mutant of ReconfiguredContext: the layer gets the buffers of the stream.
ReconfiguredContextWhole(lc, c, l, r) ==
  [lc EXCEPT
     !.target_bandwidth = LayerBandwidth(c, l),
     !.decimator = 1,
     !.rc = [Resized(@, r.starting_buffer_level, r.optimal_buffer_level,
                        r.maximum_buffer_size) EXCEPT
               !.avg_frame_bandwidth = PerFrame(c, LayerBandwidth(c, l), 1),
               !.max_frame_bandwidth = r.max_frame_bandwidth,
               !.worst_quality = r.worst_quality,
               !.best_quality  = r.best_quality]]

\* vp9_update_layer_context_change_config, for one layer: without temporal
\* layers the decimator counts only once a frame starts.
ReconfiguredContext(lc, c, l, r) ==
  LET dec == IF c.ts_number_layers > 1 THEN c.ts_rate_decimator[TemporalOf(c, l)] ELSE 1
  IN  [lc EXCEPT
        !.target_bandwidth = LayerBandwidth(c, l),
        !.decimator = dec,
        !.rc = [Resized(@, Allocated(c, l, r.starting_buffer_level),
                           Allocated(c, l, r.optimal_buffer_level),
                           Allocated(c, l, r.maximum_buffer_size)) EXCEPT
                  !.avg_frame_bandwidth = PerFrame(c, LayerBandwidth(c, l), dec),
                  !.max_frame_bandwidth = r.max_frame_bandwidth,
                  !.worst_quality = r.worst_quality,
                  !.best_quality  = r.best_quality]]

\* An average frame half as large again as the one of the frame coded last, or
\* less than half of it.
RateJumped(r) ==
  \/ r.avg_frame_bandwidth > (3 * r.last_avg_frame_bandwidth) \div 2
  \/ r.avg_frame_bandwidth < r.last_avg_frame_bandwidth \div 2

ResetRc(r) == [Level(r, r.optimal_buffer_level) EXCEPT !.rc_1_frame = 0, !.rc_2_frame = 0]

\* brc_libvpx_vp9_check_reset_rc_flag looks only after the first superframe.
ResetDue(c) == current_video_frame > c.ss_number_layers

\* vp9_svc_check_reset_layer_rc_flag: the highest temporal layer of a spatial
\* layer decides for all of them.
ResetContexts(lcs, c) ==
  LET top(s) == Index(c, s, c.ts_number_layers - 1)
      jumped == {s \in 0 .. c.ss_number_layers - 1 : RateJumped(lcs[top(s)].rc)}
  IN  [l \in DOMAIN lcs |->
         IF SpatialOf(c, l) \in jumped THEN [lcs[l] EXCEPT !.rc = ResetRc(@)] ELSE lcs[l]]

\* The layer contexts after an update.
UpdatedContexts(c, r) ==
  LET started == IF current_video_frame = 0
                 THEN [l \in Indices(c) |-> InitialContext(layer_context[l], c, l)]
                 ELSE layer_context
      sized   == [l \in Indices(c) |-> ReconfiguredContext(started[l], c, l, r)]
  IN  IF ResetDue(c) THEN ResetContexts(sized, c) ELSE sized

\* Everything brc_vp9_update_rate_control assigns.
Install(c) ==
  LET r == StreamRc(rc, c) IN
  /\ oxcf' = c
  /\ target_bandwidth' = Bandwidth(c)
  /\ rc' = IF ~Layered(c) /\ ResetDue(c) /\ RateJumped(r) THEN ResetRc(r) ELSE r
  /\ layer_context' = IF Layered(c) THEN UpdatedContexts(c, r) ELSE layer_context
  /\ width' = c.width /\ height' = c.height
  /\ MBs' = (c.width * c.height) \div 256

\* A new engine is cleared, updated and, without layers, started by
\* brc_libvpx_vp9_rc_init from its initial level, whatever the update's clip
\* gave; with layers the first frame brings its layer's state instead.
BlankRc ==
  [worst_quality |-> 0, best_quality |-> 0, starting_buffer_level |-> 0,
   optimal_buffer_level |-> 0, maximum_buffer_size |-> 0,
   bits_off_target |-> 0, buffer_level |-> 0,
   avg_frame_bandwidth |-> 0, last_avg_frame_bandwidth |-> 0,
   max_frame_bandwidth |-> 0, this_frame_target |-> 0,
   rate_correction_factors |-> [ft \in FrameTypes |-> 0],
   damped_adjustment |-> FALSE, avg_frame_qindex |-> [ft \in FrameTypes |-> 0],
   last_key_q |-> 0, frames_since_key |-> 0, rc_1_frame |-> 0, rc_2_frame |-> 0,
   q_1_frame |-> 0, q_2_frame |-> 0]

BlankContext ==
  [rc |-> BlankRc, target_bandwidth |-> 0, decimator |-> 0, avg_frame_size |-> 0,
   is_key_frame |-> FALSE]

\* brc_libvpx_vp9_rc_init
StartedRc(r, c) ==
  [Level(r, r.starting_buffer_level) EXCEPT
     !.avg_frame_qindex = [ft \in FrameTypes |-> WorstAllowed(c)],
     !.last_key_q = BestAllowed(c),
     !.rate_correction_factors = [ft \in FrameTypes |-> RcfOne],
     !.damped_adjustment = FALSE,
     !.frames_since_key = 8,
     !.rc_1_frame = 0, !.rc_2_frame = 0]

-----------------------------------------------------------------------------
(* Frame targets. *)

\* brc_libvpx_vp9_calc_pframe_target_size_one_pass_cbr, for a frame of average
\* size: the percentage of the optimal level the bucket is away from it,
\* within the configured limits, is taken off or added in half.
InterTarget(c, r, size) ==
  LET diff == r.optimal_buffer_level - r.buffer_level
      one_pct_bits == 1 + r.optimal_buffer_level \div 100
      target ==
        IF diff > 0
        THEN size - Quotient(size * Least(diff \div one_pct_bits, c.undershoot_pct), 200)
        ELSE IF diff < 0
        THEN size + Quotient(size * Least((-diff) \div one_pct_bits, c.overshoot_pct), 200)
        ELSE size
  IN  Greatest(Greatest(size \div 16, FrameOverheadBits), target)

\* brc_libvpx_vp9_calc_iframe_target_size_one_pass_cbr, for a frame rate of
\* Framerate(c) / dec.
KeyTarget(c, r, dec) ==
  LET fps      == Framerate(c)
      boost    == Greatest(32, (2 * fps) \div dec - 16)
      kf_boost == IF 2 * r.frames_since_key * dec < fps
                  THEN (2 * boost * r.frames_since_key * dec) \div fps ELSE boost
      target   == IF current_video_frame = 0 THEN r.starting_buffer_level \div 2
                  ELSE ((16 + kf_boost) * r.avg_frame_bandwidth) \div 16
      capped   == IF c.max_intra_bitrate_pct > 0
                  THEN Least(target, (r.avg_frame_bandwidth * c.max_intra_bitrate_pct) \div 100)
                  ELSE target
  IN  Least(capped, r.max_frame_bandwidth)

-----------------------------------------------------------------------------
(* The quantizer of a frame. *)

\* enumerator / q, in units of 1 / 512 bit per macroblock; q is AcQLookup / 4.
BitsPerMb ==
  [ft \in FrameTypes |-> [q \in 0 .. MaxQ |->
     LET enumerator == IF ft = "key" THEN 2700000 ELSE 1800000
         adjusted   == enumerator + ((enumerator \div 4) * AcQLookup[q]) \div 4096
     IN  (4 * adjusted) \div AcQLookup[q]]]

\* vp9_rc_bits_per_mb, and vp9_estimate_bits_at_q for a whole frame.
BitsAt(ft, q, rcf) == Scaled(BitsPerMb[ft][q], rcf, RcfOne)
EstimatedBits(ft, q, mbs, rcf) ==
  Greatest(FrameOverheadBits, Scaled(BitsAt(ft, q, rcf), mbs, 512))

\* get_rate_correction_factor
CorrectionFactor(r, ft) == Clamp(r.rate_correction_factors[ft], RcfMin, RcfMax)

\* What a bucket above its optimal level takes off the worst index, in steps
\* up to a third of the index at the maximum.
Relief(r, worst) ==
  LET third == worst \div 3
      step  == Quotient(r.maximum_buffer_size - r.optimal_buffer_level, third)
  IN  IF third = 0 \/ step = 0 THEN 0
      ELSE Quotient(r.buffer_level - r.optimal_buffer_level, step)

\* calc_active_worst_quality_one_pass_cbr.  base is the context of the base
\* spatial layer's same temporal layer, when that frame was a key frame.
ActiveWorst(ft, r, base) ==
  LET averages == IF current_video_frame < 5
                  THEN Least(r.avg_frame_qindex["inter"], r.avg_frame_qindex["key"])
                  ELSE r.avg_frame_qindex["inter"]
      ambient  == IF base = {} THEN averages
                  ELSE Least(averages, (CHOOSE b \in base : TRUE).rc.last_key_q)
      above    == IF base = {} THEN (5 * ambient) \div 4 ELSE (9 * ambient) \div 8
      worst    == Least(r.worst_quality, above)
      critical == r.optimal_buffer_level \div 8
  IN  IF ft = "key" THEN r.worst_quality
      ELSE IF r.buffer_level > r.optimal_buffer_level THEN worst - Relief(r, worst)
      ELSE IF r.buffer_level <= critical THEN r.worst_quality
      ELSE IF critical = 0 THEN worst
      ELSE ambient + Quotient((r.worst_quality - ambient)
                              * (r.optimal_buffer_level - r.buffer_level),
                              r.optimal_buffer_level - critical)

\* The first index from best below worst whose quantizer reaches step.
IndexReaching(r, step) ==
  LET reaching == {q \in r.best_quality .. r.worst_quality - 1 : AcQLookup[q] >= step}
  IN  IF reaching # {} THEN CHOOSE q \in reaching : \A p \in reaching : q <= p
      ELSE IF r.best_quality < r.worst_quality THEN r.worst_quality - 1
      ELSE r.worst_quality

\* Three quarters of the quantizer of an index, on a frame of at most 352x288;
\* vp9_compute_qdelta rounds both quantizers to indices.
KeyBest(r, size) ==
  LET best  == KfMinQ[r.avg_frame_qindex["key"]]
      step  == AcQLookup[best]
      lower == (3 * step + 3) \div 4
  IN  IF current_video_frame = 0 THEN r.best_quality
      ELSE IF size[1] * size[2] <= 352 * 288
      THEN best + IndexReaching(r, lower) - IndexReaching(r, step)
      ELSE best

InterBest(r, worst) ==
  LET recent == IF current_video_frame > 1 THEN "inter" ELSE "key"
  IN  RtcMinQ[Least(r.avg_frame_qindex[recent], worst)]

\* The index of a frame after an overshoot and an undershoot, or the reverse.
Damped(r, q) ==
  LET between == Clamp(q, Least(r.q_1_frame, r.q_2_frame),
                          Greatest(r.q_1_frame, r.q_2_frame))
  IN  IF r.rc_1_frame * r.rc_2_frame = -1 /\ r.q_1_frame # r.q_2_frame
      THEN IF r.rc_1_frame = -1 /\ q > between THEN (q + between) \div 2 ELSE between
      ELSE q

\* Mutant of AdjustQ: the index is not clipped to the configured range.
AdjustQUnclipped(r, q) == Damped(r, q)

\* adjust_q_cbr: after an overshoot and an undershoot the index stays between
\* the last two, or goes half way above them after an overshoot.
AdjustQ(r, q) == Greatest(Least(Damped(r, q), r.worst_quality), r.best_quality)

\* Mutant of NearestQ: the first index that fits is never compared with the
\* one before it, and none fitting gives the best index.
NearestQOrBest(ft, target, best, worst, rcf) ==
  LET fits == {q \in best .. worst : BitsAt(ft, q, rcf) <= target}
  IN  IF fits = {} THEN best ELSE CHOOSE q \in fits : \A p \in fits : q <= p

\* The search of vp9_rc_regulate_q: the first index that fits the target per
\* macroblock, or the one before it when that misses by less.
NearestQ(ft, target, best, worst, rcf) ==
  LET fits  == {q \in best .. worst : BitsAt(ft, q, rcf) <= target}
      first == CHOOSE q \in fits : \A p \in fits : q <= p
  IN  IF fits = {} THEN worst
      ELSE IF first = best THEN first
      ELSE IF target - BitsAt(ft, first, rcf) <= BitsAt(ft, first - 1, rcf) - target
           THEN first ELSE first - 1

\* rc_pick_q_and_bounds_one_pass_cbr for a target of the whole frame.
PickQ(ft, r, base, size, mbs, target) ==
  LET limit == ActiveWorst(ft, r, base)
      best  == Clamp(IF ft = "key" THEN KeyBest(r, size) ELSE InterBest(r, limit),
                     r.best_quality, r.worst_quality)
      worst == Clamp(limit, best, r.worst_quality)
      q     == AdjustQ(r, NearestQ(ft, Scaled(target, 512, mbs), best, worst,
                                   CorrectionFactor(r, ft)))
  IN  IF q > worst /\ target < r.max_frame_bandwidth THEN worst ELSE q

-----------------------------------------------------------------------------
(* Layers around a frame. *)

\* get_layer_resolution: scaled and made even, for spatial layers only.
FrameSize(s) ==
  LET scale(x) == LET y == (x * oxcf.scaling_factor_num[s]) \div oxcf.scaling_factor_den[s]
                  IN  y + (y % 2)
  IN  IF oxcf.ss_number_layers > 1 THEN <<scale(oxcf.width), scale(oxcf.height)>>
      ELSE <<width, height>>

\* brc_libvpx_vp9_set_mb_mi: blocks of 16, of blocks of 8.
Blocks(x) == ((x + 7) \div 8 + 1) \div 2

\* vp9_update_temporal_layer_framerate.  The size of a frame above the base
\* temporal layer is what the layer adds to the one below, in bits and frames.
StartedContext(s, t) ==
  LET l    == Index(oxcf, s, t)
      lc   == layer_context[l]
      dec  == oxcf.ts_rate_decimator[t]
      lower == oxcf.ts_rate_decimator[t - 1]
      avg  == PerFrame(oxcf, lc.target_bandwidth, dec)
  IN  [lc EXCEPT
        !.decimator = dec,
        !.rc.avg_frame_bandwidth = avg,
        !.rc.max_frame_bandwidth = rc.max_frame_bandwidth,
        !.avg_frame_size =
           IF t = 0 THEN avg
           ELSE Quotient((lc.target_bandwidth - LayerBandwidth(oxcf, l - 1)) * dec * lower,
                         Framerate(oxcf) * (lower - dec))]

\* Divisions by zero, in integers (the size of the frame) or in doubles whose
\* result the code converts to int, and a size that was never computed.
Undefined(ft, s, t) ==
  \/ oxcf.ss_number_layers > 1 /\ oxcf.scaling_factor_den[s] = 0
  \/ FrameSize(s)[1] = 0 \/ FrameSize(s)[2] = 0
  \/ t > 0 /\ oxcf.ts_rate_decimator[t] = oxcf.ts_rate_decimator[t - 1]
  \/ /\ ft = "key" /\ current_video_frame > 0
     /\ oxcf.ts_number_layers > 1 /\ oxcf.ts_rate_decimator[t] = 0

\* is_key_frame of the layer whose frame starts: set on a key frame, cleared
\* on the base spatial layer, inherited from it elsewhere.
StartsKey(ft, s, t) ==
  \/ ft = "key"
  \/ /\ s > 0 \/ current_video_frame = 0
     /\ layer_context[Index(oxcf, 0, t)].is_key_frame

\* Mutant of Credited: a frame credits its own temporal layer only.
CreditedAlone(lcs, s, t) ==
  [lcs EXCEPT ![Index(oxcf, s, t)].rc =
     Level(@, Least(@.bits_off_target
                    + PerFrame(oxcf, lcs[Index(oxcf, s, t)].target_bandwidth,
                               lcs[Index(oxcf, s, t)].decimator),
                    @.maximum_buffer_size))]

\* update_buffer_level_svc_preencode: the layer and the temporal layers above
\* it gain an average frame, each of its own.
Credited(lcs, s, t) ==
  [l \in DOMAIN lcs |->
     IF l \in FromTemporal(oxcf, s, t)
     THEN [lcs[l] EXCEPT !.rc =
             Level(@, Least(@.bits_off_target
                            + PerFrame(oxcf, lcs[l].target_bandwidth, lcs[l].decimator),
                            @.maximum_buffer_size))]
     ELSE lcs[l]]

\* A stream without layers: the target is computed, then the bucket credited.
StartFrame(ft) ==
  LET target == IF ft = "key" THEN KeyTarget(oxcf, rc, 1)
                ELSE InterTarget(oxcf, rc, rc.avg_frame_bandwidth)
  IN  /\ rc' = [Level(rc, Least(rc.bits_off_target + rc.avg_frame_bandwidth,
                                rc.maximum_buffer_size))
                EXCEPT !.this_frame_target = target]
      /\ UNCHANGED <<target_bandwidth, layer_context>>

\* brc_libvpx_vp9_rc_get_svc_params after the layer's state was restored.  The
\* frames since the key frame are those of the stream.  On a later key frame
\* vp9_svc_reset_temporal_layers restores the same state once more.
StartLayerFrame(ft, s, t) ==
  LET l      == Index(oxcf, s, t)
      lc     == [StartedContext(s, t) EXCEPT !.is_key_frame = StartsKey(ft, s, t)]
      r      == [lc.rc EXCEPT !.frames_since_key = rc.frames_since_key]
      target == IF ft = "key"
                THEN KeyTarget(oxcf, r, IF oxcf.ts_number_layers > 1 THEN lc.decimator ELSE 1)
                ELSE InterTarget(oxcf, r, lc.avg_frame_size)
  IN  /\ target_bandwidth' = lc.target_bandwidth
      /\ layer_context' = Credited([layer_context EXCEPT ![l] = lc], s, t)
      /\ rc' = [Level(r, layer_context'[l].rc.bits_off_target)
                EXCEPT !.this_frame_target = target]

\* The context of the base spatial layer, for the layers above its key frame.
KeyBase(s, t) ==
  IF Layered(oxcf) /\ s > 0 /\ layer_context[Index(oxcf, 0, t)].is_key_frame
  THEN {layer_context[Index(oxcf, 0, t)]} ELSE {}

-----------------------------------------------------------------------------
(* After the frame: brc_libvpx_vp9_rc_postencode_update and what it calls. *)

\* The damping of a correction, in percent: a quarter, and a twentieth more for
\* each tenth of a decade between the projected and the coded size.
Decade == {126, 158, 200, 251, 316, 398, 501, 631, 794, 1000}
Damping(factor) == 25 + 5 * Cardinality({d \in Decade : factor >= d \/ factor * d <= 10000})

\* Coded size over estimated size, in percent.
SizePct(bits, estimate) ==
  IF estimate > FrameOverheadBits THEN (100 * bits) \div estimate ELSE 100

\* Mutant of CorrectionPct: an undershoot corrects the wrong way.
CorrectionPctUnsigned(r, pct) == 100 + (Distance(pct, 100) * Damping(pct)) \div 100

\* What multiplies the correction factor, in percent; the first frame is not
\* damped, and a frame within a percent or two changes nothing.
CorrectionPct(r, pct) ==
  LET damping == IF r.damped_adjustment THEN Damping(pct) ELSE 100
  IN  IF pct > 102 THEN 100 + ((pct - 100) * damping) \div 100
      ELSE IF pct < 99 THEN (10000 - (100 - pct) * damping) \div 100
      ELSE 100

\* Mutant of Corrected: the factor is not kept within its bounds.
CorrectedUnbounded(r, ft, bits) ==
  LET factor == CorrectionFactor(r, ft)
      pct == SizePct(bits, EstimatedBits(ft, base_qindex, MBs, factor))
  IN  [r EXCEPT !.rate_correction_factors[ft] = (factor * CorrectionPct(r, pct)) \div 100,
                !.damped_adjustment = TRUE,
                !.q_2_frame = r.q_1_frame, !.q_1_frame = base_qindex]

\* vp9_rc_update_rate_correction_factors: -1 stands for an overshoot, 1 for an
\* undershoot; a massive overshoot after an undershoot forgets the latter.
Corrected(r, ft, bits) ==
  LET factor == CorrectionFactor(r, ft)
      pct == SizePct(bits, EstimatedBits(ft, base_qindex, MBs, factor))
      now == IF pct > 110 THEN -1 ELSE IF pct < 90 THEN 1 ELSE 0
  IN  [r EXCEPT
        !.rate_correction_factors[ft] =
           Clamp((factor * CorrectionPct(r, pct)) \div 100, RcfMin, RcfMax),
        !.damped_adjustment = TRUE,
        !.q_2_frame = r.q_1_frame, !.q_1_frame = base_qindex,
        !.rc_2_frame = IF now = -1 /\ r.rc_1_frame = 1 /\ pct > 1000 THEN 0
                       ELSE r.rc_1_frame,
        !.rc_1_frame = now]

\* Moving average of the index: three quarters old, one quarter new.
Average(old, new) == (3 * old + new + 2) \div 4

\* A key frame of a layered stream more than three times too large makes the
\* average of inter frames coarser (vp9_svc_adjust_avg_frame_qindex).
KeyOvershot(bits) ==
  Layered(oxcf) /\ frame_type = "key" /\ bits > 3 * rc.avg_frame_bandwidth

AverageAfter(bits) ==
  LET average == [rc.avg_frame_qindex EXCEPT ![frame_type] = Average(@, base_qindex)]
  IN  IF KeyOvershot(bits)
      THEN [average EXCEPT !["inter"] = Greatest(@, (base_qindex + rc.worst_quality) \div 2)]
      ELSE average

Drained(r, bits) == Level(r, Least(r.bits_off_target - bits, r.maximum_buffer_size))

\* Mutant of ChargedRc: the rate the frame was coded at is not remembered.
ChargedRcForgetful(bits) ==
  [Drained(Corrected(rc, frame_type, bits), bits) EXCEPT
     !.avg_frame_qindex = AverageAfter(bits),
     !.last_key_q = IF frame_type = "key" THEN base_qindex ELSE @,
     !.frames_since_key = IF frame_type = "key" THEN 1 ELSE @ + 1]

\* rc when the frame's bits are charged.
ChargedRc(bits) ==
  [Drained(Corrected(rc, frame_type, bits), bits) EXCEPT
     !.avg_frame_qindex = AverageAfter(bits),
     !.last_key_q = IF frame_type = "key" THEN base_qindex ELSE @,
     !.frames_since_key = IF frame_type = "key" THEN 1 ELSE @ + 1,
     !.last_avg_frame_bandwidth = rc.avg_frame_bandwidth]

\* Mutant of Touched: the bits go to every other layer of the frame's time.
TouchedAcross(lc, l, bits) ==
  [lc EXCEPT !.rc = IF SpatialOf(oxcf, l) # spatial_layer_id THEN Drained(@, bits) ELSE @]

\* Mutant of Touched: only the bits reach the other layers.
TouchedByBits(lc, l, bits) ==
  [lc EXCEPT !.rc = IF l \in FromTemporal(oxcf, spatial_layer_id, temporal_layer_id)
                    THEN Drained(@, bits) ELSE @]

\* A layer that is not the frame's own: the key quality of the frame goes to
\* the temporal layers of its spatial layer, the average of inter frames after
\* an overshot key frame to those of the base spatial layer, and the bits to
\* the temporal layers above it.
Touched(lc, l, bits) ==
  LET same  == SpatialOf(oxcf, l) = spatial_layer_id
      keyed == IF frame_type = "key" /\ same
               THEN [lc.rc EXCEPT !.last_key_q = base_qindex,
                                  !.avg_frame_qindex["key"] = AverageAfter(bits)["key"]]
               ELSE lc.rc
      eased == IF KeyOvershot(bits) /\ SpatialOf(oxcf, l) = 0
               THEN [keyed EXCEPT !.avg_frame_qindex["inter"] = AverageAfter(bits)["inter"]]
               ELSE keyed
  IN  [lc EXCEPT !.rc = IF same /\ TemporalOf(oxcf, l) > temporal_layer_id
                        THEN Drained(eased, bits) ELSE eased]

\* The layer contexts after the frame, vp9_save_layer_context included.
SavedContexts(bits) ==
  [l \in DOMAIN layer_context |->
     IF l = current_layer
     THEN [layer_context[l] EXCEPT !.rc = ChargedRc(bits),
                                   !.target_bandwidth = target_bandwidth]
     ELSE Touched(layer_context[l], l, bits)]

\* brc_vp9_pick_filter_level with LPF_PICK_FROM_Q and no cyclic refresh.
FilterLevel(ft, q) ==
  LET guess == (AcQLookup[q] * 20723 + 1015158 + 131072) \div 262144
  IN  Clamp(IF ft = "key" THEN guess - 4 ELSE guess, 0, MaxLoopFilter)

-----------------------------------------------------------------------------
(* The operations. *)

Init ==
  /\ phase = "created" /\ updates = 0 /\ fault = "none"
  /\ oxcf = <<>> /\ target_bandwidth = 0 /\ rc = BlankRc /\ layer_context = <<>>
  /\ spatial_layer_id = 0 /\ temporal_layer_id = 0
  /\ frame_type = "key" /\ base_qindex = 0 /\ MBs = 0 /\ width = 0 /\ height = 0
  /\ current_video_frame = 0 /\ filter_level = 0 /\ coded = {}

\* brc_vp9_rate_control_init: a rejected configuration creates no engine.
RateControlInit(c) ==
  /\ phase = "created" /\ fault = "none"
  /\ updates' = updates
  /\ \/ /\ Validate(c) /\ ReadsInTable(c)
        /\ LET new == [l \in Indices(c) |-> BlankContext]
               started == [l \in Indices(c) |-> InitialContext(new[l], Copied(c), l)]
               r == StreamRc(BlankRc, c)
           IN  /\ rc' = StartedRc(r, c)
               /\ layer_context' =
                    IF Layered(c)
                    THEN [l \in Indices(c) |->
                            ReconfiguredContext(started[l], Copied(c), l, r)]
                    ELSE new
        /\ oxcf' = Copied(c) /\ target_bandwidth' = Bandwidth(c)
        /\ width' = c.width /\ height' = c.height
        /\ MBs' = (c.width * c.height) \div 256
        /\ phase' = "idle" /\ fault' = fault
        /\ UNCHANGED <<spatial_layer_id, temporal_layer_id, frame_type, base_qindex,
                       current_video_frame, filter_level, coded>>
     \/ /\ Validate(c) /\ ~ReadsInTable(c)
        /\ fault' = "out_of_bounds" /\ UNCHANGED <<phase, engine>>
     \/ /\ ~Validate(c)
        /\ UNCHANGED <<phase, fault, engine>>

\* brc_vp9_update_rate_control: the configuration is not validated again.
UpdateConfig(c) ==
  /\ phase # "created" /\ fault = "none"
  /\ updates < MaxUpdates /\ updates' = updates + 1
  /\ \/ /\ ReadsInTable(c)
        /\ Install(Copied(c))
        /\ coded' = IF Copied(c) = oxcf THEN coded ELSE {}
        /\ fault' = fault
        /\ UNCHANGED <<phase, spatial_layer_id, temporal_layer_id, frame_type,
                       base_qindex, current_video_frame, filter_level>>
     \/ /\ ~ReadsInTable(c)
        /\ fault' = "out_of_bounds" /\ UNCHANGED <<phase, engine>>

\* brc_vp9_compute_qp
ComputeQp(ft, s, t) ==
  /\ phase # "created" /\ fault = "none"
  /\ current_video_frame < MaxFrames /\ updates' = updates
  /\ \/ /\ ~Undefined(ft, s, t)
        /\ phase' = "computed" /\ fault' = fault
        /\ spatial_layer_id' = s /\ temporal_layer_id' = t /\ frame_type' = ft
        /\ width' = FrameSize(s)[1] /\ height' = FrameSize(s)[2]
        /\ MBs' = Blocks(width') * Blocks(height')
        /\ IF Layered(oxcf) THEN StartLayerFrame(ft, s, t) ELSE StartFrame(ft)
        /\ base_qindex' = PickQ(ft, rc', KeyBase(s, t), <<width', height'>>, MBs',
                                rc'.this_frame_target)
        /\ UNCHANGED <<oxcf, current_video_frame, filter_level, coded>>
     \/ /\ Undefined(ft, s, t)
        /\ fault' = "undefined" /\ UNCHANGED <<phase, engine>>

\* brc_vp9_get_loop_filter_level.  brc_vp9_get_qp reads base_qindex.
GetLoopFilterLevel ==
  /\ phase # "created" /\ fault = "none"
  /\ phase' = IF phase = "computed" THEN "filtered" ELSE phase
  /\ filter_level' = FilterLevel(frame_type, base_qindex)
  /\ UNCHANGED <<updates, fault, stream, frame, current_video_frame, coded>>

\* brc_vp9_post_encode_update
PostEncodeUpdate(size) ==
  /\ phase # "created" /\ fault = "none"
  /\ phase' = "idle" /\ UNCHANGED <<updates, fault>>
  /\ rc' = ChargedRc(8 * size)
  /\ layer_context' = IF Layered(oxcf) THEN SavedContexts(8 * size) ELSE layer_context
  /\ current_video_frame' = current_video_frame + 1
  /\ coded' = coded \union {current_layer}
  /\ UNCHANGED <<oxcf, target_bandwidth, frame, filter_level>>

SameLayers(c) ==
  c.ss_number_layers = oxcf.ss_number_layers /\ c.ts_number_layers = oxcf.ts_number_layers

\* The client of the documented loop (libvpx_vp9_rtc.h): it updates between
\* frames only, with configurations init would accept and as many layers as at
\* first, names layers that exist, and for every frame it computed asks for the
\* filter level and reports the size.
Next ==
  \/ \E c \in Configs : RateControlInit(c)
  \/ /\ phase = "idle"
     /\ \/ \E c \in Configs : Validate(c) /\ SameLayers(c) /\ UpdateConfig(c)
        \/ \E ft \in FrameTypes :
             \E s \in 0 .. oxcf.ss_number_layers - 1, t \in 0 .. oxcf.ts_number_layers - 1 :
               ComputeQp(ft, s, t)
  \/ phase = "computed" /\ GetLoopFilterLevel
  \/ phase = "filtered" /\ \E size \in FrameSizes : PostEncodeUpdate(size)

Spec == Init /\ [][Next]_vars

-----------------------------------------------------------------------------
(* Properties. *)

Faults == {"none", "out_of_bounds", "undefined"}

\* Every field of the stream and of every layer keeps its type: an average
\* index always indexes the tables, and a correction factor stays within its
\* bounds, whatever the sizes of the frames.
TypeOK ==
  /\ phase \in Phases /\ updates \in Nat /\ fault \in Faults
  /\ rc \in RateControl /\ target_bandwidth \in Nat
  /\ frame_type \in FrameTypes
  /\ base_qindex \in 0 .. MaxQ
  /\ MBs \in Nat /\ width \in Nat /\ height \in Nat
  /\ current_video_frame \in Nat /\ filter_level \in 0 .. MaxLoopFilter
  /\ phase # "created" =>
       /\ oxcf \in Config
       /\ layer_context \in [Indices(oxcf) -> LayerContext]
       /\ spatial_layer_id \in 0 .. oxcf.ss_number_layers - 1
       /\ temporal_layer_id \in 0 .. oxcf.ts_number_layers - 1
       /\ coded \subseteq Indices(oxcf)

\* The index of a frame lies in the range configured last, whichever layer's
\* copy of the range the frame was computed from.
QpInRange ==
  InFrame => base_qindex \in BestAllowed(oxcf) .. WorstAllowed(oxcf)

\* What libmebo.h:344-352 says of max_quantizers and min_quantizers: the worst
\* and best quality quantizer of each layer.
LayerQpInRange ==
  InFrame /\ Layered(oxcf) =>
    base_qindex \in QuantizerToQindex[oxcf.min_quantizers[current_layer]]
                    .. QuantizerToQindex[oxcf.max_quantizers[current_layer]]

\* The buffer sizes of a layer, in the copy a frame uses and in the context it
\* is saved to, are the layer's share of the sizes configured last: no frame
\* carries the stream's sizes, or another layer's, into a layer.
LayersKeepTheirSizes ==
  phase # "created" /\ Layered(oxcf) =>
    \A l \in Indices(oxcf) :
      LET r == IF InFrame /\ l = current_layer THEN rc ELSE layer_context[l].rc
      IN  /\ r.starting_buffer_level = Allocated(oxcf, l, StartingLevel(oxcf))
          /\ r.optimal_buffer_level  = Allocated(oxcf, l, OptimalLevel(oxcf))
          /\ r.maximum_buffer_size   = Allocated(oxcf, l, MaximumSize(oxcf))
          /\ layer_context[l].target_bandwidth = LayerBandwidth(oxcf, l)

\* Between frames the temporal layers of a spatial layer agree on the quality
\* of its key frames, whichever of them coded the last one.
KeyQualityShared ==
  phase = "idle" /\ Layered(oxcf) =>
    \A l, m \in Indices(oxcf) : SpatialOf(oxcf, l) = SpatialOf(oxcf, m) =>
      /\ layer_context[l].rc.last_key_q = layer_context[m].rc.last_key_q
      /\ layer_context[l].rc.avg_frame_qindex["key"]
           = layer_context[m].rc.avg_frame_qindex["key"]

\* A larger encoded frame never leaves the controller expecting smaller ones,
\* nor its bucket fuller: whatever the damping, the first undamped frame and
\* the band that changes nothing, the feedback has one sign.
FeedbackMonotone ==
  phase = "computed" =>
    LET sizes == {(rc.this_frame_target * percent) \div 100 :
                    percent \in {0, 40, 80, 98, 100, 104, 115, 200, 1100}}
        after == [bits \in sizes |-> ChargedRc(bits)]
    IN  \A a, b \in sizes : a <= b =>
          /\ after[a].rate_correction_factors[frame_type]
               <= after[b].rate_correction_factors[frame_type]
          /\ after[a].buffer_level >= after[b].buffer_level

\* A larger target never gives a coarser index: neither the search with its
\* two neighbours nor the damping between the last two indices reverses it.  An
\* inter frame offered max_frame_bandwidth or more leaves its active range, so
\* the targets compared are those below it.
MoreBitsFinerQ ==
  phase = "computed" /\ (frame_type = "inter" =>
                           2 * rc.this_frame_target < rc.max_frame_bandwidth) =>
    LET pick == [percent \in {50, 100, 200} |->
                   PickQ(frame_type, rc, KeyBase(spatial_layer_id, temporal_layer_id),
                         <<width, height>>, MBs, (rc.this_frame_target * percent) \div 100)]
    IN  pick[50] >= pick[100] /\ pick[100] >= pick[200]

\* A frame that is no key frame leaves other spatial layers and lower temporal
\* layers alone, from its start to the charge of its bits.
LayersIsolated ==
  [][ phase # "created" /\ phase' # phase /\ frame_type' = "inter"
      => \A l \in Indices(oxcf) :
           \/ l \in FromTemporal(oxcf, spatial_layer_id', temporal_layer_id')
           \/ layer_context'[l] = layer_context[l] ]_vars

\* The level of a layer's bucket: in rc while its frame is being coded.
BucketLevel(l) ==
  IF ~Layered(oxcf) \/ (InFrame /\ l = current_layer)
  THEN rc.bits_off_target ELSE layer_context[l].rc.bits_off_target

Engine == INSTANCE BrcEngine WITH
  Quantizers <- 0 .. MaxQ,
  status <- IF fault # "none" THEN "stopped"
            ELSE IF phase = "created" THEN "none"
            ELSE IF phase = "idle" THEN "ready" ELSE "computed",
  range  <- IF phase = "created" THEN <<0, 0>>
            ELSE <<BestAllowed(oxcf), WorstAllowed(oxcf)>>,
  qp     <- base_qindex

\* For the documented client this engine is one of those BrcEngine specifies,
\* with any number of layers.
EngineContract == Engine!Spec

\* A quantity of every layer, by spatial and temporal id.
PerLayer(f(_)) ==
  IF phase = "created" THEN <<>>
  ELSE [p \in (0 .. oxcf.ss_number_layers - 1) \X (0 .. oxcf.ts_number_layers - 1) |->
          f(Index(oxcf, p[1], p[2]))]

\* A layer's rate, size of its bucket and decimator as configured.
Rate(l) ==
  IF Layered(oxcf)
  THEN PerFrame(oxcf, LayerBandwidth(oxcf, l), oxcf.ts_rate_decimator[TemporalOf(oxcf, l)])
  ELSE Bandwidth(oxcf) \div Framerate(oxcf)
Share(l, size) == IF Layered(oxcf) THEN Allocated(oxcf, l, size) ELSE size

\* An update that repeats the configuration resets no bucket once every layer
\* has coded a frame under it; before that, layers that have not coded yet are
\* taken for a change of rate.  It may cut a level, to the size of its bucket,
\* only if an earlier reset put it at an optimal level above that size.  A
\* single temporal layer is taken to have the decimator 1: an update counts 1
\* for it, a frame counts what the configuration says.
RepeatedUpdateKeepsBuckets ==
  [][ /\ phase = "idle" /\ updates' # updates /\ oxcf' = oxcf /\ coded = Indices(oxcf)
      /\ (Layered(oxcf) /\ oxcf.ts_number_layers = 1) => oxcf.ts_rate_decimator[0] = 1
      => \A l \in Indices(oxcf) :
           \/ BucketLevel(l)' = BucketLevel(l)
           \/ /\ OptimalLevel(oxcf) > MaximumSize(oxcf)
              /\ BucketLevel(l)' = Share(l, MaximumSize(oxcf)) ]_vars

Bucket == INSTANCE LayeredBucket WITH
  level    <- PerLayer(BucketLevel),
  supply   <- PerLayer(Rate),
  optimum  <- PerLayer(LAMBDA l : Share(l, OptimalLevel(oxcf))),
  capacity <- PerLayer(LAMBDA l : Share(l, MaximumSize(oxcf))),
  current  <- IF ~InFrame THEN {}
              ELSE {p \in {spatial_layer_id} \X (0 .. oxcf.ts_number_layers - 1) :
                      p[2] >= temporal_layer_id},
  started  <- current_video_frame > 0

\* Copied in and out of rc, clipped, credited before the frame and charged
\* after it, the levels are those of one leaky bucket per layer, at the rates
\* and with the sizes of the configuration installed last.
Buckets == Bucket!Spec
=============================================================================
