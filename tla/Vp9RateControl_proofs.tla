------------------------ MODULE Vp9RateControl_proofs -----------------------
(***************************************************************************)
(* Proofs about Vp9RateControl, for all tables, configurations, layers,    *)
(* frame sizes and numbers of frames that satisfy the assumptions there.   *)
(***************************************************************************)
EXTENDS Vp9RateControl, Arithmetic_proofs, FiniteSetTheorems, TLAPS

-----------------------------------------------------------------------------
(* What a rate control state holds, and what its updates keep. *)

LEMMA RcTyped ==
  ASSUME NEW r \in RateControl
  PROVE  /\ r.worst_quality \in 0 .. MaxQ /\ r.best_quality \in 0 .. MaxQ
         /\ r.starting_buffer_level \in Nat /\ r.optimal_buffer_level \in Nat
         /\ r.maximum_buffer_size \in Nat
         /\ r.bits_off_target \in Int /\ r.buffer_level \in Int
         /\ r.avg_frame_bandwidth \in Nat /\ r.max_frame_bandwidth \in Nat
         /\ r.this_frame_target \in Int /\ r.damped_adjustment \in BOOLEAN
         /\ r.rate_correction_factors \in [FrameTypes -> 0 .. RcfMax]
         /\ r.avg_frame_qindex \in [FrameTypes -> 0 .. MaxQ]
         /\ r.last_key_q \in 0 .. MaxQ /\ r.frames_since_key \in Nat
         /\ r.rc_1_frame \in -1 .. 1 /\ r.rc_2_frame \in -1 .. 1
         /\ r.q_1_frame \in 0 .. MaxQ /\ r.q_2_frame \in 0 .. MaxQ
  BY DEF RateControl

LEMMA IndicesNat ==
  ASSUME NEW r \in RateControl
  PROVE  /\ MaxQ \in Nat /\ r.worst_quality \in Nat /\ r.best_quality \in Nat
         /\ r.avg_frame_qindex["inter"] \in 0 .. MaxQ /\ r.avg_frame_qindex["inter"] \in Nat
         /\ r.avg_frame_qindex["key"] \in 0 .. MaxQ /\ r.avg_frame_qindex["key"] \in Nat
         /\ r.last_key_q \in Nat /\ r.q_1_frame \in Nat /\ r.q_2_frame \in Nat
<1>1. MaxQ \in Nat
  BY TableAssumption
<1>2. \A q \in 0 .. MaxQ : q \in Nat
  BY <1>1
<1>3. r.avg_frame_qindex["inter"] \in 0 .. MaxQ /\ r.avg_frame_qindex["key"] \in 0 .. MaxQ
  BY RcTyped DEF FrameTypes
<1>4. QED
  BY <1>1, <1>2, <1>3, RcTyped

\* What the client configured, and the quality of key frames.
Configured(r) ==
  <<r.worst_quality, r.best_quality, r.starting_buffer_level, r.optimal_buffer_level,
    r.maximum_buffer_size>>
KeyQuality(r) == <<r.last_key_q, r.avg_frame_qindex["key"]>>

LEMMA LevelKeeps ==
  ASSUME NEW r \in RateControl, NEW bits \in Int
  PROVE  /\ Level(r, bits) \in RateControl
         /\ Configured(Level(r, bits)) = Configured(r)
         /\ KeyQuality(Level(r, bits)) = KeyQuality(r)
         /\ Level(r, bits).buffer_level = bits
  BY DEF Level, RateControl, Configured, KeyQuality

LEMMA DrainedKeeps ==
  ASSUME NEW r \in RateControl, NEW bits \in Int
  PROVE  /\ Drained(r, bits) \in RateControl
         /\ Configured(Drained(r, bits)) = Configured(r)
         /\ KeyQuality(Drained(r, bits)) = KeyQuality(r)
<1>1. Least(r.bits_off_target - bits, r.maximum_buffer_size) \in Int
  BY RcTyped DEF Least
<1>2. QED
  BY <1>1, LevelKeeps DEF Drained

LEMMA ResetKeeps ==
  ASSUME NEW r \in RateControl
  PROVE  /\ ResetRc(r) \in RateControl
         /\ Configured(ResetRc(r)) = Configured(r)
         /\ KeyQuality(ResetRc(r)) = KeyQuality(r)
<1> DEFINE x == Level(r, r.optimal_buffer_level)
<1>1. /\ x \in RateControl /\ Configured(x) = Configured(r) /\ KeyQuality(x) = KeyQuality(r)
  BY LevelKeeps, RcTyped
<1>2. ResetRc(r) = [x EXCEPT !.rc_1_frame = 0, !.rc_2_frame = 0]
  BY DEF ResetRc
<1>3. 0 \in -1 .. 1
  OBVIOUS
<1> HIDE DEF x
<1>4. QED
  BY <1>1, <1>2, <1>3, ZenonT(60) DEF RateControl, Configured, KeyQuality

LEMMA ResizedTyped ==
  ASSUME NEW r \in RateControl, NEW starting \in Nat, NEW optimal \in Nat, NEW maximum \in Nat
  PROVE  /\ Resized(r, starting, optimal, maximum) \in RateControl
         /\ Configured(Resized(r, starting, optimal, maximum))
              = <<r.worst_quality, r.best_quality, starting, optimal, maximum>>
         /\ KeyQuality(Resized(r, starting, optimal, maximum)) = KeyQuality(r)
<1>1. /\ Least(r.bits_off_target, maximum) \in Int
      /\ Least(r.buffer_level, maximum) \in Int
  BY RcTyped DEF Least
<1>2. QED
  BY <1>1 DEF Resized, RateControl, Configured, KeyQuality

-----------------------------------------------------------------------------
(* What a configuration gives. *)

LEMMA ConfigTyped ==
  ASSUME NEW c \in Config
  PROVE  /\ c.width \in Nat /\ c.height \in Nat /\ c.target_bandwidth \in Nat \ {0}
         /\ c.max_quantizer \in Int /\ c.min_quantizer \in Int
         /\ c.buf_initial_sz \in Nat /\ c.buf_optimal_sz \in Nat /\ c.buf_sz \in Nat
         /\ c.undershoot_pct \in Int /\ c.overshoot_pct \in Int
         /\ c.max_intra_bitrate_pct \in Nat /\ c.framerate \in Nat
         /\ c.ss_number_layers \in Nat /\ c.ts_number_layers \in Nat
         /\ c.scaling_factor_num \in [SpatialIds -> Nat]
         /\ c.scaling_factor_den \in [SpatialIds -> Nat]
         /\ c.layer_target_bitrate \in [LayerIds -> Nat]
         /\ c.ts_rate_decimator \in [TemporalIds -> Nat]
  BY DEF Config

\* What the engine relies on: validation and the reads of an update establish
\* it, and copying the layers keeps it.
Usable(c) ==
  /\ c.ss_number_layers \in 1 .. MaxSpatialLayers
  /\ c.ts_number_layers \in 1 .. MaxTemporalLayers
  /\ c.ss_number_layers * c.ts_number_layers <= MaxLayers
  /\ WorstAllowed(c) \in 0 .. MaxQ /\ BestAllowed(c) \in 0 .. MaxQ
  /\ BestAllowed(c) <= WorstAllowed(c)

LEMMA ConfigUsable ==
  ASSUME NEW c \in Config, Validate(c), ReadsInTable(c)
  PROVE  Usable(c)
<1>1. /\ c.max_quantizer \in 0 .. 63 /\ c.min_quantizer \in 0 .. 63
      /\ c.min_quantizer <= c.max_quantizer
  BY TableAssumption DEF Validate, ReadsInTable
<1>2. /\ WorstAllowed(c) \in 0 .. MaxQ /\ BestAllowed(c) \in 0 .. MaxQ
      /\ BestAllowed(c) <= WorstAllowed(c)
  BY <1>1, TableAssumption DEF WorstAllowed, BestAllowed
<1>3. QED
  BY <1>2 DEF Validate, Usable

LEMMA CopiedKeeps ==
  ASSUME NEW c \in Config
  PROVE  /\ Copied(c) \in Config
         /\ Usable(c) => Usable(Copied(c))
         /\ Indices(Copied(c)) = Indices(c)
         /\ Layered(Copied(c)) <=> Layered(c)
         /\ Bandwidth(Copied(c)) = Bandwidth(c)
         /\ Copied(c).ss_number_layers = c.ss_number_layers
         /\ Copied(c).ts_number_layers = c.ts_number_layers
         /\ Copied(c).width = c.width /\ Copied(c).height = c.height
         /\ WorstAllowed(Copied(c)) = WorstAllowed(c)
         /\ BestAllowed(Copied(c)) = BestAllowed(c)
         /\ StartingLevel(Copied(c)) = StartingLevel(c)
         /\ OptimalLevel(Copied(c)) = OptimalLevel(c)
         /\ MaximumSize(Copied(c)) = MaximumSize(c)
<1> DEFINE d == Copied(c)
<1>1. d \in Config
  BY DEF Copied, Config
<1>2. /\ d.ss_number_layers = c.ss_number_layers /\ d.ts_number_layers = c.ts_number_layers
      /\ d.max_quantizer = c.max_quantizer /\ d.min_quantizer = c.min_quantizer
      /\ d.width = c.width /\ d.height = c.height
      /\ d.target_bandwidth = c.target_bandwidth /\ d.buf_initial_sz = c.buf_initial_sz
      /\ d.buf_optimal_sz = c.buf_optimal_sz /\ d.buf_sz = c.buf_sz
  BY DEF Copied, Config
<1> HIDE DEF d
<1>3. WorstAllowed(d) = WorstAllowed(c) /\ BestAllowed(d) = BestAllowed(c)
      /\ Indices(d) = Indices(c) /\ (Layered(d) <=> Layered(c)) /\ Bandwidth(d) = Bandwidth(c)
  BY <1>2 DEF WorstAllowed, BestAllowed, Indices, Layered, Bandwidth
<1>4. /\ StartingLevel(d) = StartingLevel(c) /\ OptimalLevel(d) = OptimalLevel(c)
      /\ MaximumSize(d) = MaximumSize(c)
  BY <1>2, <1>3 DEF StartingLevel, OptimalLevel, MaximumSize
<1>5. Usable(c) => Usable(d)
  BY <1>2, <1>3 DEF Usable
<1>6. QED
  BY <1>1, <1>2, <1>3, <1>4, <1>5 DEF d

\* Layer indices of a usable configuration are within the arrays.
LEMMA LayersInArrays ==
  ASSUME NEW c \in Config, Usable(c)
  PROVE  /\ Indices(c) \subseteq LayerIds
         /\ \A l \in Indices(c) : /\ TemporalOf(c, l) \in 0 .. c.ts_number_layers - 1
                                  /\ TemporalOf(c, l) \in TemporalIds
                                  /\ SpatialOf(c, l) \in 0 .. c.ss_number_layers - 1
                                  /\ l = Index(c, SpatialOf(c, l), TemporalOf(c, l))
         /\ \A s \in 0 .. c.ss_number_layers - 1, t \in 0 .. c.ts_number_layers - 1 :
              /\ Index(c, s, t) \in Indices(c)
              /\ SpatialOf(c, Index(c, s, t)) = s /\ TemporalOf(c, Index(c, s, t)) = t
              /\ s \in SpatialIds /\ t \in TemporalIds
<1> DEFINE S == c.ss_number_layers
           T == c.ts_number_layers
<1>1. S \in 1 .. 5 /\ T \in 1 .. 5 /\ S * T <= 12
  BY DEF Usable, MaxSpatialLayers, MaxTemporalLayers, MaxLayers
<1> HIDE DEF S, T
<1>2. S * T \in Int
  BY <1>1
<1>3. Indices(c) = 0 .. S * T - 1
  BY DEF Indices, S, T
<1>4. Indices(c) \subseteq LayerIds
  BY <1>1, <1>2, <1>3 DEF LayerIds, MaxLayers
<1>5. ASSUME NEW l \in Indices(c)
      PROVE  /\ l % T \in 0 .. T - 1 /\ l \div T \in 0 .. S - 1
             /\ l = (l \div T) * T + (l % T)
  <2>1. l \in Nat /\ l <= S * T - 1
    BY <1>2, <1>3, <1>5
  <2>2. l % T \in 0 .. T - 1 /\ l \div T \in Nat /\ l = T * (l \div T) + (l % T)
    BY <1>1, <2>1
  <2>3. l \div T <= S - 1
    <3>1. SUFFICES ASSUME l \div T >= S PROVE FALSE
      BY <1>1, <2>2
    <3>2. S * T <= (l \div T) * T
      BY <1>1, <2>2, <3>1, TimesMonotone
    <3>3. QED
      BY <1>1, <1>2, <2>1, <2>2, <3>2
  <2>4. QED
    BY <1>1, <2>2, <2>3
<1>6. ASSUME NEW s \in 0 .. S - 1, NEW t \in 0 .. T - 1
      PROVE  /\ s * T + t \in 0 .. S * T - 1
             /\ (s * T + t) \div T = s /\ (s * T + t) % T = t
  <2>1. s * T <= (S - 1) * T /\ s * T \in Nat
    BY <1>1, TimesMonotone, ProductNat
  <2>2. (S - 1) * T = S * T - T
    BY <1>1
  <2>3. s * T + t \in 0 .. S * T - 1
    BY <1>1, <1>2, <2>1, <2>2
  <2>4. (s * T + t) \div T = s /\ (s * T + t) % T = t
    BY <1>1, <2>1
  <2>5. QED
    BY <2>3, <2>4
<1>7. \A t \in 0 .. T - 1 : t \in TemporalIds
  BY <1>1 DEF TemporalIds, MaxTemporalLayers
<1>8. \A s \in 0 .. S - 1 : s \in SpatialIds
  BY <1>1 DEF SpatialIds, MaxSpatialLayers
<1>9. /\ \A l : SpatialOf(c, l) = l \div T /\ TemporalOf(c, l) = l % T
      /\ \A s, t : Index(c, s, t) = s * T + t
  BY DEF Index, SpatialOf, TemporalOf, T
<1>10. \A l \in Indices(c) :
         /\ TemporalOf(c, l) \in 0 .. T - 1 /\ TemporalOf(c, l) \in TemporalIds
         /\ SpatialOf(c, l) \in 0 .. S - 1
         /\ l = Index(c, SpatialOf(c, l), TemporalOf(c, l))
  BY <1>5, <1>7, <1>9
<1>11. \A s \in 0 .. S - 1, t \in 0 .. T - 1 :
         /\ Index(c, s, t) \in Indices(c)
         /\ SpatialOf(c, Index(c, s, t)) = s /\ TemporalOf(c, Index(c, s, t)) = t
         /\ s \in SpatialIds /\ t \in TemporalIds
  BY <1>3, <1>6, <1>7, <1>8, <1>9
<1>12. QED
  BY <1>4, <1>10, <1>11 DEF S, T

\* Rates and sizes are natural numbers.
LEMMA SizesTyped ==
  ASSUME NEW c \in Config
  PROVE  /\ Bandwidth(c) \in Nat \ {0} /\ Framerate(c) \in Nat \ {0}
         /\ StartingLevel(c) \in Nat /\ OptimalLevel(c) \in Nat /\ MaximumSize(c) \in Nat
<1>1. /\ c.target_bandwidth \in Nat \ {0} /\ c.buf_initial_sz \in Nat
      /\ c.buf_optimal_sz \in Nat /\ c.buf_sz \in Nat /\ c.framerate \in Nat
  BY ConfigTyped
<1>2. Bandwidth(c) \in Nat \ {0} /\ Framerate(c) \in Nat \ {0}
  BY <1>1 DEF Bandwidth, Framerate
<1>3. \A ms \in Nat : /\ BufferBits(ms, Bandwidth(c)) \in Nat
                      /\ BufferBitsOrDefault(ms, Bandwidth(c)) \in Nat
  <2> TAKE ms \in Nat
  <2>1. BufferBits(ms, Bandwidth(c)) \in Nat
    BY <1>2, ScaledNat DEF BufferBits
  <2>2. QED
    BY <1>2, <2>1, DivNat DEF BufferBitsOrDefault
<1>4. QED
  BY <1>1, <1>2, <1>3 DEF StartingLevel, OptimalLevel, MaximumSize

LEMMA LayerSizesTyped ==
  ASSUME NEW c \in Config, NEW l \in LayerIds
  PROVE  /\ LayerBandwidth(c, l) \in Nat
         /\ BufferBits(c.buf_initial_sz, LayerBandwidth(c, l)) \in Nat
         /\ \A size \in Nat : Allocated(c, l, size) \in Nat
<1>1. c.layer_target_bitrate[l] \in Nat /\ c.buf_initial_sz \in Nat
  BY ConfigTyped
<1>2. LayerBandwidth(c, l) \in Nat
  BY <1>1 DEF LayerBandwidth
<1>3. BufferBits(c.buf_initial_sz, LayerBandwidth(c, l)) \in Nat
  BY <1>1, <1>2, ScaledNat DEF BufferBits
<1>4. QED
  BY <1>2, <1>3, SizesTyped, ScaledNat DEF Allocated

LEMMA PerFrameNat ==
  ASSUME NEW c \in Config, NEW bandwidth \in Nat, NEW dec \in Nat
  PROVE  PerFrame(c, bandwidth, dec) \in Nat
<1>1. bandwidth * dec \in Nat
  BY ProductNat
<1>2. QED
  BY <1>1, SizesTyped, DivNat DEF PerFrame

-----------------------------------------------------------------------------
(* What an update and the start of an engine leave. *)

\* The configured fields of the stream, and of one layer.
StreamShare(c) ==
  <<WorstAllowed(c), BestAllowed(c), StartingLevel(c), OptimalLevel(c), MaximumSize(c)>>
LayerShare(c, l) ==
  <<WorstAllowed(c), BestAllowed(c), Allocated(c, l, StartingLevel(c)),
    Allocated(c, l, OptimalLevel(c)), Allocated(c, l, MaximumSize(c))>>

LEMMA RetimedKeeps ==
  ASSUME NEW r \in RateControl, NEW c \in Config
  PROVE  /\ Retimed(r, c) \in RateControl
         /\ Configured(Retimed(r, c)) = Configured(r)
         /\ KeyQuality(Retimed(r, c)) = KeyQuality(r)
<1> DEFINE average == Bandwidth(c) \div Framerate(c)
           mbs == (c.width * c.height) \div 256
           largest == Greatest(Greatest(mbs * MaxMbRate, Maxrate1080P), 20 * average)
<1>1. average \in Nat
  BY SizesTyped, DivNat
<1>2. mbs \in Nat
  BY ConfigTyped, ProductNat, DivNat
<1>3. largest \in Nat
  <2> HIDE DEF average, mbs
  <2>1. mbs * MaxMbRate \in Nat /\ 20 * average \in Nat /\ Maxrate1080P \in Nat
    BY <1>1, <1>2 DEF MaxMbRate, Maxrate1080P
  <2>2. QED
    BY <2>1 DEF Greatest
<1>4. Retimed(r, c) = [r EXCEPT !.avg_frame_bandwidth = average,
                                !.max_frame_bandwidth = largest]
  BY DEF Retimed
<1> HIDE DEF average, largest
<1>5. QED
  BY <1>1, <1>3, <1>4, ZenonT(60) DEF RateControl, Configured, KeyQuality

LEMMA StreamRcTyped ==
  ASSUME NEW r \in RateControl, NEW c \in Config, Usable(c)
  PROVE  /\ StreamRc(r, c) \in RateControl
         /\ Configured(StreamRc(r, c)) = StreamShare(c)
         /\ KeyQuality(StreamRc(r, c)) = KeyQuality(r)
<1> DEFINE x == [r EXCEPT !.worst_quality = WorstAllowed(c), !.best_quality = BestAllowed(c)]
           y == Resized(x, StartingLevel(c), OptimalLevel(c), MaximumSize(c))
<1>1. /\ x \in RateControl /\ KeyQuality(x) = KeyQuality(r)
      /\ x.worst_quality = WorstAllowed(c) /\ x.best_quality = BestAllowed(c)
  BY DEF Usable, RateControl, KeyQuality
<1> HIDE DEF x
<1>2. /\ y \in RateControl /\ KeyQuality(y) = KeyQuality(x)
      /\ Configured(y) = StreamShare(c)
  <2>1. /\ StartingLevel(c) \in Nat /\ OptimalLevel(c) \in Nat /\ MaximumSize(c) \in Nat
    BY SizesTyped
  <2>2. /\ y \in RateControl /\ KeyQuality(y) = KeyQuality(x)
        /\ Configured(y) = <<x.worst_quality, x.best_quality, StartingLevel(c),
                             OptimalLevel(c), MaximumSize(c)>>
    BY <1>1, <2>1, ResizedTyped, ZenonT(60)
  <2>3. QED
    BY <1>1, <2>2 DEF StreamShare
<1>3. StreamRc(r, c) = Retimed(y, c)
  BY DEF StreamRc, x
<1> HIDE DEF y
<1>4. QED
  BY <1>1, <1>2, <1>3, RetimedKeeps

LEMMA BlankTyped ==
  BlankRc \in RateControl /\ BlankContext \in LayerContext /\ BlankContext.rc = BlankRc
<1>1. 0 \in 0 .. MaxQ /\ 0 \in 0 .. RcfMax /\ 0 \in -1 .. 1
  <2>1. MaxQ \in Nat
    BY TableAssumption
  <2>2. RcfMax \in Nat
    BY ParameterAssumption
  <2>3. QED
    BY <2>1, <2>2
<1>2. BlankRc \in RateControl
  BY <1>1 DEF BlankRc, RateControl, FrameTypes
<1>3. QED
  BY <1>2 DEF BlankContext, LayerContext

LEMMA StartedRcTyped ==
  ASSUME NEW r \in RateControl, NEW c \in Config, Usable(c)
  PROVE  /\ StartedRc(r, c) \in RateControl
         /\ Configured(StartedRc(r, c)) = Configured(r)
<1> DEFINE x == Level(r, r.starting_buffer_level)
<1>1. x \in RateControl /\ Configured(x) = Configured(r)
  BY RcTyped, LevelKeeps
<1> DEFINE averages == [ft \in FrameTypes |-> WorstAllowed(c)]
           factors  == [ft \in FrameTypes |-> RcfOne]
           best     == BestAllowed(c)
           since    == 8
<1>2. /\ averages \in [FrameTypes -> 0 .. MaxQ] /\ best \in 0 .. MaxQ
      /\ factors \in [FrameTypes -> 0 .. RcfMax]
      /\ since \in Nat /\ 0 \in -1 .. 1
  BY ParameterAssumption DEF Usable
<1>3. StartedRc(r, c) =
        [x EXCEPT !.avg_frame_qindex = averages,
                  !.last_key_q = best,
                  !.rate_correction_factors = factors,
                  !.damped_adjustment = FALSE,
                  !.frames_since_key = since,
                  !.rc_1_frame = 0, !.rc_2_frame = 0]
  BY DEF StartedRc
<1> DEFINE y == [x EXCEPT !.avg_frame_qindex = averages, !.last_key_q = best,
                          !.rate_correction_factors = factors]
           z == [y EXCEPT !.damped_adjustment = FALSE, !.frames_since_key = since]
           w == [z EXCEPT !.rc_1_frame = 0, !.rc_2_frame = 0]
<1> HIDE DEF x, averages, factors, best, since
<1>4. y \in RateControl /\ Configured(y) = Configured(x)
  BY <1>1, <1>2 DEF RateControl, Configured
<1>5. z \in RateControl /\ Configured(z) = Configured(y)
  <2> HIDE DEF y
  <2>1. QED
    BY <1>2, <1>4 DEF RateControl, Configured
<1>6. w \in RateControl /\ Configured(w) = Configured(z)
  <2> HIDE DEF z
  <2>1. QED
    BY <1>2, <1>5 DEF RateControl, Configured
<1>7. StartedRc(r, c) = w
  BY <1>1, <1>3 DEF RateControl
<1>8. QED
  BY <1>1, <1>4, <1>5, <1>6, <1>7

LEMMA ContextTyped ==
  ASSUME NEW lc \in LayerContext
  PROVE  /\ lc.rc \in RateControl /\ lc.target_bandwidth \in Nat /\ lc.decimator \in Nat
         /\ lc.avg_frame_size \in Int /\ lc.is_key_frame \in BOOLEAN
  BY DEF LayerContext

\* A layer starts over with the average its configuration gives every layer.
LEMMA InitialContextTyped ==
  ASSUME NEW lc \in LayerContext, NEW c \in Config, Usable(c), NEW l \in LayerIds
  PROVE  LET x == InitialContext(lc, c, l) IN
         /\ x \in LayerContext
         /\ KeyQuality(x.rc) = <<lc.rc.last_key_q, WorstAllowed(c)>>
<1> DEFINE bits == BufferBits(c.buf_initial_sz, LayerBandwidth(c, l))
           y == [lc.rc EXCEPT
                   !.rate_correction_factors = [ft \in FrameTypes |-> RcfOne],
                   !.avg_frame_qindex = [ft \in FrameTypes |-> WorstAllowed(c)]]
<1>1. /\ [ft \in FrameTypes |-> WorstAllowed(c)] \in [FrameTypes -> 0 .. MaxQ]
      /\ [ft \in FrameTypes |-> RcfOne] \in [FrameTypes -> 0 .. RcfMax]
      /\ "key" \in FrameTypes
  BY ParameterAssumption DEF Usable, FrameTypes
<1>2. y \in RateControl /\ KeyQuality(y) = <<lc.rc.last_key_q, WorstAllowed(c)>>
  BY <1>1, ContextTyped, ZenonT(60) DEF RateControl, KeyQuality
<1>3. bits \in Int /\ LayerBandwidth(c, l) \in Nat
  BY LayerSizesTyped
<1> HIDE DEF y, bits
<1>4. Level(y, bits) \in RateControl /\ KeyQuality(Level(y, bits)) = KeyQuality(y)
  BY <1>2, <1>3, LevelKeeps
<1>5. InitialContext(lc, c, l) =
        [lc EXCEPT !.target_bandwidth = LayerBandwidth(c, l), !.rc = Level(y, bits)]
  BY DEF InitialContext, LayerContext, y, bits
<1>6. QED
  BY <1>2, <1>3, <1>4, <1>5 DEF LayerContext

LEMMA ReconfiguredContextTyped ==
  ASSUME NEW lc \in LayerContext, NEW c \in Config, Usable(c), NEW l \in Indices(c),
         NEW r \in RateControl, Configured(r) = StreamShare(c)
  PROVE  LET x == ReconfiguredContext(lc, c, l, r) IN
         /\ x \in LayerContext
         /\ Configured(x.rc) = LayerShare(c, l)
         /\ KeyQuality(x.rc) = KeyQuality(lc.rc)
         /\ x.target_bandwidth = LayerBandwidth(c, l)
<1> DEFINE dec == IF c.ts_number_layers > 1 THEN c.ts_rate_decimator[TemporalOf(c, l)] ELSE 1
           bandwidth == LayerBandwidth(c, l)
           y == Resized(lc.rc, Allocated(c, l, r.starting_buffer_level),
                               Allocated(c, l, r.optimal_buffer_level),
                               Allocated(c, l, r.maximum_buffer_size))
           z == [y EXCEPT !.avg_frame_bandwidth = PerFrame(c, bandwidth, dec),
                          !.max_frame_bandwidth = r.max_frame_bandwidth,
                          !.worst_quality = r.worst_quality,
                          !.best_quality  = r.best_quality]
<1>1. l \in LayerIds /\ TemporalOf(c, l) \in TemporalIds
  BY LayersInArrays
<1>2. dec \in Nat /\ bandwidth \in Nat
  BY <1>1, ConfigTyped, LayerSizesTyped
<1>3. /\ r.worst_quality = WorstAllowed(c) /\ r.best_quality = BestAllowed(c)
      /\ r.starting_buffer_level = StartingLevel(c)
      /\ r.optimal_buffer_level = OptimalLevel(c)
      /\ r.maximum_buffer_size = MaximumSize(c)
  BY DEF Configured, StreamShare
<1>4. /\ Allocated(c, l, StartingLevel(c)) \in Nat /\ Allocated(c, l, OptimalLevel(c)) \in Nat
      /\ Allocated(c, l, MaximumSize(c)) \in Nat
  BY <1>1, SizesTyped, LayerSizesTyped
<1>5. /\ y \in RateControl /\ KeyQuality(y) = KeyQuality(lc.rc)
      /\ Configured(y) = <<lc.rc.worst_quality, lc.rc.best_quality,
                           Allocated(c, l, StartingLevel(c)),
                           Allocated(c, l, OptimalLevel(c)),
                           Allocated(c, l, MaximumSize(c))>>
  <2>1. lc.rc \in RateControl
    BY ContextTyped
  <2>2. y = Resized(lc.rc, Allocated(c, l, StartingLevel(c)),
                    Allocated(c, l, OptimalLevel(c)), Allocated(c, l, MaximumSize(c)))
    BY <1>3
  <2> HIDE DEF y
  <2>3. QED
    BY <1>4, <2>1, <2>2, ResizedTyped, ZenonT(60)
<1>6. PerFrame(c, bandwidth, dec) \in Nat
  <2> HIDE DEF dec, bandwidth
  <2>1. QED
    BY <1>2, PerFrameNat
<1>7. /\ r.worst_quality \in 0 .. MaxQ /\ r.best_quality \in 0 .. MaxQ
      /\ r.max_frame_bandwidth \in Nat
  BY RcTyped
<1>8. ReconfiguredContext(lc, c, l, r) =
        [lc EXCEPT !.target_bandwidth = bandwidth, !.decimator = dec, !.rc = z]
  BY DEF ReconfiguredContext, LayerContext
<1> HIDE DEF dec, bandwidth, y
<1>9. z \in RateControl /\ KeyQuality(z) = KeyQuality(y)
  BY <1>5, <1>6, <1>7 DEF RateControl, KeyQuality
<1>10. Configured(z) = LayerShare(c, l)
  BY <1>3, <1>5 DEF RateControl, Configured, LayerShare
<1> HIDE DEF z
<1>11. QED
  BY <1>2, <1>5, <1>8, <1>9, <1>10 DEF LayerContext, bandwidth

\* The layers hold what a configuration allows each of them, and those of one
\* spatial layer agree on the quality of key frames.
LayersHold(c, lcs) ==
  /\ lcs \in [Indices(c) -> LayerContext]
  /\ \A l \in Indices(c) : /\ Configured(lcs[l].rc) = LayerShare(c, l)
                           /\ lcs[l].target_bandwidth = LayerBandwidth(c, l)
QualityShared(c, lcs) ==
  \A l, m \in Indices(c) : SpatialOf(c, l) = SpatialOf(c, m)
                           => KeyQuality(lcs[l].rc) = KeyQuality(lcs[m].rc)

LEMMA ResetContextsHold ==
  ASSUME NEW c, NEW lcs, LayersHold(c, lcs), QualityShared(c, lcs)
  PROVE  LayersHold(c, ResetContexts(lcs, c)) /\ QualityShared(c, ResetContexts(lcs, c))
<1> DEFINE after == ResetContexts(lcs, c)
           reset(l) == [lcs[l] EXCEPT !.rc = ResetRc(@)]
<1>1. lcs \in [Indices(c) -> LayerContext] /\ DOMAIN lcs = Indices(c)
  BY DEF LayersHold
<1>2. ASSUME NEW l \in Indices(c)
      PROVE  /\ reset(l) \in LayerContext
             /\ Configured(reset(l).rc) = Configured(lcs[l].rc)
             /\ KeyQuality(reset(l).rc) = KeyQuality(lcs[l].rc)
             /\ reset(l).target_bandwidth = lcs[l].target_bandwidth
  <2>1. lcs[l] \in LayerContext /\ lcs[l].rc \in RateControl
    BY <1>1, ContextTyped
  <2>2. /\ ResetRc(lcs[l].rc) \in RateControl
        /\ Configured(ResetRc(lcs[l].rc)) = Configured(lcs[l].rc)
        /\ KeyQuality(ResetRc(lcs[l].rc)) = KeyQuality(lcs[l].rc)
    BY <2>1, ResetKeeps
  <2>3. QED
    BY <2>1, <2>2 DEF LayerContext
<1>3. /\ DOMAIN after = Indices(c) /\ after = [l \in Indices(c) |-> after[l]]
      /\ \A l \in Indices(c) : after[l] \in {reset(l), lcs[l]}
  BY <1>1 DEF ResetContexts
<1> HIDE DEF after, reset
<1>4. \A l \in Indices(c) :
        /\ after[l] \in LayerContext
        /\ Configured(after[l].rc) = Configured(lcs[l].rc)
        /\ KeyQuality(after[l].rc) = KeyQuality(lcs[l].rc)
        /\ after[l].target_bandwidth = lcs[l].target_bandwidth
  BY <1>1, <1>2, <1>3
<1>5. LayersHold(c, after)
  BY <1>3, <1>4 DEF LayersHold
<1>6. QualityShared(c, after)
  BY <1>4 DEF QualityShared
<1>7. QED
  BY <1>5, <1>6 DEF after

LEMMA UpdatedContextsHold ==
  ASSUME NEW c \in Config, Usable(c), NEW r \in RateControl,
         Configured(r) = StreamShare(c),
         layer_context \in [Indices(c) -> LayerContext], QualityShared(c, layer_context)
  PROVE  /\ LayersHold(c, UpdatedContexts(c, r))
         /\ QualityShared(c, UpdatedContexts(c, r))
<1> DEFINE started == IF current_video_frame = 0
                      THEN [l \in Indices(c) |-> InitialContext(layer_context[l], c, l)]
                      ELSE layer_context
           sized == [l \in Indices(c) |-> ReconfiguredContext(started[l], c, l, r)]
<1>1. started \in [Indices(c) -> LayerContext] /\ QualityShared(c, started)
  <2> DEFINE initial == [l \in Indices(c) |-> InitialContext(layer_context[l], c, l)]
  <2>1. \A l \in Indices(c) :
          /\ InitialContext(layer_context[l], c, l) \in LayerContext
          /\ KeyQuality(InitialContext(layer_context[l], c, l).rc)
               = <<layer_context[l].rc.last_key_q, WorstAllowed(c)>>
    BY LayersInArrays, InitialContextTyped
  <2>2. initial \in [Indices(c) -> LayerContext]
    BY <2>1
  <2>3. ASSUME NEW l \in Indices(c), NEW m \in Indices(c), SpatialOf(c, l) = SpatialOf(c, m)
        PROVE  KeyQuality(initial[l].rc) = KeyQuality(initial[m].rc)
    <3>1. layer_context[l].rc.last_key_q = layer_context[m].rc.last_key_q
      BY <2>3 DEF QualityShared, KeyQuality
    <3>2. QED
      BY <2>1, <3>1
  <2>4. QualityShared(c, initial)
    BY <2>3 DEF QualityShared
  <2>5. QED
    BY <2>2, <2>4
<1> HIDE DEF started
<1>2. \A l \in Indices(c) :
        /\ ReconfiguredContext(started[l], c, l, r) \in LayerContext
        /\ Configured(ReconfiguredContext(started[l], c, l, r).rc) = LayerShare(c, l)
        /\ KeyQuality(ReconfiguredContext(started[l], c, l, r).rc)
             = KeyQuality(started[l].rc)
        /\ ReconfiguredContext(started[l], c, l, r).target_bandwidth = LayerBandwidth(c, l)
  BY <1>1, ReconfiguredContextTyped
<1>3. LayersHold(c, sized)
  BY <1>2 DEF LayersHold
<1>4. \A l \in Indices(c) : KeyQuality(sized[l].rc) = KeyQuality(started[l].rc)
  BY <1>2
<1>5. UpdatedContexts(c, r) \in {sized, ResetContexts(sized, c)}
  BY DEF UpdatedContexts, started
<1> HIDE DEF sized
<1>6. QualityShared(c, sized)
  BY <1>1, <1>4 DEF QualityShared
<1>7. QED
  BY <1>3, <1>5, <1>6, ResetContextsHold

LEMMA NewContextsHold ==
  ASSUME NEW c \in Config, Usable(c), NEW r \in RateControl,
         Configured(r) = StreamShare(c)
  PROVE  LET lcs == [l \in Indices(c) |->
                       ReconfiguredContext(InitialContext(BlankContext, c, l), c, l, r)]
         IN  LayersHold(c, lcs) /\ QualityShared(c, lcs)
<1> DEFINE initial(l) == InitialContext(BlankContext, c, l)
           lcs == [l \in Indices(c) |-> ReconfiguredContext(initial(l), c, l, r)]
<1>1. \A l \in Indices(c) :
        /\ initial(l) \in LayerContext
        /\ KeyQuality(initial(l).rc) = <<BlankRc.last_key_q, WorstAllowed(c)>>
  BY BlankTyped, LayersInArrays, InitialContextTyped
<1> HIDE DEF initial
<1>2. \A l \in Indices(c) :
        /\ ReconfiguredContext(initial(l), c, l, r) \in LayerContext
        /\ Configured(ReconfiguredContext(initial(l), c, l, r).rc) = LayerShare(c, l)
        /\ KeyQuality(ReconfiguredContext(initial(l), c, l, r).rc) = KeyQuality(initial(l).rc)
        /\ ReconfiguredContext(initial(l), c, l, r).target_bandwidth = LayerBandwidth(c, l)
  BY <1>1, ReconfiguredContextTyped
<1>3. LayersHold(c, lcs)
  BY <1>2 DEF LayersHold
<1>4. \A l \in Indices(c) : KeyQuality(lcs[l].rc) = <<BlankRc.last_key_q, WorstAllowed(c)>>
  BY <1>1, <1>2
<1>5. QualityShared(c, lcs)
  BY <1>4 DEF QualityShared
<1>6. QED
  BY <1>3, <1>5 DEF initial

-----------------------------------------------------------------------------
(* Frame targets are natural: an inter frame gets at least its overhead. *)

LEMMA InterTargetNat ==
  ASSUME NEW c \in Config, NEW r \in RateControl, NEW size \in Int
  PROVE  InterTarget(c, r, size) \in Nat
<1> DEFINE diff == r.optimal_buffer_level - r.buffer_level
           one_pct_bits == 1 + r.optimal_buffer_level \div 100
           below == Least(diff \div one_pct_bits, c.undershoot_pct)
           above == Least((-diff) \div one_pct_bits, c.overshoot_pct)
           target == IF diff > 0 THEN size - Quotient(size * below, 200)
                     ELSE IF diff < 0 THEN size + Quotient(size * above, 200)
                     ELSE size
<1>1. diff \in Int /\ one_pct_bits \in Nat \ {0}
  BY RcTyped, DivNat
<1>2. below \in Int /\ above \in Int
  <2>1. c.undershoot_pct \in Int /\ c.overshoot_pct \in Int
    BY ConfigTyped
  <2> HIDE DEF diff, one_pct_bits
  <2>2. diff \div one_pct_bits \in Int /\ (-diff) \div one_pct_bits \in Int
    BY <1>1, DivBounds
  <2>3. QED
    BY <2>1, <2>2 DEF Least
<1>3. InterTarget(c, r, size) = Greatest(Greatest(size \div 16, FrameOverheadBits), target)
  BY DEF InterTarget
<1> HIDE DEF diff, below, above
<1>4. size * below \in Int /\ size * above \in Int
  BY <1>2
<1>5. Quotient(size * below, 200) \in Int /\ Quotient(size * above, 200) \in Int
  BY <1>4, QuotientInt
<1>6. target \in Int
  BY <1>5
<1> HIDE DEF target
<1>7. QED
  BY <1>3, <1>6 DEF Greatest, FrameOverheadBits

\* A key frame after the first needs a frame rate.
LEMMA KeyTargetNat ==
  ASSUME NEW c \in Config, NEW r \in RateControl, NEW dec \in Nat,
         current_video_frame # 0 => dec # 0
  PROVE  KeyTarget(c, r, dec) \in Nat
<1> DEFINE fps == Framerate(c)
           boost == Greatest(32, (2 * fps) \div dec - 16)
           scaled == 2 * boost * r.frames_since_key * dec
           kf_boost == IF 2 * r.frames_since_key * dec < fps THEN scaled \div fps ELSE boost
           target == IF current_video_frame = 0 THEN r.starting_buffer_level \div 2
                     ELSE ((16 + kf_boost) * r.avg_frame_bandwidth) \div 16
           capped == IF c.max_intra_bitrate_pct > 0
                     THEN Least(target, (r.avg_frame_bandwidth * c.max_intra_bitrate_pct)
                                        \div 100)
                     ELSE target
<1>1. /\ fps \in Nat \ {0} /\ r.frames_since_key \in Nat /\ r.starting_buffer_level \in Nat
      /\ r.avg_frame_bandwidth \in Nat /\ r.max_frame_bandwidth \in Nat
      /\ c.max_intra_bitrate_pct \in Nat
  BY SizesTyped, RcTyped, ConfigTyped
<1>2. target \in Nat
  <2>1. CASE current_video_frame = 0
    BY <1>1, <2>1, DivNat
  <2>2. CASE current_video_frame # 0
    <3> HIDE DEF fps
    <3>1. (2 * fps) \div dec \in Nat
      BY <1>1, <2>2, DivNat
    <3>2. boost \in Nat
      BY <3>1 DEF Greatest
    <3> HIDE DEF boost
    <3>3. scaled \in Nat
      BY <1>1, <3>2, ProductNat
    <3> HIDE DEF scaled
    <3>4. kf_boost \in Nat
      BY <1>1, <3>2, <3>3, DivNat
    <3> HIDE DEF kf_boost
    <3>5. (16 + kf_boost) * r.avg_frame_bandwidth \in Nat
      BY <1>1, <3>4, ProductNat
    <3>6. ((16 + kf_boost) * r.avg_frame_bandwidth) \div 16 \in Nat
      BY <3>5, DivNat
    <3>7. QED
      BY <2>2, <3>6
  <2>3. QED
    BY <2>1, <2>2
<1>3. (r.avg_frame_bandwidth * c.max_intra_bitrate_pct) \div 100 \in Nat
  BY <1>1, ProductNat, DivNat
<1>4. KeyTarget(c, r, dec) = Least(capped, r.max_frame_bandwidth)
  BY DEF KeyTarget
<1> HIDE DEF target
<1>5. capped \in Nat
  BY <1>2, <1>3 DEF Least
<1> HIDE DEF capped
<1>6. QED
  BY <1>1, <1>4, <1>5 DEF Least

-----------------------------------------------------------------------------
(* The index of a frame. *)

\* A bucket within its maximum takes no more off the worst index than the
\* index itself.
LEMMA ReliefBetween ==
  ASSUME NEW r \in RateControl, NEW worst \in Nat,
         r.buffer_level > r.optimal_buffer_level, r.buffer_level <= r.maximum_buffer_size
  PROVE  Relief(r, worst) \in Int /\ Relief(r, worst) <= worst
<1> DEFINE third == worst \div 3
           span == r.maximum_buffer_size - r.optimal_buffer_level
           step == Quotient(span, third)
           x == r.buffer_level - r.optimal_buffer_level
<1>1. third \in Nat /\ 2 * third <= worst
  BY DivNat, DivBounds
<1>2. span \in Nat /\ x \in Nat /\ x <= span
  BY RcTyped
<1>3. CASE third = 0 \/ step = 0
  BY <1>3 DEF Relief
<1>4. CASE third # 0 /\ step # 0
  <2>1. Relief(r, worst) = Quotient(x, step)
    BY <1>4 DEF Relief
  <2>2. step \in Nat \ {0} /\ span < third * step + third
    <3> HIDE DEF third, span
    <3>1. step = span \div third
      BY <1>1, <1>2, <1>4, QuotientPositive
    <3>2. QED
      BY <1>1, <1>2, <1>4, <3>1, DivNat, DivBounds
  <2> HIDE DEF third, span, step, x
  <2>3. third * step + third <= 2 * third * step
    BY <1>1, <2>2
  <2>4. (2 * third) * step <= worst * step
    BY <1>1, <2>2, TimesMonotone
  <2>5. third * step \in Nat /\ worst * step \in Nat
    BY <1>1, <2>2, ProductNat
  <2>6. (2 * third) * step = 2 * third * step /\ 2 * third * step = 2 * (third * step)
    BY <1>1, <2>2
  <2>7. x <= worst * step
    BY <1>1, <1>2, <2>2, <2>3, <2>4, <2>5, <2>6
  <2>8. x \div step <= worst /\ x \div step \in Nat
    BY <1>2, <2>2, <2>7, DivAtMost, DivNat
  <2>9. Quotient(x, step) = x \div step
    <3>1. step \in Nat \ {0} /\ x \in Int /\ x >= 0
      BY <1>2, <2>2
    <3>2. QED
      BY <3>1, QuotientPositive
  <2>10. QED
    BY <2>1, <2>8, <2>9
<1>5. QED
  BY <1>3, <1>4

\* The context of the base layer, if a frame has one.
Bases == {{}} \cup {{lc} : lc \in LayerContext}

\* So the worst index stays one of the table.
LEMMA ActiveWorstNat ==
  ASSUME NEW r \in RateControl, NEW base \in Bases, NEW ft \in FrameTypes,
         r.buffer_level <= r.maximum_buffer_size
  PROVE  ActiveWorst(ft, r, base) \in Nat
<1> DEFINE averages == IF current_video_frame < 5
                       THEN Least(r.avg_frame_qindex["inter"], r.avg_frame_qindex["key"])
                       ELSE r.avg_frame_qindex["inter"]
           ambient  == IF base = {} THEN averages
                       ELSE Least(averages, (CHOOSE b \in base : TRUE).rc.last_key_q)
           above    == IF base = {} THEN (5 * ambient) \div 4 ELSE (9 * ambient) \div 8
           worst    == Least(r.worst_quality, above)
           critical == r.optimal_buffer_level \div 8
           w == r.worst_quality - ambient
           x == r.optimal_buffer_level - r.buffer_level
           d == r.optimal_buffer_level - critical
<1>1. averages \in Nat
  <2>1. r.avg_frame_qindex["inter"] \in Nat /\ r.avg_frame_qindex["key"] \in Nat
    BY IndicesNat
  <2>2. QED
    BY <2>1 DEF Least
<1>2. ambient \in Nat
  <2> HIDE DEF averages
  <2>1. CASE base = {}
    BY <1>1, <2>1
  <2>2. CASE base # {}
    <3>1. PICK lc \in LayerContext : base = {lc}
      BY <2>2 DEF Bases
    <3>2. (CHOOSE b \in base : TRUE) = lc
      BY <3>1
    <3>3. lc.rc.last_key_q \in Nat
      BY ContextTyped, IndicesNat
    <3>4. QED
      BY <1>1, <2>2, <3>2, <3>3 DEF Least
  <2>3. QED
    BY <2>1, <2>2
<1>3. /\ r.worst_quality \in Nat /\ r.optimal_buffer_level \in Nat /\ r.buffer_level \in Int
      /\ critical \in Nat
  BY RcTyped, IndicesNat, DivNat
<1>4. worst \in Nat
  <2> HIDE DEF ambient
  <2>1. above \in Nat
    BY <1>2, DivNat
  <2> HIDE DEF above
  <2>2. QED
    BY <1>3, <2>1 DEF Least
<1>5. CASE ft # "key" /\ r.buffer_level > r.optimal_buffer_level
  <2>1. ActiveWorst(ft, r, base) = worst - Relief(r, worst)
    BY <1>5 DEF ActiveWorst
  <2> HIDE DEF worst
  <2>2. Relief(r, worst) <= worst /\ Relief(r, worst) \in Int
    BY <1>4, <1>5, ReliefBetween
  <2>3. QED
    BY <1>4, <2>1, <2>2
<1>6. CASE /\ ft # "key" /\ ~(r.buffer_level > r.optimal_buffer_level)
           /\ ~(r.buffer_level <= critical) /\ critical # 0
  <2>1. ActiveWorst(ft, r, base) = ambient + Quotient(w * x, d)
    BY <1>6 DEF ActiveWorst
  <2>2. x \in Nat /\ d \in Nat \ {0} /\ x <= d
    <3> HIDE DEF critical
    <3>1. QED
      BY <1>3, <1>6
  <2>3. w \in Int /\ ambient + w = r.worst_quality
    <3> HIDE DEF ambient
    <3>1. QED
      BY <1>2, <1>3
  <2> HIDE DEF w, x, d, ambient
  <2>4. /\ Quotient(w * x, d) \in Int
        /\ w >= 0 => Quotient(w * x, d) >= 0
        /\ w <= 0 => Quotient(w * x, d) >= w
    BY <2>2, <2>3, FractionBetween
  <2>5. QED
    BY <1>2, <1>3, <2>1, <2>3, <2>4
<1>7. CASE \/ ft = "key"
           \/ /\ ~(r.buffer_level > r.optimal_buffer_level)
              /\ r.buffer_level <= critical \/ critical = 0
  <2>1. ActiveWorst(ft, r, base) \in {r.worst_quality, worst}
    BY <1>7 DEF ActiveWorst
  <2> HIDE DEF worst
  <2>2. QED
    BY <1>3, <1>4, <2>1
<1>8. QED
  BY <1>5, <1>6, <1>7

\* The first index that reaches a quantizer is one of the range.
LEMMA IndexReachingInt ==
  ASSUME NEW r \in RateControl, NEW step
  PROVE  IndexReaching(r, step) \in Int
<1> DEFINE reaching == {q \in r.best_quality .. r.worst_quality - 1 : AcQLookup[q] >= step}
<1>1. r.best_quality \in Nat /\ r.worst_quality \in Nat
  BY IndicesNat
<1>2. CASE reaching # {}
  <2>1. reaching \in SUBSET Nat /\ \A q \in reaching : q \in Int
    BY <1>1
  <2>2. IndexReaching(r, step) = CHOOSE q \in reaching : \A p \in reaching : q <= p
    BY <1>2 DEF IndexReaching
  <2> HIDE DEF reaching
  <2>3. \E m \in reaching : \A p \in reaching : m <= p
    BY <1>2, <2>1, LeastElement
  <2>4. IndexReaching(r, step) \in reaching
    BY <2>2, <2>3
  <2>5. QED
    BY <2>1, <2>4
<1>3. CASE reaching = {}
  BY <1>1, <1>3 DEF IndexReaching
<1>4. QED
  BY <1>2, <1>3

LEMMA BestInt ==
  ASSUME NEW r \in RateControl, NEW size, NEW limit \in Nat
  PROVE  KeyBest(r, size) \in Int /\ InterBest(r, limit) \in Int
<1>1. KfMinQ[r.avg_frame_qindex["key"]] \in Int
  <2>1. KfMinQ[r.avg_frame_qindex["key"]] \in 0 .. MaxQ
    BY IndicesNat, TableAssumption
  <2>2. QED
    BY <2>1, IndicesNat
<1>2. r.best_quality \in Int /\ \A step : IndexReaching(r, step) \in Int
  BY IndicesNat, IndexReachingInt
<1>3. KeyBest(r, size) \in Int
  BY <1>1, <1>2 DEF KeyBest
<1>4. \A ft \in {"inter", "key"} : RtcMinQ[Least(r.avg_frame_qindex[ft], limit)] \in Int
  <2> TAKE ft \in {"inter", "key"}
  <2>1. r.avg_frame_qindex[ft] \in 0 .. MaxQ /\ MaxQ \in Nat
    BY IndicesNat
  <2>2. Least(r.avg_frame_qindex[ft], limit) \in 0 .. MaxQ
    BY <2>1 DEF Least
  <2>3. RtcMinQ[Least(r.avg_frame_qindex[ft], limit)] \in 0 .. MaxQ
    BY <2>2, TableAssumption
  <2>4. QED
    BY <2>1, <2>3
<1>5. QED
  BY <1>3, <1>4 DEF InterBest

\* The search stays in the range it is given, whatever the frame costs.
LEMMA NearestQInRange ==
  ASSUME NEW ft, NEW target, NEW rcf, NEW best \in Nat, NEW worst \in Nat, best <= worst
  PROVE  NearestQ(ft, target, best, worst, rcf) \in best .. worst
<1> DEFINE fits == {q \in best .. worst : BitsAt(ft, q, rcf) <= target}
           first == CHOOSE q \in fits : \A p \in fits : q <= p
<1>1. CASE fits = {}
  BY <1>1 DEF NearestQ
<1>2. CASE fits # {}
  <2>1. fits \in SUBSET Nat
    OBVIOUS
  <2>2. \E m \in fits : \A p \in fits : m <= p
    <3> HIDE DEF fits
    <3>1. QED
      BY <1>2, <2>1, LeastElement
  <2>3. first \in best .. worst
    BY <2>2
  <2>4. NearestQ(ft, target, best, worst, rcf) \in {first} \cup
          (IF first = best THEN {} ELSE {first - 1})
    BY <1>2 DEF NearestQ
  <2> HIDE DEF first
  <2>5. QED
    BY <2>3, <2>4
<1>3. QED
  BY <1>1, <1>2

LEMMA DampedInt ==
  ASSUME NEW r \in RateControl, NEW q \in Int
  PROVE  Damped(r, q) \in Int
<1> DEFINE between == Clamp(q, Least(r.q_1_frame, r.q_2_frame),
                               Greatest(r.q_1_frame, r.q_2_frame))
<1>1. r.q_1_frame \in Int /\ r.q_2_frame \in Int
  BY IndicesNat
<1>2. between \in Int
  BY <1>1 DEF Clamp, Least, Greatest
<1> HIDE DEF between
<1>3. (q + between) \div 2 \in Int
  BY <1>2
<1>4. Damped(r, q) \in {q, between, (q + between) \div 2}
  BY DEF Damped, between
<1>5. QED
  BY <1>2, <1>3, <1>4

\* The index of a frame lies in the range of the state it is computed from.
LEMMA PickQInRange ==
  ASSUME NEW r \in RateControl, NEW base \in Bases, NEW ft \in FrameTypes,
         NEW size, NEW mbs, NEW target,
         r.best_quality <= r.worst_quality, r.buffer_level <= r.maximum_buffer_size
  PROVE  PickQ(ft, r, base, size, mbs, target) \in r.best_quality .. r.worst_quality
<1> DEFINE limit == ActiveWorst(ft, r, base)
           finest == IF ft = "key" THEN KeyBest(r, size) ELSE InterBest(r, limit)
           best  == Clamp(finest, r.best_quality, r.worst_quality)
           worst == Clamp(limit, best, r.worst_quality)
           near  == NearestQ(ft, Scaled(target, 512, mbs), best, worst,
                             CorrectionFactor(r, ft))
           q     == AdjustQ(r, near)
<1>1. r.best_quality \in Nat /\ r.worst_quality \in Nat
  BY IndicesNat
<1>2. limit \in Nat
  BY ActiveWorstNat
<1>3. finest \in Int
  <2> HIDE DEF limit
  <2>1. QED
    BY <1>2, BestInt
<1>4. best \in r.best_quality .. r.worst_quality
  <2> HIDE DEF finest
  <2>1. QED
    BY <1>1, <1>3 DEF Clamp
<1>5. worst \in best .. r.worst_quality
  <2> HIDE DEF limit, best
  <2>1. QED
    BY <1>1, <1>2, <1>4 DEF Clamp
<1>6. near \in best .. worst
  <2> HIDE DEF limit, best, worst
  <2>1. best \in Nat /\ worst \in Nat /\ best <= worst
    BY <1>1, <1>4, <1>5
  <2>2. QED
    BY <2>1, NearestQInRange
<1>7. near \in Int
  <2> HIDE DEF best, worst, near
  <2>1. QED
    BY <1>6
<1>8. q \in r.best_quality .. r.worst_quality
  <2> HIDE DEF near
  <2>1. Damped(r, near) \in Int
    BY <1>7, DampedInt
  <2>2. QED
    BY <1>1, <2>1 DEF AdjustQ, Least, Greatest
<1>9. PickQ(ft, r, base, size, mbs, target) \in {q, worst}
  BY DEF PickQ
<1> HIDE DEF limit, best, worst, near, q
<1>10. QED
  BY <1>1, <1>4, <1>5, <1>8, <1>9

-----------------------------------------------------------------------------
(* The start of a frame. *)

LEMMA PairTyped ==
  ASSUME NEW a, NEW b, NEW p, p = <<a, b>>
  PROVE  p[1] = a /\ p[2] = b
  OBVIOUS

\* The size of a frame, where it is defined.
LEMMA FrameSizeNat ==
  ASSUME oxcf \in Config, width \in Nat, height \in Nat, NEW s \in SpatialIds,
         oxcf.ss_number_layers > 1 => oxcf.scaling_factor_den[s] # 0
  PROVE  /\ FrameSize(s)[1] \in Nat /\ FrameSize(s)[2] \in Nat
         /\ \A x \in Nat : Blocks(x) \in Nat
<1> DEFINE num == oxcf.scaling_factor_num[s]
           den == oxcf.scaling_factor_den[s]
           scale(x) == LET y == (x * num) \div den IN y + (y % 2)
<1>1. num \in Nat /\ den \in Nat /\ oxcf.width \in Nat /\ oxcf.height \in Nat
  BY ConfigTyped
<1>2. ASSUME oxcf.ss_number_layers > 1, NEW x \in Nat PROVE scale(x) \in Nat
  <2>1. den \in Nat \ {0}
    BY <1>1, <1>2
  <2> HIDE DEF num, den
  <2>2. x * num \in Nat
    BY <1>1, ProductNat
  <2>3. (x * num) \div den \in Nat
    BY <2>1, <2>2, DivNat
  <2>4. \A y \in Nat : y + (y % 2) \in Nat
    OBVIOUS
  <2>5. QED
    BY <2>3, <2>4
<1>3. \A x \in Nat : Blocks(x) \in Nat
  BY DEF Blocks
<1>4. CASE oxcf.ss_number_layers > 1
  <2>1. FrameSize(s) = <<scale(oxcf.width), scale(oxcf.height)>>
    BY <1>4 DEF FrameSize
  <2>2. scale(oxcf.width) \in Nat /\ scale(oxcf.height) \in Nat
    BY <1>1, <1>2, <1>4
  <2> HIDE DEF scale
  <2>3. FrameSize(s)[1] = scale(oxcf.width) /\ FrameSize(s)[2] = scale(oxcf.height)
    BY <2>1, PairTyped
  <2>4. QED
    BY <1>3, <2>2, <2>3
<1>5. CASE ~(oxcf.ss_number_layers > 1)
  <2>1. FrameSize(s) = <<width, height>>
    BY <1>5 DEF FrameSize
  <2>2. FrameSize(s)[1] = width /\ FrameSize(s)[2] = height
    BY <2>1, PairTyped
  <2>3. QED
    BY <1>3, <2>2
<1>6. QED
  BY <1>4, <1>5

\* A layer whose frame starts keeps what was configured for it.
LEMMA StartedContextTyped ==
  ASSUME oxcf \in Config, Usable(oxcf), rc \in RateControl,
         layer_context \in [Indices(oxcf) -> LayerContext],
         NEW s \in 0 .. oxcf.ss_number_layers - 1, NEW t \in 0 .. oxcf.ts_number_layers - 1,
         t > 0 => oxcf.ts_rate_decimator[t] # oxcf.ts_rate_decimator[t - 1]
  PROVE  LET lc == layer_context[Index(oxcf, s, t)]
             x  == StartedContext(s, t)
         IN  /\ x \in LayerContext
             /\ Configured(x.rc) = Configured(lc.rc)
             /\ KeyQuality(x.rc) = KeyQuality(lc.rc)
             /\ x.target_bandwidth = lc.target_bandwidth
             /\ x.decimator = oxcf.ts_rate_decimator[t]
<1> DEFINE l     == Index(oxcf, s, t)
           lc    == layer_context[l]
           dec   == oxcf.ts_rate_decimator[t]
           lower == oxcf.ts_rate_decimator[t - 1]
           avg   == PerFrame(oxcf, lc.target_bandwidth, dec)
           added == (lc.target_bandwidth - LayerBandwidth(oxcf, l - 1)) * dec * lower
           size  == IF t = 0 THEN avg
                    ELSE Quotient(added, Framerate(oxcf) * (lower - dec))
           r     == [lc.rc EXCEPT !.avg_frame_bandwidth = avg,
                                  !.max_frame_bandwidth = rc.max_frame_bandwidth]
<1>1. l \in Indices(oxcf) /\ l \in LayerIds /\ t \in TemporalIds
  BY LayersInArrays
<1>2. lc \in LayerContext /\ lc.rc \in RateControl /\ lc.target_bandwidth \in Nat
  BY <1>1, ContextTyped
<1>3. dec \in Nat
  BY <1>1, ConfigTyped
<1>4. avg \in Nat
  <2> HIDE DEF lc, dec
  <2>1. QED
    BY <1>2, <1>3, PerFrameNat
<1>5. size \in Int
  <2>1. CASE t = 0
    BY <1>4, <2>1
  <2>2. CASE t # 0
    <3>1. t - 1 \in 0 .. oxcf.ts_number_layers - 1
      BY <2>2, ConfigTyped
    <3>2. t - 1 \in TemporalIds
      BY <3>1, LayersInArrays
    <3>3. lower \in Nat /\ lower # dec
      BY <2>2, <3>2, ConfigTyped
    <3>4. l - 1 \in LayerIds
      <4>1. s * oxcf.ts_number_layers \in Nat
        BY ConfigTyped, ProductNat
      <4>2. l >= 1
        BY <2>2, <4>1 DEF Index
      <4> HIDE DEF l
      <4>3. QED
        BY <1>1, <4>2 DEF LayerIds, MaxLayers
    <3>5. LayerBandwidth(oxcf, l - 1) \in Nat
      BY <3>4, LayerSizesTyped
    <3> HIDE DEF lc, l, dec, lower
    <3>6. added \in Int
      BY <1>2, <1>3, <3>3, <3>5
    <3>7. Framerate(oxcf) * (lower - dec) \in Int \ {0}
      BY <1>3, <3>3, SizesTyped
    <3> HIDE DEF added
    <3>8. QED
      BY <2>2, <3>6, <3>7, QuotientInt
  <2>3. QED
    BY <2>1, <2>2
<1>6. StartedContext(s, t) = [lc EXCEPT !.decimator = dec, !.rc = r, !.avg_frame_size = size]
  BY <1>2 DEF StartedContext, LayerContext, RateControl
<1>7. rc.max_frame_bandwidth \in Nat
  BY RcTyped
<1> HIDE DEF lc, dec, avg, size
<1>8. /\ r \in RateControl /\ Configured(r) = Configured(lc.rc)
      /\ KeyQuality(r) = KeyQuality(lc.rc)
  BY <1>2, <1>4, <1>7 DEF RateControl, Configured, KeyQuality
<1> HIDE DEF r
<1>9. /\ StartedContext(s, t) \in LayerContext
      /\ StartedContext(s, t).rc = r /\ StartedContext(s, t).decimator = dec
      /\ StartedContext(s, t).target_bandwidth = lc.target_bandwidth
  BY <1>2, <1>3, <1>5, <1>6, <1>8 DEF LayerContext
<1>10. QED
  BY <1>8, <1>9 DEF lc, dec

\* Crediting keeps what was configured, and leaves the buckets it credits
\* within their sizes.
LEMMA CreditedHold ==
  ASSUME oxcf \in Config, NEW lcs, LayersHold(oxcf, lcs), QualityShared(oxcf, lcs), NEW s, NEW t
  PROVE  /\ LayersHold(oxcf, Credited(lcs, s, t))
         /\ QualityShared(oxcf, Credited(lcs, s, t))
         /\ \A l \in Indices(oxcf) :
              /\ Credited(lcs, s, t)[l].rc.bits_off_target \in Int
              /\ KeyQuality(Credited(lcs, s, t)[l].rc) = KeyQuality(lcs[l].rc)
         /\ \A l \in Indices(oxcf) \cap FromTemporal(oxcf, s, t) :
              Credited(lcs, s, t)[l].rc.bits_off_target <= lcs[l].rc.maximum_buffer_size
<1> DEFINE after == Credited(lcs, s, t)
           bits(l) == Least(lcs[l].rc.bits_off_target
                            + PerFrame(oxcf, lcs[l].target_bandwidth, lcs[l].decimator),
                            lcs[l].rc.maximum_buffer_size)
           credited(l) == [lcs[l] EXCEPT !.rc = Level(@, bits(l))]
<1>1. lcs \in [Indices(oxcf) -> LayerContext] /\ DOMAIN lcs = Indices(oxcf)
  BY DEF LayersHold
<1>2. \A l \in Indices(oxcf) :
        /\ lcs[l] \in LayerContext /\ lcs[l].rc \in RateControl
        /\ lcs[l].rc.bits_off_target \in Int
  BY <1>1, ContextTyped, RcTyped
<1>3. ASSUME NEW l \in Indices(oxcf)
      PROVE  bits(l) \in Int /\ bits(l) <= lcs[l].rc.maximum_buffer_size
  <2>1. /\ lcs[l].rc.bits_off_target \in Int /\ lcs[l].rc.maximum_buffer_size \in Int
        /\ lcs[l].target_bandwidth \in Nat /\ lcs[l].decimator \in Nat
    BY <1>2, ContextTyped, RcTyped
  <2>2. PerFrame(oxcf, lcs[l].target_bandwidth, lcs[l].decimator) \in Nat
    BY <2>1, PerFrameNat
  <2>3. QED
    BY <2>1, <2>2 DEF Least
<1>4. /\ DOMAIN after = Indices(oxcf) /\ after = [l \in Indices(oxcf) |-> after[l]]
      /\ \A l \in Indices(oxcf) :
           after[l] = IF l \in FromTemporal(oxcf, s, t) THEN credited(l) ELSE lcs[l]
  BY <1>1 DEF Credited, LayerContext
<1> HIDE DEF bits
<1>5. ASSUME NEW l \in Indices(oxcf)
      PROVE  /\ credited(l) \in LayerContext
             /\ Configured(credited(l).rc) = Configured(lcs[l].rc)
             /\ KeyQuality(credited(l).rc) = KeyQuality(lcs[l].rc)
             /\ credited(l).target_bandwidth = lcs[l].target_bandwidth
             /\ credited(l).rc.bits_off_target = bits(l)
  <2>1. /\ Level(lcs[l].rc, bits(l)) \in RateControl
        /\ Configured(Level(lcs[l].rc, bits(l))) = Configured(lcs[l].rc)
        /\ KeyQuality(Level(lcs[l].rc, bits(l))) = KeyQuality(lcs[l].rc)
    BY <1>2, <1>3, LevelKeeps
  <2>2. Level(lcs[l].rc, bits(l)).bits_off_target = bits(l)
    BY <1>2 DEF Level, RateControl
  <2>3. QED
    BY <1>2, <2>1, <2>2 DEF LayerContext
<1> HIDE DEF after, credited
<1>6. \A l \in Indices(oxcf) :
        /\ after[l] \in LayerContext
        /\ Configured(after[l].rc) = Configured(lcs[l].rc)
        /\ KeyQuality(after[l].rc) = KeyQuality(lcs[l].rc)
        /\ after[l].target_bandwidth = lcs[l].target_bandwidth
        /\ after[l].rc.bits_off_target \in Int
  BY <1>2, <1>3, <1>4, <1>5
<1>7. LayersHold(oxcf, after)
  BY <1>4, <1>6 DEF LayersHold
<1>8. QualityShared(oxcf, after)
  BY <1>6 DEF QualityShared
<1>9. \A l \in Indices(oxcf) \cap FromTemporal(oxcf, s, t) :
        after[l].rc.bits_off_target <= lcs[l].rc.maximum_buffer_size
  BY <1>3, <1>4, <1>5
<1>10. QED
  BY <1>6, <1>7, <1>8, <1>9 DEF after

LEMMA StartFrameTyped ==
  ASSUME oxcf \in Config, rc \in RateControl, NEW ft \in FrameTypes, StartFrame(ft)
  PROVE  /\ rc' \in RateControl /\ Configured(rc') = Configured(rc)
         /\ rc'.buffer_level <= rc'.maximum_buffer_size /\ rc'.this_frame_target \in Nat
<1> DEFINE target == IF ft = "key" THEN KeyTarget(oxcf, rc, 1)
                     ELSE InterTarget(oxcf, rc, rc.avg_frame_bandwidth)
           bits == Least(rc.bits_off_target + rc.avg_frame_bandwidth, rc.maximum_buffer_size)
           x == Level(rc, bits)
<1>1. rc' = [x EXCEPT !.this_frame_target = target]
  BY DEF StartFrame
<1>2. target \in Nat
  BY RcTyped, KeyTargetNat, InterTargetNat
<1>3. bits \in Int /\ bits <= rc.maximum_buffer_size
  BY RcTyped DEF Least
<1> HIDE DEF target, bits
<1>4. /\ x \in RateControl /\ Configured(x) = Configured(rc) /\ x.buffer_level = bits
  BY <1>3, LevelKeeps
<1>5. x.maximum_buffer_size = rc.maximum_buffer_size
  BY <1>4 DEF Configured
<1> HIDE DEF x
<1>6. QED
  BY <1>1, <1>2, <1>3, <1>4, <1>5 DEF RateControl, Configured

LEMMA StartLayerFrameTyped ==
  ASSUME oxcf \in Config, Usable(oxcf), rc \in RateControl, current_video_frame \in Nat,
         LayersHold(oxcf, layer_context), QualityShared(oxcf, layer_context),
         NEW ft \in FrameTypes,
         NEW s \in 0 .. oxcf.ss_number_layers - 1, NEW t \in 0 .. oxcf.ts_number_layers - 1,
         ~Undefined(ft, s, t), StartLayerFrame(ft, s, t)
  PROVE  LET l == Index(oxcf, s, t) IN
         /\ rc' \in RateControl /\ Configured(rc') = LayerShare(oxcf, l)
         /\ rc'.buffer_level <= rc'.maximum_buffer_size /\ rc'.this_frame_target \in Nat
         /\ LayersHold(oxcf, layer_context') /\ QualityShared(oxcf, layer_context')
         /\ KeyQuality(rc') = KeyQuality(layer_context'[l].rc)
         /\ target_bandwidth' = LayerBandwidth(oxcf, l)
<1> DEFINE l      == Index(oxcf, s, t)
           start  == StartedContext(s, t)
           lc     == [start EXCEPT !.is_key_frame = StartsKey(ft, s, t)]
           lcs    == [layer_context EXCEPT ![l] = lc]
           r      == [lc.rc EXCEPT !.frames_since_key = rc.frames_since_key]
           target == IF ft = "key"
                     THEN KeyTarget(oxcf, r, IF oxcf.ts_number_layers > 1
                                             THEN lc.decimator ELSE 1)
                     ELSE InterTarget(oxcf, r, lc.avg_frame_size)
           bits   == layer_context'[l].rc.bits_off_target
<1>1. /\ target_bandwidth' = lc.target_bandwidth /\ layer_context' = Credited(lcs, s, t)
      /\ rc' = [Level(r, bits) EXCEPT !.this_frame_target = target]
  BY DEF StartLayerFrame
<1>2. l \in Indices(oxcf) /\ layer_context \in [Indices(oxcf) -> LayerContext]
      /\ Configured(layer_context[l].rc) = LayerShare(oxcf, l)
      /\ layer_context[l].target_bandwidth = LayerBandwidth(oxcf, l)
  BY LayersInArrays DEF LayersHold
<1>3. t > 0 => oxcf.ts_rate_decimator[t] # oxcf.ts_rate_decimator[t - 1]
  BY DEF Undefined
<1>4. /\ start \in LayerContext /\ Configured(start.rc) = LayerShare(oxcf, l)
      /\ KeyQuality(start.rc) = KeyQuality(layer_context[l].rc)
      /\ start.target_bandwidth = LayerBandwidth(oxcf, l)
      /\ start.decimator = oxcf.ts_rate_decimator[t]
  BY <1>2, <1>3, StartedContextTyped
<1>5. StartsKey(ft, s, t) \in BOOLEAN
  BY DEF StartsKey
<1>6. /\ lc \in LayerContext /\ lc.rc = start.rc /\ lc.rc \in RateControl
      /\ lc.target_bandwidth = LayerBandwidth(oxcf, l)
      /\ lc.decimator = oxcf.ts_rate_decimator[t] /\ lc.avg_frame_size \in Int
  <2> HIDE DEF start
  <2>1. QED
    BY <1>4, <1>5 DEF LayerContext
<1> HIDE DEF start, lc
<1>7. lcs \in [Indices(oxcf) -> LayerContext] /\ lcs[l] = lc
      /\ \A m \in Indices(oxcf) \ {l} : lcs[m] = layer_context[m]
  BY <1>2, <1>6
<1> HIDE DEF lcs
<1>8. LayersHold(oxcf, lcs) /\ QualityShared(oxcf, lcs)
  <2>1. \A m \in Indices(oxcf) :
          /\ Configured(lcs[m].rc) = Configured(layer_context[m].rc)
          /\ KeyQuality(lcs[m].rc) = KeyQuality(layer_context[m].rc)
          /\ lcs[m].target_bandwidth = layer_context[m].target_bandwidth
    BY <1>2, <1>4, <1>6, <1>7
  <2>2. QED
    BY <1>7, <2>1 DEF LayersHold, QualityShared
<1>9. l \in FromTemporal(oxcf, s, t)
  <2>1. t \in t .. oxcf.ts_number_layers - 1
    BY ConfigTyped
  <2>2. QED
    BY <2>1 DEF FromTemporal
<1>10. /\ LayersHold(oxcf, layer_context') /\ QualityShared(oxcf, layer_context')
       /\ bits \in Int /\ bits <= lc.rc.maximum_buffer_size
       /\ KeyQuality(layer_context'[l].rc) = KeyQuality(lc.rc)
  BY <1>1, <1>2, <1>7, <1>8, <1>9, CreditedHold
<1>11. /\ r \in RateControl /\ Configured(r) = Configured(lc.rc)
       /\ KeyQuality(r) = KeyQuality(lc.rc)
  <2>1. rc.frames_since_key \in Nat
    BY RcTyped
  <2>2. QED
    BY <1>6, <2>1 DEF RateControl, Configured, KeyQuality
<1> HIDE DEF r
<1>12. target \in Nat
  <2>1. CASE ft = "key"
    <3> DEFINE dec == IF oxcf.ts_number_layers > 1 THEN lc.decimator ELSE 1
    <3>1. dec \in Nat
      BY <1>6, ContextTyped
    <3>2. current_video_frame # 0 => dec # 0
      BY <1>6, <2>1 DEF Undefined
    <3> HIDE DEF dec
    <3>3. KeyTarget(oxcf, r, dec) \in Nat
      BY <1>11, <3>1, <3>2, KeyTargetNat
    <3>4. QED
      BY <2>1, <3>3 DEF dec
  <2>2. CASE ft # "key"
    BY <1>6, <1>11, <2>2, InterTargetNat
  <2>3. QED
    BY <2>1, <2>2
<1> HIDE DEF target, bits
<1>13. /\ Level(r, bits) \in RateControl /\ Configured(Level(r, bits)) = Configured(r)
       /\ KeyQuality(Level(r, bits)) = KeyQuality(r) /\ Level(r, bits).buffer_level = bits
  BY <1>10, <1>11, LevelKeeps
<1>14. /\ rc' \in RateControl /\ Configured(rc') = Configured(r) /\ KeyQuality(rc') = KeyQuality(r)
       /\ rc'.buffer_level = bits /\ rc'.this_frame_target = target
  BY <1>1, <1>12, <1>13 DEF RateControl, Configured, KeyQuality
<1>15. Configured(r) = LayerShare(oxcf, l)
  BY <1>4, <1>6, <1>11
<1>16. rc'.maximum_buffer_size = lc.rc.maximum_buffer_size
  BY <1>11, <1>14 DEF Configured
<1>17. QED
  BY <1>1, <1>6, <1>10, <1>11, <1>12, <1>14, <1>15, <1>16

-----------------------------------------------------------------------------
(* The feedback of a coded frame. *)

LEMMA DampingNat ==
  ASSUME NEW factor \in Nat
  PROVE  Damping(factor) \in Nat
<1> DEFINE far == {d \in Decade : factor >= d \/ factor * d <= 10000}
           low  == 0
           high == 1000
<1>1. far \subseteq low .. high /\ low \in Int /\ high \in Int
  BY DEF Decade
<1>2. Damping(factor) = 25 + 5 * Cardinality(far)
  BY DEF Damping
<1> HIDE DEF far, low, high
<1>3. IsFiniteSet(far)
  BY <1>1, FS_Interval, FS_Subset
<1>4. Cardinality(far) \in Nat
  BY <1>3, FS_CardinalityType
<1>5. QED
  BY <1>2, <1>4

LEMMA BitsAtNat ==
  ASSUME NEW ft \in FrameTypes, NEW q \in 0 .. MaxQ, NEW rcf \in Nat
  PROVE  BitsAt(ft, q, rcf) \in Nat
<1> DEFINE enumerator == IF ft = "key" THEN 2700000 ELSE 1800000
           ac == AcQLookup[q]
           adjusted == enumerator + ((enumerator \div 4) * ac) \div 4096
<1>1. BitsPerMb[ft][q] = (4 * adjusted) \div ac
  BY DEF BitsPerMb
<1>2. ac \in Nat \ {0}
  BY TableAssumption
<1>3. enumerator \in Nat /\ enumerator \div 4 \in Nat
  OBVIOUS
<1> HIDE DEF enumerator, ac
<1>4. (enumerator \div 4) * ac \in Nat
  BY <1>2, <1>3, ProductNat
<1>5. 4 * adjusted \in Nat
  BY <1>3, <1>4
<1> HIDE DEF adjusted
<1>6. BitsPerMb[ft][q] \in Nat
  BY <1>1, <1>2, <1>5, DivNat
<1>7. RcfOne \in Nat \ {0}
  BY ParameterAssumption
<1>8. Scaled(BitsPerMb[ft][q], rcf, RcfOne) \in Nat
  BY <1>6, <1>7, ScaledNat
<1>9. QED
  BY <1>8 DEF BitsAt

LEMMA SizePctNat ==
  ASSUME NEW ft \in FrameTypes, NEW q \in 0 .. MaxQ, NEW mbs \in Nat, NEW rcf \in Nat,
         NEW bits \in Nat
  PROVE  SizePct(bits, EstimatedBits(ft, q, mbs, rcf)) \in Nat
<1> DEFINE estimate == EstimatedBits(ft, q, mbs, rcf)
<1>1. BitsAt(ft, q, rcf) \in Nat
  BY BitsAtNat
<1>2. estimate \in Nat
  <2>1. Scaled(BitsAt(ft, q, rcf), mbs, 512) \in Nat
    BY <1>1, ScaledNat
  <2>2. QED
    BY <2>1 DEF EstimatedBits, Greatest, FrameOverheadBits
<1> HIDE DEF estimate
<1>3. estimate > FrameOverheadBits => (100 * bits) \div estimate \in Nat
  BY <1>2, DivNat DEF FrameOverheadBits
<1>4. SizePct(bits, estimate) \in Nat
  BY <1>3 DEF SizePct
<1>5. QED
  BY <1>4 DEF estimate

LEMMA CorrectionPctInt ==
  ASSUME NEW r \in RateControl, NEW pct \in Nat
  PROVE  CorrectionPct(r, pct) \in Int
<1> DEFINE damping == IF r.damped_adjustment THEN Damping(pct) ELSE 100
<1>1. damping \in Nat
  BY DampingNat
<1> HIDE DEF damping
<1>2. (pct - 100) * damping \in Int /\ (100 - pct) * damping \in Int
  BY <1>1
<1>3. /\ ((pct - 100) * damping) \div 100 \in Int
      /\ (10000 - (100 - pct) * damping) \div 100 \in Int
  BY <1>2, DivBounds
<1>4. QED
  BY <1>3 DEF CorrectionPct, damping

LEMMA CorrectedKeeps ==
  ASSUME NEW r \in RateControl, NEW ft \in FrameTypes, NEW bits \in Nat,
         base_qindex \in 0 .. MaxQ, MBs \in Nat
  PROVE  /\ Corrected(r, ft, bits) \in RateControl
         /\ Configured(Corrected(r, ft, bits)) = Configured(r)
         /\ KeyQuality(Corrected(r, ft, bits)) = KeyQuality(r)
<1> DEFINE factor == CorrectionFactor(r, ft)
           pct == SizePct(bits, EstimatedBits(ft, base_qindex, MBs, factor))
           now == IF pct > 110 THEN -1 ELSE IF pct < 90 THEN 1 ELSE 0
           older == IF now = -1 /\ r.rc_1_frame = 1 /\ pct > 1000 THEN 0 ELSE r.rc_1_frame
           after == Clamp((factor * CorrectionPct(r, pct)) \div 100, RcfMin, RcfMax)
           factors == [r.rate_correction_factors EXCEPT ![ft] = after]
<1>1. factor \in Nat
  <2>1. r.rate_correction_factors[ft] \in 0 .. RcfMax
    BY RcTyped
  <2>2. QED
    BY <2>1, ParameterAssumption DEF CorrectionFactor, Clamp
<1>2. pct \in Nat
  <2> HIDE DEF factor
  <2>1. QED
    BY <1>1, SizePctNat
<1>3. after \in 0 .. RcfMax
  <2> HIDE DEF factor, pct
  <2>1. factor * CorrectionPct(r, pct) \in Int
    BY <1>1, <1>2, CorrectionPctInt
  <2>2. (factor * CorrectionPct(r, pct)) \div 100 \in Int
    BY <2>1, DivBounds
  <2>3. QED
    BY <2>2, ParameterAssumption DEF Clamp
<1>4. now \in -1 .. 1 /\ older \in -1 .. 1
  <2>1. r.rc_1_frame \in -1 .. 1
    BY RcTyped
  <2> HIDE DEF pct
  <2>2. now \in -1 .. 1
    OBVIOUS
  <2>3. QED
    BY <2>1, <2>2
<1>5. factors \in [FrameTypes -> 0 .. RcfMax]
  <2> HIDE DEF after
  <2>1. QED
    BY <1>3, RcTyped
<1>6. r.q_1_frame \in 0 .. MaxQ
  BY RcTyped
<1>7. Corrected(r, ft, bits) =
        [r EXCEPT !.rate_correction_factors = factors, !.damped_adjustment = TRUE,
                  !.q_2_frame = r.q_1_frame, !.q_1_frame = base_qindex,
                  !.rc_2_frame = older, !.rc_1_frame = now]
  BY DEF Corrected, RateControl
<1> DEFINE x == [r EXCEPT !.rate_correction_factors = factors, !.damped_adjustment = TRUE]
           y == [x EXCEPT !.q_2_frame = r.q_1_frame, !.q_1_frame = base_qindex]
           z == [y EXCEPT !.rc_2_frame = older, !.rc_1_frame = now]
<1> HIDE DEF factors, older, now
<1>8. /\ x \in RateControl /\ Configured(x) = Configured(r) /\ KeyQuality(x) = KeyQuality(r)
  BY <1>5 DEF RateControl, Configured, KeyQuality
<1>9. /\ y \in RateControl /\ Configured(y) = Configured(x) /\ KeyQuality(y) = KeyQuality(x)
  <2> HIDE DEF x
  <2>1. QED
    BY <1>6, <1>8 DEF RateControl, Configured, KeyQuality
<1>10. /\ z \in RateControl /\ Configured(z) = Configured(y) /\ KeyQuality(z) = KeyQuality(y)
  <2> HIDE DEF y
  <2>1. QED
    BY <1>4, <1>9 DEF RateControl, Configured, KeyQuality
<1>11. Corrected(r, ft, bits) = z
  BY <1>7 DEF RateControl
<1>12. QED
  BY <1>8, <1>9, <1>10, <1>11

\* The averages stay indices, and only a key frame moves that of key frames.
LEMMA AverageAfterTyped ==
  ASSUME rc \in RateControl, base_qindex \in 0 .. MaxQ, frame_type \in FrameTypes, NEW bits
  PROVE  /\ AverageAfter(bits) \in [FrameTypes -> 0 .. MaxQ]
         /\ frame_type # "key" => AverageAfter(bits)["key"] = rc.avg_frame_qindex["key"]
<1> DEFINE average == [rc.avg_frame_qindex EXCEPT ![frame_type] = Average(@, base_qindex)]
           middle == (base_qindex + rc.worst_quality) \div 2
<1>1. /\ rc.avg_frame_qindex \in [FrameTypes -> 0 .. MaxQ] /\ rc.worst_quality \in 0 .. MaxQ
      /\ MaxQ \in Nat
  BY RcTyped, IndicesNat
<1>2. \A old \in 0 .. MaxQ, new \in 0 .. MaxQ : Average(old, new) \in 0 .. MaxQ
  BY <1>1 DEF Average
<1>3. average \in [FrameTypes -> 0 .. MaxQ]
  BY <1>1, <1>2
<1>4. frame_type # "key" => average["key"] = rc.avg_frame_qindex["key"]
  BY <1>1 DEF FrameTypes
<1>5. middle \in 0 .. MaxQ
  BY <1>1
<1> HIDE DEF average, middle
<1>6. Greatest(average["inter"], middle) \in 0 .. MaxQ
  <2>1. average["inter"] \in 0 .. MaxQ
    BY <1>3 DEF FrameTypes
  <2>2. QED
    BY <1>5, <2>1 DEF Greatest
<1>7. AverageAfter(bits) = IF KeyOvershot(bits)
                           THEN [average EXCEPT !["inter"] = Greatest(@, middle)]
                           ELSE average
  BY DEF AverageAfter, average, middle
<1>8. KeyOvershot(bits) => frame_type = "key"
  BY DEF KeyOvershot
<1>9. QED
  BY <1>3, <1>4, <1>6, <1>7, <1>8

\* What the coded frame leaves in the state of the stream.
LEMMA ChargedRcTyped ==
  ASSUME rc \in RateControl, base_qindex \in 0 .. MaxQ, frame_type \in FrameTypes,
         MBs \in Nat, NEW bits \in Nat
  PROVE  /\ ChargedRc(bits) \in RateControl
         /\ Configured(ChargedRc(bits)) = Configured(rc)
         /\ KeyQuality(ChargedRc(bits)) = IF frame_type = "key"
                                          THEN <<base_qindex, AverageAfter(bits)["key"]>>
                                          ELSE KeyQuality(rc)
<1> DEFINE x == Corrected(rc, frame_type, bits)
           y == Drained(x, bits)
           average == AverageAfter(bits)
           last == IF frame_type = "key" THEN base_qindex ELSE y.last_key_q
           since == IF frame_type = "key" THEN 1 ELSE y.frames_since_key + 1
<1>1. /\ x \in RateControl /\ Configured(x) = Configured(rc) /\ KeyQuality(x) = KeyQuality(rc)
  BY CorrectedKeeps
<1>2. /\ y \in RateControl /\ Configured(y) = Configured(x) /\ KeyQuality(y) = KeyQuality(x)
  <2> HIDE DEF x
  <2>1. QED
    BY <1>1, DrainedKeeps
<1>3. /\ average \in [FrameTypes -> 0 .. MaxQ]
      /\ frame_type # "key" => average["key"] = rc.avg_frame_qindex["key"]
  BY AverageAfterTyped
<1>4. ChargedRc(bits) =
        [y EXCEPT !.avg_frame_qindex = average, !.last_key_q = last,
                  !.frames_since_key = since,
                  !.last_avg_frame_bandwidth = rc.avg_frame_bandwidth]
  BY <1>2 DEF ChargedRc, RateControl
<1> HIDE DEF y
<1>5. /\ last \in 0 .. MaxQ /\ since \in Nat /\ rc.avg_frame_bandwidth \in Nat
      /\ frame_type # "key" => last = rc.last_key_q
  <2>1. y.last_key_q \in 0 .. MaxQ /\ y.frames_since_key \in Nat
        /\ y.last_key_q = rc.last_key_q
    BY <1>1, <1>2, RcTyped DEF KeyQuality
  <2>2. QED
    BY <2>1, RcTyped
<1>6. frame_type = "key" => last = base_qindex
  OBVIOUS
<1> DEFINE z == [y EXCEPT !.avg_frame_qindex = average, !.last_key_q = last]
           w == [z EXCEPT !.frames_since_key = since,
                          !.last_avg_frame_bandwidth = rc.avg_frame_bandwidth]
<1> HIDE DEF x, average, last, since
<1>7. /\ ChargedRc(bits) \in RateControl
      /\ Configured(ChargedRc(bits)) = Configured(y)
      /\ KeyQuality(ChargedRc(bits)) = <<last, average["key"]>>
  <2>1. /\ z \in RateControl /\ Configured(z) = Configured(y)
        /\ KeyQuality(z) = <<last, average["key"]>>
    BY <1>2, <1>3, <1>5 DEF RateControl, Configured, KeyQuality
  <2>2. /\ w \in RateControl /\ Configured(w) = Configured(z)
        /\ KeyQuality(w) = KeyQuality(z)
    <3> HIDE DEF z
    <3>1. QED
      BY <1>5, <2>1 DEF RateControl, Configured, KeyQuality
  <2>3. ChargedRc(bits) = w
    BY <1>2, <1>4 DEF RateControl
  <2>4. QED
    BY <2>1, <2>2, <2>3
<1>8. <<last, average["key"]>> = IF frame_type = "key"
                                 THEN <<base_qindex, average["key"]>> ELSE KeyQuality(rc)
  BY <1>3, <1>5, <1>6 DEF KeyQuality
<1>9. QED
  BY <1>1, <1>2, <1>7, <1>8 DEF average

\* What it leaves in the context of another layer.
LEMMA TouchedTyped ==
  ASSUME rc \in RateControl, base_qindex \in 0 .. MaxQ, frame_type \in FrameTypes,
         NEW lc \in LayerContext, NEW l, NEW bits \in Nat
  PROVE  /\ Touched(lc, l, bits) \in LayerContext
         /\ Configured(Touched(lc, l, bits).rc) = Configured(lc.rc)
         /\ Touched(lc, l, bits).target_bandwidth = lc.target_bandwidth
         /\ KeyQuality(Touched(lc, l, bits).rc)
              = IF frame_type = "key" /\ SpatialOf(oxcf, l) = spatial_layer_id
                THEN <<base_qindex, AverageAfter(bits)["key"]>> ELSE KeyQuality(lc.rc)
<1> DEFINE same == SpatialOf(oxcf, l) = spatial_layer_id
           average == AverageAfter(bits)
           marked == [lc.rc EXCEPT !.last_key_q = base_qindex,
                                   !.avg_frame_qindex["key"] = average["key"]]
           keyed == IF frame_type = "key" /\ same THEN marked ELSE lc.rc
           eased == IF KeyOvershot(bits) /\ SpatialOf(oxcf, l) = 0
                    THEN [keyed EXCEPT !.avg_frame_qindex["inter"] = average["inter"]]
                    ELSE keyed
           after == IF same /\ TemporalOf(oxcf, l) > temporal_layer_id
                    THEN Drained(eased, bits) ELSE eased
           quality == IF frame_type = "key" /\ same
                      THEN <<base_qindex, average["key"]>> ELSE KeyQuality(lc.rc)
<1>1. lc.rc \in RateControl
  BY ContextTyped
<1>2. average["key"] \in 0 .. MaxQ /\ average["inter"] \in 0 .. MaxQ
  BY AverageAfterTyped DEF FrameTypes
<1>3. Touched(lc, l, bits) = [lc EXCEPT !.rc = after]
  BY DEF Touched, LayerContext
<1> HIDE DEF same, average
<1>4. /\ marked \in RateControl /\ Configured(marked) = Configured(lc.rc)
      /\ KeyQuality(marked) = <<base_qindex, average["key"]>>
  BY <1>1, <1>2 DEF RateControl, Configured, KeyQuality, FrameTypes
<1>5. /\ keyed \in RateControl /\ Configured(keyed) = Configured(lc.rc)
      /\ KeyQuality(keyed) = quality
  <2> HIDE DEF marked
  <2>1. QED
    BY <1>1, <1>4
<1> HIDE DEF keyed, quality
<1>6. /\ eased \in RateControl /\ Configured(eased) = Configured(keyed)
      /\ KeyQuality(eased) = KeyQuality(keyed)
  BY <1>2, <1>5 DEF RateControl, Configured, KeyQuality, FrameTypes
<1> HIDE DEF eased
<1>7. /\ after \in RateControl /\ Configured(after) = Configured(lc.rc)
      /\ KeyQuality(after) = quality
  BY <1>5, <1>6, DrainedKeeps
<1> HIDE DEF after
<1>8. QED
  BY <1>3, <1>7 DEF LayerContext, quality, same, average

-----------------------------------------------------------------------------
(* An invariant for the documented client. *)

\* The limits of the stream and of every layer are those of the configuration;
\* the state of a layer whose frame is being coded is out in rc, with the key
\* quality its context still has.
RangesHold ==
  phase # "created" =>
    /\ Usable(oxcf)
    /\ ~Layered(oxcf) => Configured(rc) = StreamShare(oxcf)
    /\ Layered(oxcf) =>
         /\ LayersHold(oxcf, layer_context) /\ QualityShared(oxcf, layer_context)
         /\ InFrame => /\ Configured(rc) = LayerShare(oxcf, current_layer)
                       /\ KeyQuality(rc) = KeyQuality(layer_context[current_layer].rc)
                       /\ target_bandwidth = LayerBandwidth(oxcf, current_layer)

\* Until there is an engine no layer was named or coded.
NothingCoded ==
  phase = "created" => spatial_layer_id = 0 /\ temporal_layer_id = 0 /\ coded = {}

ClientInv == TypeOK /\ RangesHold /\ NothingCoded /\ QpInRange

LEMMA InitClientInv == Init => ClientInv
<1> SUFFICES ASSUME Init PROVE ClientInv
  OBVIOUS
<1>1. MaxQ \in Nat
  BY TableAssumption
<1>2. TypeOK
  BY <1>1, BlankTyped DEF Init, TypeOK, FrameTypes, Faults, Phases, MaxLoopFilter
<1>3. RangesHold /\ NothingCoded /\ QpInRange
  BY DEF Init, RangesHold, NothingCoded, QpInRange, InFrame
<1>4. QED
  BY <1>2, <1>3 DEF ClientInv

\* Steps that change only where the client is.
LEMMA UnchangedClientInv ==
  ASSUME ClientInv, UNCHANGED <<phase, engine>>, updates' \in Nat, fault' \in Faults
  PROVE  ClientInv'
<1>1. /\ UNCHANGED <<oxcf, target_bandwidth, rc, layer_context>>
      /\ UNCHANGED <<spatial_layer_id, temporal_layer_id, frame_type, base_qindex, MBs>>
      /\ UNCHANGED <<width, height, current_video_frame, filter_level, coded, phase>>
  BY DEF engine, stream, frame
<1>2. TypeOK'
  BY <1>1 DEF ClientInv, TypeOK
<1>3. RangesHold'
  BY <1>1 DEF ClientInv, RangesHold, InFrame, current_layer
<1>4. QpInRange' /\ NothingCoded'
  BY <1>1 DEF ClientInv, QpInRange, NothingCoded, InFrame
<1>5. QED
  BY <1>2, <1>3, <1>4 DEF ClientInv

LEMMA InitialisedClientInv ==
  ASSUME ClientInv, NEW c \in Configs, RateControlInit(c), phase' = "idle"
  PROVE  ClientInv' /\ Validate(c)
<1> DEFINE d == Copied(c)
           r == StreamRc(BlankRc, c)
           new == [l \in Indices(c) |-> BlankContext]
           initial == [l \in Indices(c) |-> InitialContext(new[l], d, l)]
           lcs == [l \in Indices(c) |-> ReconfiguredContext(initial[l], d, l, r)]
           fresh == [l \in Indices(d) |->
                       ReconfiguredContext(InitialContext(BlankContext, d, l), d, l, r)]
<1>1. /\ Validate(c) /\ ReadsInTable(c)
      /\ rc' = StartedRc(r, c) /\ layer_context' = (IF Layered(c) THEN lcs ELSE new)
      /\ oxcf' = d /\ target_bandwidth' = Bandwidth(c)
      /\ width' = c.width /\ height' = c.height
      /\ MBs' = (c.width * c.height) \div 256
      /\ fault' = fault /\ updates' = updates
      /\ UNCHANGED <<spatial_layer_id, temporal_layer_id, frame_type, base_qindex,
                     current_video_frame, filter_level, coded>>
  <2>1. phase' # phase
    BY DEF RateControlInit
  <2>2. QED
    BY <2>1 DEF RateControlInit
<1>2. c \in Config /\ Usable(c)
  BY <1>1, ConfigUsable, ParameterAssumption
<1>3. /\ d \in Config /\ Usable(d) /\ Indices(d) = Indices(c) /\ (Layered(d) <=> Layered(c))
      /\ d.ss_number_layers = c.ss_number_layers /\ d.ts_number_layers = c.ts_number_layers
      /\ StreamShare(d) = StreamShare(c)
  BY <1>2, CopiedKeeps DEF StreamShare
<1>4. /\ r \in RateControl /\ Configured(r) = StreamShare(c)
  BY <1>2, BlankTyped, StreamRcTyped
<1>5. /\ StartedRc(r, c) \in RateControl /\ Configured(StartedRc(r, c)) = StreamShare(c)
  <2> HIDE DEF r
  <2>1. QED
    BY <1>2, <1>4, StartedRcTyped
<1>6. fresh = lcs
  BY <1>3
<1>7. LayersHold(d, lcs) /\ QualityShared(d, lcs)
  <2> HIDE DEF lcs, r, d
  <2>1. QED
    BY <1>3, <1>4, <1>6, NewContextsHold
<1>8. new \in [Indices(d) -> LayerContext]
  BY <1>3, BlankTyped
<1> HIDE DEF d, r, lcs, new
<1>9. layer_context' \in [Indices(d) -> LayerContext]
  BY <1>1, <1>7, <1>8 DEF LayersHold
<1>10. TypeOK /\ phase = "created" /\ fault = "none"
  BY DEF ClientInv, RateControlInit
<1>11. /\ Bandwidth(c) \in Nat /\ c.width \in Nat /\ c.height \in Nat
       /\ (c.width * c.height) \div 256 \in Nat
  BY <1>2, SizesTyped, ConfigTyped, ProductNat, DivNat
<1>12. /\ 0 \in 0 .. d.ss_number_layers - 1 /\ 0 \in 0 .. d.ts_number_layers - 1
       /\ spatial_layer_id' = 0 /\ temporal_layer_id' = 0 /\ coded' = {}
  <2>1. d.ss_number_layers \in 1 .. 5 /\ d.ts_number_layers \in 1 .. 5
    BY <1>3 DEF Usable, MaxSpatialLayers, MaxTemporalLayers
  <2>2. spatial_layer_id = 0 /\ temporal_layer_id = 0 /\ coded = {}
    BY <1>10 DEF ClientInv, NothingCoded
  <2>3. QED
    BY <1>1, <2>1, <2>2
<1>13. TypeOK'
  <2>1. /\ oxcf' \in Config /\ layer_context' \in [Indices(oxcf') -> LayerContext]
        /\ spatial_layer_id' \in 0 .. oxcf'.ss_number_layers - 1
        /\ temporal_layer_id' \in 0 .. oxcf'.ts_number_layers - 1
        /\ coded' \subseteq Indices(oxcf')
    BY <1>1, <1>3, <1>9, <1>12
  <2>2. rc' \in RateControl
    BY <1>1, <1>5
  <2>3. /\ target_bandwidth' \in Nat /\ MBs' \in Nat /\ width' \in Nat /\ height' \in Nat
        /\ phase' \in Phases
    BY <1>1, <1>11 DEF Phases
  <2>4. /\ updates' \in Nat /\ fault' \in Faults /\ frame_type' \in FrameTypes
        /\ base_qindex' \in 0 .. MaxQ /\ current_video_frame' \in Nat
        /\ filter_level' \in 0 .. MaxLoopFilter
    BY <1>1, <1>10 DEF TypeOK
  <2>5. QED
    BY <2>1, <2>2, <2>3, <2>4 DEF TypeOK
<1>14. RangesHold'
  <2>1. Usable(oxcf') /\ (~Layered(oxcf') => Configured(rc') = StreamShare(oxcf'))
    BY <1>1, <1>3, <1>5
  <2>2. ASSUME Layered(oxcf')
        PROVE  LayersHold(oxcf', layer_context') /\ QualityShared(oxcf', layer_context')
    BY <1>1, <1>3, <1>7, <2>2
  <2>3. ~InFrame'
    BY DEF InFrame
  <2>4. QED
    BY <2>1, <2>2, <2>3 DEF RangesHold
<1>15. NothingCoded' /\ QpInRange'
  BY DEF NothingCoded, QpInRange, InFrame
<1>16. QED
  BY <1>1, <1>13, <1>14, <1>15 DEF ClientInv

LEMMA UpdatedClientInv ==
  ASSUME ClientInv, phase = "idle", NEW c \in Configs, Validate(c), ReadsInTable(c),
         SameLayers(c), Install(Copied(c)), phase' = "idle",
         coded' \in {coded, {}}, updates' \in Nat, fault' = fault,
         UNCHANGED <<spatial_layer_id, temporal_layer_id, frame_type, base_qindex,
                     current_video_frame, filter_level>>
  PROVE  ClientInv'
<1> DEFINE d == Copied(c)
           r == StreamRc(rc, d)
           contexts == UpdatedContexts(d, r)
<1>1. TypeOK /\ RangesHold
  BY DEF ClientInv
<1>2. c \in Config /\ Usable(c)
  BY ConfigUsable, ParameterAssumption
<1>3. /\ d \in Config /\ Usable(d)
      /\ d.ss_number_layers = oxcf.ss_number_layers
      /\ d.ts_number_layers = oxcf.ts_number_layers
  BY <1>2, CopiedKeeps DEF SameLayers
<1>4. /\ Indices(d) = Indices(oxcf) /\ (Layered(d) <=> Layered(oxcf))
      /\ \A l : SpatialOf(d, l) = SpatialOf(oxcf, l)
  BY <1>3 DEF Indices, Layered, SpatialOf
<1>5. rc \in RateControl /\ layer_context \in [Indices(oxcf) -> LayerContext]
  BY <1>1 DEF TypeOK
<1>6. r \in RateControl /\ Configured(r) = StreamShare(d)
  BY <1>3, <1>5, StreamRcTyped
<1>7. /\ rc' \in {r, ResetRc(r)} /\ oxcf' = d /\ target_bandwidth' = Bandwidth(d)
      /\ layer_context' = IF Layered(d) THEN contexts ELSE layer_context
      /\ width' = d.width /\ height' = d.height
      /\ MBs' = (d.width * d.height) \div 256
  BY DEF Install
<1> HIDE DEF d, r
<1>8. rc' \in RateControl /\ Configured(rc') = StreamShare(d)
  BY <1>6, <1>7, ResetKeeps
<1>9. ASSUME Layered(d)
      PROVE  LayersHold(d, contexts) /\ QualityShared(d, contexts)
  <2>1. QualityShared(oxcf, layer_context)
    BY <1>1, <1>4, <1>9 DEF RangesHold
  <2>2. QualityShared(d, layer_context)
    BY <1>4, <2>1 DEF QualityShared
  <2>3. QED
    BY <1>3, <1>4, <1>5, <1>6, <2>2, UpdatedContextsHold
<1> HIDE DEF contexts
<1>10. layer_context' \in [Indices(d) -> LayerContext]
  BY <1>4, <1>5, <1>7, <1>9 DEF LayersHold
<1>11. /\ Bandwidth(d) \in Nat /\ d.width \in Nat /\ d.height \in Nat
       /\ (d.width * d.height) \div 256 \in Nat
  BY <1>3, SizesTyped, ConfigTyped, ProductNat, DivNat
<1>12. TypeOK'
  <2>1. /\ spatial_layer_id' \in 0 .. oxcf'.ss_number_layers - 1
        /\ temporal_layer_id' \in 0 .. oxcf'.ts_number_layers - 1
        /\ coded' \subseteq Indices(oxcf')
    BY <1>1, <1>3, <1>4, <1>7 DEF TypeOK
  <2>2. oxcf' \in Config /\ layer_context' \in [Indices(oxcf') -> LayerContext]
    BY <1>3, <1>7, <1>10
  <2>3. /\ target_bandwidth' \in Nat /\ MBs' \in Nat /\ width' \in Nat /\ height' \in Nat
        /\ phase' \in Phases
    BY <1>7, <1>11 DEF Phases
  <2>4. /\ fault' \in Faults /\ frame_type' \in FrameTypes
        /\ base_qindex' \in 0 .. MaxQ /\ current_video_frame' \in Nat
        /\ filter_level' \in 0 .. MaxLoopFilter
    BY <1>1 DEF TypeOK
  <2>5. QED
    BY <1>8, <2>1, <2>2, <2>3, <2>4 DEF TypeOK
<1>13. RangesHold'
  <2>1. ~InFrame'
    BY DEF InFrame
  <2>2. QED
    BY <1>3, <1>7, <1>8, <1>9, <2>1 DEF RangesHold
<1>14. NothingCoded' /\ QpInRange'
  BY DEF NothingCoded, QpInRange, InFrame
<1>15. QED
  BY <1>12, <1>13, <1>14 DEF ClientInv

LEMMA ComputedClientInv ==
  ASSUME ClientInv, phase = "idle", NEW ft \in FrameTypes,
         NEW s \in 0 .. oxcf.ss_number_layers - 1, NEW t \in 0 .. oxcf.ts_number_layers - 1,
         ComputeQp(ft, s, t), phase' = "computed"
  PROVE  /\ ClientInv' /\ UNCHANGED <<oxcf, fault>>
         /\ base_qindex' \in BestAllowed(oxcf) .. WorstAllowed(oxcf)
         /\ rc'.buffer_level <= rc'.maximum_buffer_size /\ rc'.this_frame_target \in Nat
<1> DEFINE l == Index(oxcf, s, t)
           base == KeyBase(s, t)
<1>1. /\ ~Undefined(ft, s, t) /\ fault' = fault /\ updates' = updates
      /\ spatial_layer_id' = s /\ temporal_layer_id' = t /\ frame_type' = ft
      /\ width' = FrameSize(s)[1] /\ height' = FrameSize(s)[2]
      /\ MBs' = Blocks(width') * Blocks(height')
      /\ Layered(oxcf) => StartLayerFrame(ft, s, t)
      /\ ~Layered(oxcf) => StartFrame(ft)
      /\ base_qindex' = PickQ(ft, rc', base, <<width', height'>>, MBs',
                              rc'.this_frame_target)
      /\ UNCHANGED <<oxcf, current_video_frame, filter_level, coded>>
  <2>1. phase' # phase
    OBVIOUS
  <2>2. QED
    BY <2>1 DEF ComputeQp
<1>2. /\ TypeOK /\ Usable(oxcf) /\ oxcf \in Config /\ rc \in RateControl
      /\ layer_context \in [Indices(oxcf) -> LayerContext]
      /\ current_video_frame \in Nat /\ width \in Nat /\ height \in Nat
      /\ ~Layered(oxcf) => Configured(rc) = StreamShare(oxcf)
      /\ Layered(oxcf) => LayersHold(oxcf, layer_context) /\ QualityShared(oxcf, layer_context)
  BY DEF ClientInv, TypeOK, RangesHold
<1>3. /\ l \in Indices(oxcf) /\ s \in SpatialIds /\ t \in TemporalIds
      /\ Index(oxcf, 0, t) \in Indices(oxcf)
  <2>1. 0 \in 0 .. oxcf.ss_number_layers - 1
    BY <1>2 DEF Usable, MaxSpatialLayers
  <2>2. QED
    BY <1>2, <2>1, LayersInArrays
<1>4. width' \in Nat /\ height' \in Nat /\ MBs' \in Nat
  <2>1. oxcf.ss_number_layers > 1 => oxcf.scaling_factor_den[s] # 0
    BY <1>1 DEF Undefined
  <2>2. /\ FrameSize(s)[1] \in Nat /\ FrameSize(s)[2] \in Nat
        /\ \A x \in Nat : Blocks(x) \in Nat
    BY <1>2, <1>3, <2>1, FrameSizeNat
  <2>3. width' \in Nat /\ height' \in Nat
    BY <1>1, <2>2
  <2>4. Blocks(width') \in Nat /\ Blocks(height') \in Nat
    BY <2>2, <2>3
  <2>5. QED
    BY <1>1, <2>3, <2>4, ProductNat
<1>5. base \in Bases
  BY <1>2, <1>3 DEF KeyBase, Bases
<1> HIDE DEF base
<1>6. /\ rc' \in RateControl /\ rc'.buffer_level <= rc'.maximum_buffer_size
      /\ rc'.this_frame_target \in Nat
      /\ rc'.worst_quality = WorstAllowed(oxcf) /\ rc'.best_quality = BestAllowed(oxcf)
  <2>1. CASE Layered(oxcf)
    <3>1. StartLayerFrame(ft, s, t) /\ ~Undefined(ft, s, t)
      BY <1>1, <2>1
    <3>2. /\ rc' \in RateControl /\ rc'.buffer_level <= rc'.maximum_buffer_size
          /\ rc'.this_frame_target \in Nat /\ Configured(rc') = LayerShare(oxcf, l)
      BY <1>2, <2>1, <3>1, StartLayerFrameTyped
    <3>3. QED
      BY <3>2 DEF Configured, LayerShare
  <2>2. CASE ~Layered(oxcf)
    <3>1. /\ rc' \in RateControl /\ rc'.buffer_level <= rc'.maximum_buffer_size
          /\ rc'.this_frame_target \in Nat /\ Configured(rc') = StreamShare(oxcf)
      BY <1>1, <1>2, <2>2, StartFrameTyped
    <3>2. QED
      BY <3>1 DEF Configured, StreamShare
  <2>3. QED
    BY <2>1, <2>2
<1>7. base_qindex' \in BestAllowed(oxcf) .. WorstAllowed(oxcf)
  <2>1. rc'.best_quality <= rc'.worst_quality
    BY <1>2, <1>6 DEF Usable
  <2>2. base_qindex' \in rc'.best_quality .. rc'.worst_quality
    BY <1>1, <1>5, <1>6, <2>1, PickQInRange
  <2>3. QED
    BY <1>6, <2>2
<1>8. base_qindex' \in 0 .. MaxQ
  <2>1. MaxQ \in Nat
    BY TableAssumption
  <2>2. BestAllowed(oxcf) \in 0 .. MaxQ /\ WorstAllowed(oxcf) \in 0 .. MaxQ
    BY <1>2 DEF Usable
  <2>3. QED
    BY <1>7, <2>1, <2>2
<1>9. /\ layer_context' \in [Indices(oxcf) -> LayerContext] /\ target_bandwidth' \in Nat
  <2>1. CASE Layered(oxcf)
    <3>1. /\ LayersHold(oxcf, layer_context') /\ target_bandwidth' = LayerBandwidth(oxcf, l)
      BY <1>1, <1>2, <2>1, StartLayerFrameTyped
    <3>2. LayerBandwidth(oxcf, l) \in Nat
      BY <1>2, <1>3, LayersInArrays, LayerSizesTyped
    <3>3. QED
      BY <3>1, <3>2 DEF LayersHold
  <2>2. CASE ~Layered(oxcf)
    BY <1>1, <1>2, <2>2 DEF StartFrame, TypeOK
  <2>3. QED
    BY <2>1, <2>2
<1>10. TypeOK'
  BY <1>1, <1>2, <1>4, <1>6, <1>8, <1>9 DEF TypeOK, Phases
<1>11. RangesHold'
  <2>1. current_layer' = l
    BY <1>1 DEF current_layer
  <2>2. CASE Layered(oxcf)
    <3>1. /\ LayersHold(oxcf, layer_context') /\ QualityShared(oxcf, layer_context')
          /\ Configured(rc') = LayerShare(oxcf, l)
          /\ KeyQuality(rc') = KeyQuality(layer_context'[l].rc)
          /\ target_bandwidth' = LayerBandwidth(oxcf, l)
      BY <1>1, <1>2, <2>2, StartLayerFrameTyped
    <3> HIDE DEF l
    <3>2. QED
      BY <1>1, <1>2, <2>1, <2>2, <3>1 DEF RangesHold
  <2>3. CASE ~Layered(oxcf)
    <3>1. Configured(rc') = StreamShare(oxcf)
      BY <1>1, <1>2, <2>3, StartFrameTyped
    <3>2. QED
      BY <1>1, <1>2, <2>3, <3>1 DEF RangesHold
  <2>4. QED
    BY <2>2, <2>3
<1>12. NothingCoded' /\ QpInRange'
  BY <1>1, <1>7 DEF NothingCoded, QpInRange
<1>13. QED
  BY <1>1, <1>6, <1>7, <1>10, <1>11, <1>12 DEF ClientInv

LEMMA FilterLevelInRange ==
  ASSUME NEW ft, NEW q \in 0 .. MaxQ
  PROVE  FilterLevel(ft, q) \in 0 .. MaxLoopFilter
<1>1. AcQLookup[q] \in Nat
  BY TableAssumption
<1>2. (AcQLookup[q] * 20723 + 1015158 + 131072) \div 262144 \in Int
  BY <1>1
<1>3. QED
  BY <1>2 DEF FilterLevel, Clamp, MaxLoopFilter

LEMMA FilteredClientInv ==
  ASSUME ClientInv, phase = "computed", GetLoopFilterLevel
  PROVE  ClientInv'
<1>1. /\ phase' = "filtered" /\ filter_level' = FilterLevel(frame_type, base_qindex)
      /\ UNCHANGED <<updates, fault>>
      /\ UNCHANGED <<oxcf, target_bandwidth, rc, layer_context>>
      /\ UNCHANGED <<spatial_layer_id, temporal_layer_id, frame_type, base_qindex, MBs>>
      /\ UNCHANGED <<width, height, current_video_frame, coded>>
  BY DEF GetLoopFilterLevel, stream, frame
<1>2. filter_level' \in 0 .. MaxLoopFilter
  BY <1>1, FilterLevelInRange DEF ClientInv, TypeOK
<1>3. TypeOK'
  BY <1>1, <1>2 DEF ClientInv, TypeOK, Phases
<1>4. RangesHold'
  BY <1>1 DEF ClientInv, RangesHold, InFrame, current_layer
<1>5. QpInRange' /\ NothingCoded'
  BY <1>1 DEF ClientInv, QpInRange, NothingCoded, InFrame
<1>6. QED
  BY <1>3, <1>4, <1>5 DEF ClientInv

\* Saving a frame gives its layer's state back and keeps what is shared.
LEMMA SavedContextsHold ==
  ASSUME ClientInv, InFrame, Layered(oxcf), NEW bits \in Nat
  PROVE  /\ LayersHold(oxcf, SavedContexts(bits))
         /\ QualityShared(oxcf, SavedContexts(bits))
<1> DEFINE after == SavedContexts(bits)
           own == [layer_context[current_layer] EXCEPT !.rc = ChargedRc(bits),
                                                       !.target_bandwidth = target_bandwidth]
           marked == <<base_qindex, AverageAfter(bits)["key"]>>
           keyed(l) == frame_type = "key" /\ SpatialOf(oxcf, l) = spatial_layer_id
<1>1. /\ TypeOK /\ phase # "created" /\ Usable(oxcf) /\ oxcf \in Config /\ rc \in RateControl
      /\ LayersHold(oxcf, layer_context) /\ QualityShared(oxcf, layer_context)
      /\ Configured(rc) = LayerShare(oxcf, current_layer)
      /\ KeyQuality(rc) = KeyQuality(layer_context[current_layer].rc)
      /\ target_bandwidth = LayerBandwidth(oxcf, current_layer)
  BY DEF ClientInv, TypeOK, RangesHold, InFrame
<1>2. /\ base_qindex \in 0 .. MaxQ /\ frame_type \in FrameTypes /\ MBs \in Nat
      /\ target_bandwidth \in Nat
      /\ spatial_layer_id \in 0 .. oxcf.ss_number_layers - 1
      /\ temporal_layer_id \in 0 .. oxcf.ts_number_layers - 1
  BY <1>1 DEF TypeOK
<1>3. current_layer \in Indices(oxcf) /\ SpatialOf(oxcf, current_layer) = spatial_layer_id
  BY <1>1, <1>2, LayersInArrays DEF current_layer
<1>4. /\ layer_context \in [Indices(oxcf) -> LayerContext]
      /\ DOMAIN layer_context = Indices(oxcf)
  BY <1>1 DEF LayersHold
<1>5. /\ ChargedRc(bits) \in RateControl /\ Configured(ChargedRc(bits)) = Configured(rc)
      /\ KeyQuality(ChargedRc(bits))
           = IF frame_type = "key" THEN marked ELSE KeyQuality(rc)
  BY <1>1, <1>2, ChargedRcTyped
<1>6. /\ own \in LayerContext /\ own.rc = ChargedRc(bits)
      /\ own.target_bandwidth = target_bandwidth
  BY <1>2, <1>3, <1>4, <1>5 DEF LayerContext
<1>7. /\ DOMAIN after = Indices(oxcf) /\ after = [l \in Indices(oxcf) |-> after[l]]
      /\ \A l \in Indices(oxcf) :
           after[l] = IF l = current_layer THEN own ELSE Touched(layer_context[l], l, bits)
  BY <1>4 DEF SavedContexts
<1> HIDE DEF after, own, marked, keyed
<1>8. ASSUME NEW l \in Indices(oxcf)
      PROVE  /\ after[l] \in LayerContext
             /\ Configured(after[l].rc) = LayerShare(oxcf, l)
             /\ after[l].target_bandwidth = LayerBandwidth(oxcf, l)
             /\ KeyQuality(after[l].rc)
                  = IF keyed(l) THEN marked ELSE KeyQuality(layer_context[l].rc)
  <2>1. CASE l = current_layer
    <3>1. after[l] = own
      BY <1>7, <2>1
    <3>2. keyed(l) <=> frame_type = "key"
      BY <1>3, <2>1 DEF keyed
    <3>3. QED
      BY <1>1, <1>5, <1>6, <2>1, <3>1, <3>2
  <2>2. CASE l # current_layer
    <3>1. after[l] = Touched(layer_context[l], l, bits) /\ layer_context[l] \in LayerContext
      BY <1>4, <1>7, <2>2
    <3>2. /\ after[l] \in LayerContext
          /\ Configured(after[l].rc) = Configured(layer_context[l].rc)
          /\ after[l].target_bandwidth = layer_context[l].target_bandwidth
          /\ KeyQuality(after[l].rc)
               = IF keyed(l) THEN marked ELSE KeyQuality(layer_context[l].rc)
      BY <1>1, <1>2, <3>1, TouchedTyped DEF keyed, marked
    <3>3. QED
      BY <1>1, <3>2 DEF LayersHold
  <2>3. QED
    BY <2>1, <2>2
<1>9. LayersHold(oxcf, after)
  BY <1>7, <1>8 DEF LayersHold
<1>10. ASSUME NEW l \in Indices(oxcf), NEW m \in Indices(oxcf),
              SpatialOf(oxcf, l) = SpatialOf(oxcf, m)
       PROVE  KeyQuality(after[l].rc) = KeyQuality(after[m].rc)
  <2>1. keyed(l) <=> keyed(m)
    BY <1>10 DEF keyed
  <2>2. KeyQuality(layer_context[l].rc) = KeyQuality(layer_context[m].rc)
    BY <1>1, <1>10 DEF QualityShared
  <2>3. QED
    BY <1>8, <2>1, <2>2
<1>11. QualityShared(oxcf, after)
  BY <1>10 DEF QualityShared
<1>12. QED
  BY <1>9, <1>11 DEF after

LEMMA PostEncodeClientInv ==
  ASSUME ClientInv, phase = "filtered", NEW size \in FrameSizes, PostEncodeUpdate(size)
  PROVE  ClientInv'
<1> DEFINE bits == 8 * size
<1>1. bits \in Nat
  BY ParameterAssumption
<1>2. /\ phase' = "idle" /\ UNCHANGED <<updates, fault>>
      /\ rc' = ChargedRc(bits)
      /\ layer_context' = IF Layered(oxcf) THEN SavedContexts(bits) ELSE layer_context
      /\ current_video_frame' = current_video_frame + 1
      /\ coded' = coded \union {current_layer}
      /\ UNCHANGED <<oxcf, target_bandwidth, filter_level>>
      /\ UNCHANGED <<spatial_layer_id, temporal_layer_id, frame_type, base_qindex, MBs>>
      /\ UNCHANGED <<width, height>>
  BY DEF PostEncodeUpdate, frame
<1> HIDE DEF bits
<1>3. /\ TypeOK /\ Usable(oxcf) /\ oxcf \in Config /\ rc \in RateControl
      /\ base_qindex \in 0 .. MaxQ /\ frame_type \in FrameTypes /\ MBs \in Nat
      /\ spatial_layer_id \in 0 .. oxcf.ss_number_layers - 1
      /\ temporal_layer_id \in 0 .. oxcf.ts_number_layers - 1
      /\ ~Layered(oxcf) => Configured(rc) = StreamShare(oxcf)
  BY DEF ClientInv, TypeOK, RangesHold
<1>4. rc' \in RateControl /\ Configured(rc') = Configured(rc)
  BY <1>1, <1>2, <1>3, ChargedRcTyped
<1>5. Layered(oxcf) => /\ LayersHold(oxcf, layer_context')
                       /\ QualityShared(oxcf, layer_context')
  BY <1>1, <1>2, SavedContextsHold DEF InFrame
<1>6. layer_context' \in [Indices(oxcf) -> LayerContext]
  <2>1. CASE Layered(oxcf)
    BY <1>5, <2>1 DEF LayersHold
  <2>2. CASE ~Layered(oxcf)
    BY <1>2, <1>3, <2>2 DEF TypeOK
  <2>3. QED
    BY <2>1, <2>2
<1>7. coded' \subseteq Indices(oxcf)
  <2>1. current_layer \in Indices(oxcf)
    BY <1>3, LayersInArrays DEF current_layer
  <2>2. coded \subseteq Indices(oxcf)
    BY <1>3 DEF TypeOK
  <2>3. QED
    BY <1>2, <2>1, <2>2
<1>8. TypeOK'
  BY <1>2, <1>3, <1>4, <1>6, <1>7 DEF TypeOK, Phases
<1>9. ~InFrame'
  BY <1>2 DEF InFrame
<1>10. RangesHold'
  BY <1>2, <1>3, <1>4, <1>5, <1>9 DEF RangesHold
<1>11. NothingCoded' /\ QpInRange'
  BY <1>2, <1>9 DEF NothingCoded, QpInRange
<1>12. QED
  BY <1>8, <1>10, <1>11 DEF ClientInv

LEMMA NextClientInv == ClientInv /\ [Next]_vars => ClientInv'
<1> SUFFICES ASSUME ClientInv, [Next]_vars PROVE ClientInv'
  OBVIOUS
<1>1. TypeOK
  BY DEF ClientInv
<1>2. ASSUME NEW c \in Configs, RateControlInit(c) PROVE ClientInv'
  <2>1. CASE phase' = "idle"
    BY <1>2, <2>1, InitialisedClientInv
  <2>2. CASE UNCHANGED <<phase, engine>> /\ fault' \in Faults
    <3>1. updates' \in Nat
      BY <1>1, <1>2 DEF TypeOK, RateControlInit
    <3>2. QED
      BY <2>2, <3>1, UnchangedClientInv
  <2>3. QED
    BY <1>1, <1>2, <2>1, <2>2 DEF RateControlInit, Faults
<1>3. ASSUME phase = "idle", NEW c \in Configs, Validate(c), SameLayers(c), UpdateConfig(c)
      PROVE  ClientInv'
  <2>1. updates' \in Nat
    BY <1>1, <1>3 DEF TypeOK, UpdateConfig
  <2>2. CASE ReadsInTable(c)
    <3>1. /\ Install(Copied(c)) /\ coded' \in {coded, {}} /\ fault' = fault
          /\ UNCHANGED <<phase, spatial_layer_id, temporal_layer_id, frame_type,
                         base_qindex, current_video_frame, filter_level>>
      BY <1>3, <2>2 DEF UpdateConfig
    <3>2. QED
      BY <1>3, <2>1, <2>2, <3>1, UpdatedClientInv
  <2>3. CASE ~ReadsInTable(c)
    BY <1>3, <2>1, <2>3, UnchangedClientInv DEF UpdateConfig, Faults
  <2>4. QED
    BY <2>2, <2>3
<1>4. ASSUME phase = "idle", NEW ft \in FrameTypes,
             NEW s \in 0 .. oxcf.ss_number_layers - 1,
             NEW t \in 0 .. oxcf.ts_number_layers - 1, ComputeQp(ft, s, t)
      PROVE  ClientInv'
  <2>1. CASE phase' = "computed"
    BY <1>4, <2>1, ComputedClientInv
  <2>2. CASE fault' = "undefined" /\ UNCHANGED <<phase, engine>>
    <3>1. updates' \in Nat
      BY <1>1, <1>4 DEF TypeOK, ComputeQp
    <3>2. QED
      BY <2>2, <3>1, UnchangedClientInv DEF Faults
  <2>3. QED
    BY <1>4, <2>1, <2>2 DEF ComputeQp
<1>5. ASSUME phase = "computed", GetLoopFilterLevel PROVE ClientInv'
  BY <1>5, FilteredClientInv
<1>6. ASSUME phase = "filtered", NEW size \in FrameSizes, PostEncodeUpdate(size)
      PROVE  ClientInv'
  BY <1>6, PostEncodeClientInv
<1>7. CASE UNCHANGED vars
  <2>1. UNCHANGED <<phase, engine>> /\ UNCHANGED <<updates, fault>>
    BY <1>7 DEF vars, client
  <2>2. QED
    BY <1>1, <2>1, UnchangedClientInv DEF TypeOK
<1>8. QED
  BY <1>2, <1>3, <1>4, <1>5, <1>6, <1>7 DEF Next

\* Every field of the stream and of every layer keeps its type, so every read of
\* a table is inside it.
THEOREM TypeCorrect == Spec => []TypeOK
<1>1. ClientInv => TypeOK
  BY DEF ClientInv
<1>2. QED
  BY <1>1, InitClientInv, NextClientInv, PTL DEF Spec

\* Every index handed to the encoder respects the configured quantizers,
\* whichever layer's copy of the range the frame was computed from.
THEOREM QpAlwaysInRange == Spec => []QpInRange
<1>1. ClientInv => QpInRange
  BY DEF ClientInv
<1>2. QED
  BY <1>1, InitClientInv, NextClientInv, PTL DEF Spec

\* A layer always has its own share of the buffers configured last.
THEOREM LayerSizesKept == Spec => []LayersKeepTheirSizes
<1>1. ClientInv => LayersKeepTheirSizes
  <2> SUFFICES ASSUME ClientInv, phase # "created", Layered(oxcf), NEW l \in Indices(oxcf)
               PROVE  LET r == IF InFrame /\ l = current_layer THEN rc
                               ELSE layer_context[l].rc
                      IN  /\ r.starting_buffer_level = Allocated(oxcf, l, StartingLevel(oxcf))
                          /\ r.optimal_buffer_level = Allocated(oxcf, l, OptimalLevel(oxcf))
                          /\ r.maximum_buffer_size = Allocated(oxcf, l, MaximumSize(oxcf))
                          /\ layer_context[l].target_bandwidth = LayerBandwidth(oxcf, l)
    BY DEF LayersKeepTheirSizes
  <2> DEFINE r == IF InFrame /\ l = current_layer THEN rc ELSE layer_context[l].rc
  <2>1. Configured(r) = LayerShare(oxcf, l)
    BY DEF ClientInv, RangesHold, LayersHold
  <2>2. layer_context[l].target_bandwidth = LayerBandwidth(oxcf, l)
    BY DEF ClientInv, RangesHold, LayersHold
  <2> HIDE DEF r
  <2>3. /\ r.starting_buffer_level = Allocated(oxcf, l, StartingLevel(oxcf))
        /\ r.optimal_buffer_level = Allocated(oxcf, l, OptimalLevel(oxcf))
        /\ r.maximum_buffer_size = Allocated(oxcf, l, MaximumSize(oxcf))
    BY <2>1 DEF Configured, LayerShare
  <2>4. QED
    BY <2>2, <2>3 DEF r
<1>2. QED
  BY <1>1, InitClientInv, NextClientInv, PTL DEF Spec

\* The temporal layers of a spatial layer agree on the quality of its key frames
\* between frames.
THEOREM KeyQualityAlwaysShared == Spec => []KeyQualityShared
<1>1. ClientInv => KeyQualityShared
  <2> SUFFICES ASSUME ClientInv, phase = "idle", Layered(oxcf),
                      NEW l \in Indices(oxcf), NEW m \in Indices(oxcf),
                      SpatialOf(oxcf, l) = SpatialOf(oxcf, m)
               PROVE  /\ layer_context[l].rc.last_key_q = layer_context[m].rc.last_key_q
                      /\ layer_context[l].rc.avg_frame_qindex["key"]
                           = layer_context[m].rc.avg_frame_qindex["key"]
    BY DEF KeyQualityShared
  <2>1. KeyQuality(layer_context[l].rc) = KeyQuality(layer_context[m].rc)
    BY DEF ClientInv, RangesHold, QualityShared
  <2>2. QED
    BY <2>1 DEF KeyQuality
<1>2. QED
  BY <1>1, InitClientInv, NextClientInv, PTL DEF Spec

-----------------------------------------------------------------------------
(* Inter frames stay in their layers. *)

\* An inter frame leaves a layer as it was that is neither the frame's nor a
\* temporal layer above it.
LEMMA OutsideUntouched ==
  ASSUME ClientInv, Layered(oxcf), InFrame, frame_type = "inter", NEW bits,
         NEW l \in Indices(oxcf),
         l \notin FromTemporal(oxcf, spatial_layer_id, temporal_layer_id)
  PROVE  SavedContexts(bits)[l] = layer_context[l]
<1> DEFINE s == spatial_layer_id
           t == temporal_layer_id
           T == oxcf.ts_number_layers
           lc == layer_context[l]
<1>1. /\ oxcf \in Config /\ Usable(oxcf)
      /\ layer_context \in [Indices(oxcf) -> LayerContext]
      /\ t \in 0 .. T - 1
  BY DEF ClientInv, TypeOK, RangesHold, InFrame
<1>2. /\ TemporalOf(oxcf, l) \in 0 .. T - 1
      /\ l = Index(oxcf, SpatialOf(oxcf, l), TemporalOf(oxcf, l))
  BY <1>1, LayersInArrays
<1>3. T \in Nat
  BY <1>1 DEF Config
<1>4. l # current_layer
  <2>1. t \in t .. T - 1
    BY <1>1, <1>3
  <2>2. QED
    BY <2>1 DEF FromTemporal, current_layer
<1>5. ~(SpatialOf(oxcf, l) = s /\ TemporalOf(oxcf, l) > t)
  <2>1. SUFFICES ASSUME SpatialOf(oxcf, l) = s, TemporalOf(oxcf, l) > t PROVE FALSE
    OBVIOUS
  <2>2. TemporalOf(oxcf, l) \in t .. T - 1
    BY <1>1, <1>2, <1>3, <2>1
  <2>3. QED
    BY <1>2, <2>1, <2>2 DEF FromTemporal
<1>6. Touched(lc, l, bits) = [lc EXCEPT !.rc = lc.rc]
  BY <1>5 DEF Touched, KeyOvershot
<1>7. lc \in LayerContext
  BY <1>1
<1> HIDE DEF lc
<1>8. [lc EXCEPT !.rc = lc.rc] = lc
  BY <1>7 DEF LayerContext
<1>9. SavedContexts(bits)[l] = Touched(lc, l, bits)
  BY <1>1, <1>4 DEF SavedContexts, lc
<1>10. QED
  BY <1>6, <1>8, <1>9 DEF lc

\* The start of a frame credits its layer and the temporal layers above it only.
LEMMA OutsideUncredited ==
  ASSUME ClientInv, Layered(oxcf), phase = "idle", NEW ft,
         NEW s \in 0 .. oxcf.ss_number_layers - 1,
         NEW t \in 0 .. oxcf.ts_number_layers - 1,
         StartLayerFrame(ft, s, t),
         NEW l \in Indices(oxcf), l \notin FromTemporal(oxcf, s, t)
  PROVE  layer_context'[l] = layer_context[l]
<1>1. /\ oxcf \in Config /\ layer_context \in [Indices(oxcf) -> LayerContext]
  BY DEF ClientInv, TypeOK
<1>2. PICK lc : layer_context' = Credited([layer_context EXCEPT ![Index(oxcf, s, t)] = lc], s, t)
  BY DEF StartLayerFrame
<1>3. l # Index(oxcf, s, t)
  <2>1. t \in t .. oxcf.ts_number_layers - 1
    BY <1>1 DEF Config
  <2>2. QED
    BY <2>1 DEF FromTemporal
<1> DEFINE restored == [layer_context EXCEPT ![Index(oxcf, s, t)] = lc]
<1>4. l \in DOMAIN restored /\ restored[l] = layer_context[l]
  BY <1>1, <1>3
<1> HIDE DEF restored
<1>5. Credited(restored, s, t)[l] = restored[l]
  BY <1>4 DEF Credited
<1>6. QED
  BY <1>2, <1>4, <1>5 DEF restored

\* A frame that is no key frame leaves other spatial layers and lower temporal
\* layers alone, from its start to the charge of its bits.
THEOREM LayersAlwaysIsolated == Spec => LayersIsolated
<1> DEFINE Isolated ==
      phase # "created" /\ phase' # phase /\ frame_type' = "inter"
      => \A l \in Indices(oxcf) :
           \/ l \in FromTemporal(oxcf, spatial_layer_id', temporal_layer_id')
           \/ layer_context'[l] = layer_context[l]
<1>1. ASSUME ClientInv, Next PROVE Isolated
  <2> SUFFICES ASSUME phase # "created", phase' # phase, frame_type' = "inter",
                      NEW l \in Indices(oxcf),
                      l \notin FromTemporal(oxcf, spatial_layer_id', temporal_layer_id')
               PROVE  layer_context'[l] = layer_context[l]
    OBVIOUS
  <2>1. CASE \E c \in Configs : RateControlInit(c)
    BY <2>1 DEF RateControlInit
  <2>2. ASSUME NEW c \in Configs, UpdateConfig(c) PROVE FALSE
    BY <2>2 DEF UpdateConfig
  <2>3. ASSUME phase = "idle", NEW ft \in FrameTypes,
               NEW s \in 0 .. oxcf.ss_number_layers - 1,
               NEW t \in 0 .. oxcf.ts_number_layers - 1, ComputeQp(ft, s, t)
        PROVE  layer_context'[l] = layer_context[l]
    <3>1. /\ spatial_layer_id' = s /\ temporal_layer_id' = t
          /\ IF Layered(oxcf) THEN StartLayerFrame(ft, s, t) ELSE StartFrame(ft)
      BY <2>3 DEF ComputeQp
    <3>2. CASE Layered(oxcf)
      BY <1>1, <2>3, <3>1, <3>2, OutsideUncredited
    <3>3. CASE ~Layered(oxcf)
      BY <3>1, <3>3 DEF StartFrame
    <3>4. QED
      BY <3>2, <3>3
  <2>4. CASE GetLoopFilterLevel
    BY <2>4 DEF GetLoopFilterLevel, stream
  <2>5. ASSUME phase = "filtered", NEW size \in FrameSizes, PostEncodeUpdate(size)
        PROVE  layer_context'[l] = layer_context[l]
    <3>1. /\ UNCHANGED <<frame_type, spatial_layer_id, temporal_layer_id>>
          /\ layer_context' = IF Layered(oxcf) THEN SavedContexts(8 * size) ELSE layer_context
      BY <2>5 DEF PostEncodeUpdate, frame
    <3>2. CASE Layered(oxcf)
      <4>1. SavedContexts(8 * size)[l] = layer_context[l]
        BY <1>1, <2>5, <3>1, <3>2, OutsideUntouched DEF InFrame
      <4>2. QED
        BY <3>1, <3>2, <4>1
    <3>3. QED
      BY <3>1, <3>2
  <2>6. QED
    BY <1>1, <2>1, <2>2, <2>3, <2>4, <2>5 DEF Next
<1>2. ASSUME ClientInv, [Next]_vars PROVE [Isolated]_vars
  BY <1>1, <1>2
<1>3. QED
  BY <1>2, InitClientInv, NextClientInv, PTL DEF Spec, LayersIsolated

-----------------------------------------------------------------------------
(* The engine implements BrcEngine. *)

Allowed == IF phase = "created" THEN <<0, 0>> ELSE <<BestAllowed(oxcf), WorstAllowed(oxcf)>>

\* The range an update leaves is one an engine may choose from.
LEMMA AllowedRange ==
  ASSUME ClientInv', phase' # "created"
  PROVE  Allowed' \in Engine!Ranges
<1>1. /\ BestAllowed(oxcf') \in 0 .. MaxQ /\ WorstAllowed(oxcf') \in 0 .. MaxQ
      /\ BestAllowed(oxcf') <= WorstAllowed(oxcf')
  BY DEF ClientInv, RangesHold, Usable
<1>2. Allowed' = <<BestAllowed(oxcf'), WorstAllowed(oxcf')>>
  BY DEF Allowed
<1>3. QED
  BY <1>1, <1>2 DEF Engine!Ranges

LEMMA StutterRefines ==
  ASSUME UNCHANGED <<phase, fault, engine>>
  PROVE  UNCHANGED Engine!vars
<1>1. UNCHANGED <<oxcf, base_qindex>>
  BY DEF engine, stream, frame
<1>2. QED
  BY <1>1 DEF Engine!vars

LEMMA StopRefines ==
  ASSUME phase \in {"created", "idle"}, fault = "none", fault' # "none",
         UNCHANGED <<phase, engine>>
  PROVE  Engine!Next
<1>1. UNCHANGED <<oxcf, base_qindex>>
  BY DEF engine, stream, frame
<1>2. Engine!Stop
  BY <1>1 DEF Engine!Stop
<1>3. QED
  BY <1>2 DEF Engine!Next

LEMMA NextRefines ==
  ClientInv /\ ClientInv' /\ [Next]_vars => [Engine!Next]_(Engine!vars)
<1> SUFFICES ASSUME ClientInv, ClientInv', [Next]_vars
             PROVE  [Engine!Next]_(Engine!vars)
  OBVIOUS
<1>1. phase \in {"created", "idle", "computed", "filtered"}
  BY DEF ClientInv, TypeOK, Phases
<1>2. ASSUME NEW c \in Configs, RateControlInit(c)
      PROVE  [Engine!Next]_(Engine!vars)
  <2>1. fault = "none" /\ phase = "created"
    BY <1>2 DEF RateControlInit
  <2>2. CASE phase' = "idle" /\ fault' = fault
    <3>1. Allowed' \in Engine!Ranges
      BY <2>2, AllowedRange
    <3>2. Engine!Create
      BY <2>1, <2>2, <3>1 DEF Engine!Create, Allowed
    <3>3. QED
      BY <3>2 DEF Engine!Next
  <2>3. CASE fault' = "out_of_bounds" /\ UNCHANGED <<phase, engine>>
    BY <2>1, <2>3, StopRefines
  <2>4. CASE UNCHANGED <<phase, fault, engine>>
    BY <2>4, StutterRefines
  <2>5. QED
    BY <1>2, <2>2, <2>3, <2>4 DEF RateControlInit
<1>3. ASSUME phase = "idle", NEW c \in Configs, UpdateConfig(c)
      PROVE  [Engine!Next]_(Engine!vars)
  <2>1. fault = "none"
    BY <1>3 DEF UpdateConfig
  <2>2. CASE phase' = phase /\ fault' = fault /\ base_qindex' = base_qindex
    <3>1. Allowed' \in Engine!Ranges
      BY <1>3, <2>2, AllowedRange
    <3>2. Engine!Update
      BY <1>3, <2>1, <2>2, <3>1 DEF Engine!Update, Allowed
    <3>3. QED
      BY <3>2 DEF Engine!Next
  <2>3. CASE fault' = "out_of_bounds" /\ UNCHANGED <<phase, engine>>
    BY <1>3, <2>1, <2>3, StopRefines
  <2>4. QED
    BY <1>3, <2>2, <2>3 DEF UpdateConfig
<1>4. ASSUME phase = "idle", NEW ft \in FrameTypes,
             NEW s \in 0 .. oxcf.ss_number_layers - 1,
             NEW t \in 0 .. oxcf.ts_number_layers - 1, ComputeQp(ft, s, t)
      PROVE  [Engine!Next]_(Engine!vars)
  <2>1. fault = "none"
    BY <1>4 DEF ComputeQp
  <2>2. CASE phase' = "computed"
    <3>1. /\ UNCHANGED <<oxcf, fault>>
          /\ base_qindex' \in BestAllowed(oxcf) .. WorstAllowed(oxcf)
      BY <1>4, <2>2, ComputedClientInv
    <3>2. Engine!Compute
      BY <1>4, <2>1, <2>2, <3>1 DEF Engine!Compute
    <3>3. QED
      BY <3>2 DEF Engine!Next
  <2>3. CASE fault' = "undefined" /\ UNCHANGED <<phase, engine>>
    BY <1>4, <2>1, <2>3, StopRefines
  <2>4. QED
    BY <1>4, <2>2, <2>3 DEF ComputeQp
<1>5. ASSUME phase = "computed", GetLoopFilterLevel
      PROVE  [Engine!Next]_(Engine!vars)
  <2>1. phase' = "filtered" /\ UNCHANGED <<fault, oxcf, base_qindex>>
    BY <1>5 DEF GetLoopFilterLevel, stream, frame
  <2>2. UNCHANGED Engine!vars
    BY <1>5, <2>1 DEF Engine!vars
  <2>3. QED
    BY <2>2
<1>6. ASSUME phase = "filtered", NEW size \in FrameSizes, PostEncodeUpdate(size)
      PROVE  [Engine!Next]_(Engine!vars)
  <2>1. fault = "none" /\ phase' = "idle" /\ UNCHANGED <<fault, oxcf, base_qindex>>
    BY <1>6 DEF PostEncodeUpdate, frame
  <2>2. Engine!PostEncode
    BY <1>6, <2>1 DEF Engine!PostEncode
  <2>3. QED
    BY <2>2 DEF Engine!Next
<1>7. CASE UNCHANGED vars
  BY <1>7, StutterRefines DEF vars, client
<1>8. QED
  BY <1>2, <1>3, <1>4, <1>5, <1>6, <1>7 DEF Next

\* With any number of layers, for every configuration, frame size and table, the
\* engine does what BrcEngine promises to a client of the documented loop.
THEOREM ContractKept == Spec => EngineContract
<1>1. Init => Engine!Init
  BY DEF Init, Engine!Init
<1>2. QED
  BY <1>1, InitClientInv, NextClientInv, NextRefines, PTL
     DEF Spec, EngineContract, Engine!Spec
=============================================================================
