-------------------------- MODULE Vp9Buckets_proofs --------------------------
(***************************************************************************)
(* The levels of Vp9RateControl are those of LayeredBucket: theorem        *)
(* BucketsKept.  Beyond the invariant of Vp9RateControl_proofs it takes    *)
(* the supply of every bucket to be the configured one, and the buckets a  *)
(* frame was credited to to be within their sizes.  That a repeated        *)
(* configuration resets none of them takes every layer to remember the     *)
(* rate of its last frame: theorem RepeatedUpdatesKeepBuckets.             *)
(***************************************************************************)
EXTENDS Vp9RateControl_proofs

-----------------------------------------------------------------------------
(* What each operator does to levels and supplies. *)

LEMMA LevelBits ==
  ASSUME NEW r \in RateControl, NEW bits \in Int
  PROVE  /\ Level(r, bits).bits_off_target = bits
         /\ Level(r, bits).avg_frame_bandwidth = r.avg_frame_bandwidth
  BY DEF Level, RateControl

LEMMA DrainedBits ==
  ASSUME NEW r \in RateControl, NEW bits \in Int
  PROVE  /\ Drained(r, bits).bits_off_target
              = Least(r.bits_off_target - bits, r.maximum_buffer_size)
         /\ Drained(r, bits).avg_frame_bandwidth = r.avg_frame_bandwidth
<1>1. Least(r.bits_off_target - bits, r.maximum_buffer_size) \in Int
  BY RcTyped DEF Least
<1>2. QED
  BY <1>1, LevelBits DEF Drained

LEMMA ResetBits ==
  ASSUME NEW r \in RateControl
  PROVE  /\ ResetRc(r).bits_off_target = r.optimal_buffer_level
         /\ ResetRc(r).avg_frame_bandwidth = r.avg_frame_bandwidth
<1> DEFINE x == Level(r, r.optimal_buffer_level)
<1>1. /\ x \in RateControl /\ x.bits_off_target = r.optimal_buffer_level
      /\ x.avg_frame_bandwidth = r.avg_frame_bandwidth
  <2>1. r.optimal_buffer_level \in Int
    BY RcTyped
  <2>2. QED
    BY <2>1, LevelKeeps, LevelBits
<1>2. ResetRc(r) = [x EXCEPT !.rc_1_frame = 0, !.rc_2_frame = 0]
  BY DEF ResetRc
<1> HIDE DEF x
<1>3. QED
  BY <1>1, <1>2 DEF RateControl

\* New sizes cut the level to the new maximum.
LEMMA ResizedBits ==
  ASSUME NEW r \in RateControl, NEW starting \in Nat, NEW optimal \in Nat, NEW maximum \in Nat
  PROVE  Resized(r, starting, optimal, maximum).bits_off_target
           = Least(r.bits_off_target, maximum)
  BY DEF Resized, RateControl

LEMMA StreamRcBits ==
  ASSUME NEW r \in RateControl, NEW c \in Config, Usable(c)
  PROVE  /\ StreamRc(r, c).bits_off_target = Least(r.bits_off_target, MaximumSize(c))
         /\ StreamRc(r, c).avg_frame_bandwidth = Bandwidth(c) \div Framerate(c)
<1> DEFINE x == [r EXCEPT !.worst_quality = WorstAllowed(c), !.best_quality = BestAllowed(c)]
           y == Resized(x, StartingLevel(c), OptimalLevel(c), MaximumSize(c))
<1>1. x \in RateControl /\ x.bits_off_target = r.bits_off_target
  BY DEF Usable, RateControl
<1> HIDE DEF x
<1>2. /\ StartingLevel(c) \in Nat /\ OptimalLevel(c) \in Nat /\ MaximumSize(c) \in Nat
  BY SizesTyped
<1>3. y \in RateControl
  BY <1>1, <1>2, ResizedTyped, ZenonT(60)
<1>4. y.bits_off_target = Least(x.bits_off_target, MaximumSize(c))
  BY <1>1, <1>2, ResizedBits, ZenonT(60)
<1>5. StreamRc(r, c) = Retimed(y, c)
  BY DEF StreamRc, x
<1> HIDE DEF y
<1>6. QED
  BY <1>1, <1>3, <1>4, <1>5 DEF Retimed, RateControl

LEMMA StartedRcBits ==
  ASSUME NEW r \in RateControl, NEW c \in Config
  PROVE  StartedRc(r, c).avg_frame_bandwidth = r.avg_frame_bandwidth
<1> DEFINE x == Level(r, r.starting_buffer_level)
<1>1. x \in RateControl /\ x.avg_frame_bandwidth = r.avg_frame_bandwidth
  BY LevelKeeps, LevelBits, RcTyped
<1> HIDE DEF x
<1>2. QED
  BY <1>1 DEF StartedRc, RateControl, x

\* The decimator a configuration gives a layer.
Decimator(c, l) ==
  IF c.ts_number_layers > 1 THEN c.ts_rate_decimator[TemporalOf(c, l)] ELSE 1

LEMMA ReconfiguredContextBits ==
  ASSUME NEW lc \in LayerContext, NEW c \in Config, Usable(c), NEW l \in Indices(c),
         NEW r \in RateControl, Configured(r) = StreamShare(c)
  PROVE  LET x == ReconfiguredContext(lc, c, l, r) IN
         /\ x.decimator = Decimator(c, l)
         /\ x.rc.bits_off_target
              = Least(lc.rc.bits_off_target, Allocated(c, l, MaximumSize(c)))
<1> DEFINE y == Resized(lc.rc, Allocated(c, l, r.starting_buffer_level),
                               Allocated(c, l, r.optimal_buffer_level),
                               Allocated(c, l, r.maximum_buffer_size))
           z == [y EXCEPT !.avg_frame_bandwidth =
                             PerFrame(c, LayerBandwidth(c, l), Decimator(c, l)),
                          !.max_frame_bandwidth = r.max_frame_bandwidth,
                          !.worst_quality = r.worst_quality,
                          !.best_quality  = r.best_quality]
<1>1. /\ r.starting_buffer_level = StartingLevel(c)
      /\ r.optimal_buffer_level = OptimalLevel(c)
      /\ r.maximum_buffer_size = MaximumSize(c)
  BY DEF Configured, StreamShare
<1>2. /\ Allocated(c, l, StartingLevel(c)) \in Nat /\ Allocated(c, l, OptimalLevel(c)) \in Nat
      /\ Allocated(c, l, MaximumSize(c)) \in Nat
  BY LayersInArrays, SizesTyped, LayerSizesTyped
<1>3. lc.rc \in RateControl
  BY ContextTyped
<1>4. /\ y \in RateControl
      /\ y.bits_off_target = Least(lc.rc.bits_off_target, Allocated(c, l, MaximumSize(c)))
  <2>1. y = Resized(lc.rc, Allocated(c, l, StartingLevel(c)),
                    Allocated(c, l, OptimalLevel(c)), Allocated(c, l, MaximumSize(c)))
    BY <1>1
  <2> HIDE DEF y
  <2>2. y \in RateControl
    BY <1>2, <1>3, <2>1, ResizedTyped, ZenonT(60)
  <2>3. QED
    BY <1>2, <1>3, <2>1, <2>2, ResizedBits, ZenonT(60)
<1>5. ReconfiguredContext(lc, c, l, r) =
        [lc EXCEPT !.target_bandwidth = LayerBandwidth(c, l),
                   !.decimator = Decimator(c, l), !.rc = z]
  BY DEF ReconfiguredContext, LayerContext, Decimator
<1> HIDE DEF y
<1>6. z.bits_off_target = y.bits_off_target
  BY <1>4 DEF RateControl
<1> HIDE DEF z
<1>7. QED
  BY <1>4, <1>5, <1>6 DEF LayerContext

\* The spatial layers whose rate changed: a reset brings all their layers to
\* their optimum.
Jumped(lcs, c) ==
  {s \in 0 .. c.ss_number_layers - 1 :
     RateJumped(lcs[Index(c, s, c.ts_number_layers - 1)].rc)}

LEMMA ResetContextsBits ==
  ASSUME NEW c, NEW lcs \in [Indices(c) -> LayerContext], NEW l \in Indices(c)
  PROVE  /\ ResetContexts(lcs, c)[l].decimator = lcs[l].decimator
         /\ ResetContexts(lcs, c)[l].rc.bits_off_target
              = IF SpatialOf(c, l) \in Jumped(lcs, c) THEN lcs[l].rc.optimal_buffer_level
                ELSE lcs[l].rc.bits_off_target
<1>1. ResetContexts(lcs, c)[l] = IF SpatialOf(c, l) \in Jumped(lcs, c)
                                 THEN [lcs[l] EXCEPT !.rc = ResetRc(lcs[l].rc)] ELSE lcs[l]
  BY DEF ResetContexts, Jumped, LayerContext
<1>2. lcs[l] \in LayerContext /\ lcs[l].rc \in RateControl
  BY ContextTyped
<1>3. ResetRc(lcs[l].rc).bits_off_target = lcs[l].rc.optimal_buffer_level
  BY <1>2, ResetBits
<1>4. QED
  BY <1>1, <1>2, <1>3 DEF LayerContext

\* An update gives every layer its decimator; it cuts the buckets to their new
\* sizes or, of all layers of some spatial layers, brings them to their optimum.
LEMMA UpdatedContextsBits ==
  ASSUME NEW c \in Config, Usable(c), NEW r \in RateControl,
         Configured(r) = StreamShare(c), current_video_frame \in Nat,
         layer_context \in [Indices(c) -> LayerContext]
  PROVE  LET new == UpdatedContexts(c, r) IN
         /\ \A l \in Indices(c) : new[l].decimator = Decimator(c, l)
         /\ current_video_frame > 0 =>
              \E reset \in SUBSET (0 .. c.ss_number_layers - 1) : \A l \in Indices(c) :
                new[l].rc.bits_off_target
                  = IF SpatialOf(c, l) \in reset THEN Allocated(c, l, OptimalLevel(c))
                    ELSE Least(layer_context[l].rc.bits_off_target,
                               Allocated(c, l, MaximumSize(c)))
         /\ current_video_frame = 0 => \A l \in Indices(c) :
              new[l].rc.bits_off_target <= Allocated(c, l, MaximumSize(c))
<1> DEFINE started == IF current_video_frame = 0
                      THEN [l \in Indices(c) |-> InitialContext(layer_context[l], c, l)]
                      ELSE layer_context
           sized == [l \in Indices(c) |-> ReconfiguredContext(started[l], c, l, r)]
           new == UpdatedContexts(c, r)
           S == 0 .. c.ss_number_layers - 1
           kept(l) == Least(started[l].rc.bits_off_target, Allocated(c, l, MaximumSize(c)))
<1>1. \A l \in Indices(c) : started[l] \in LayerContext
  BY LayersInArrays, InitialContextTyped
<1>2. current_video_frame > 0 => started = layer_context
  OBVIOUS
<1>3. new = IF ResetDue(c) THEN ResetContexts(sized, c) ELSE sized
  BY DEF UpdatedContexts
<1>4. current_video_frame = 0 => ~ResetDue(c)
  BY DEF ResetDue, Usable, MaxSpatialLayers
<1> HIDE DEF started, new
<1>5. \A l \in Indices(c) :
        /\ sized[l] \in LayerContext /\ Configured(sized[l].rc) = LayerShare(c, l)
        /\ sized[l].target_bandwidth = LayerBandwidth(c, l)
  BY <1>1, ReconfiguredContextTyped
<1>6. \A l \in Indices(c) : /\ sized[l].decimator = Decimator(c, l)
                            /\ sized[l].rc.bits_off_target = kept(l)
  BY <1>1, ReconfiguredContextBits
<1>7. LayersHold(c, sized)
  BY <1>5 DEF LayersHold
<1>8. \A l \in Indices(c) : sized[l].rc.optimal_buffer_level = Allocated(c, l, OptimalLevel(c))
  BY <1>5 DEF Configured, LayerShare
<1> HIDE DEF sized, kept
<1>9. \E reset \in SUBSET S : \A l \in Indices(c) :
        /\ new[l].decimator = Decimator(c, l)
        /\ new[l].rc.bits_off_target
             = IF SpatialOf(c, l) \in reset THEN Allocated(c, l, OptimalLevel(c)) ELSE kept(l)
  <2>1. CASE ResetDue(c)
    <3>1. new = ResetContexts(sized, c)
      BY <1>3, <2>1
    <3>2. sized \in [Indices(c) -> LayerContext]
      BY <1>7 DEF LayersHold
    <3>3. Jumped(sized, c) \in SUBSET S /\ \A l \in Indices(c) :
            /\ new[l].decimator = Decimator(c, l)
            /\ new[l].rc.bits_off_target
                 = IF SpatialOf(c, l) \in Jumped(sized, c)
                   THEN Allocated(c, l, OptimalLevel(c)) ELSE kept(l)
      <4>1. Jumped(sized, c) \in SUBSET S
        BY DEF Jumped
      <4>2. QED
        BY <1>6, <1>8, <3>1, <3>2, <4>1, ResetContextsBits
    <3>4. QED
      BY <3>3
  <2>2. CASE ~ResetDue(c)
    <3>1. {} \in SUBSET S /\ \A l \in Indices(c) :
            /\ new[l].decimator = Decimator(c, l)
            /\ new[l].rc.bits_off_target = kept(l)
      BY <1>3, <1>6, <2>2
    <3>2. QED
      BY <3>1
  <2>3. QED
    BY <2>1, <2>2
<1>10. ASSUME current_video_frame = 0, NEW l \in Indices(c)
       PROVE  new[l].rc.bits_off_target <= Allocated(c, l, MaximumSize(c))
  <2>1. new[l].rc.bits_off_target = kept(l)
    BY <1>3, <1>4, <1>6, <1>10
  <2>2. /\ started[l].rc.bits_off_target \in Int
        /\ Allocated(c, l, MaximumSize(c)) \in Nat
    BY <1>1, ContextTyped, RcTyped, LayersInArrays, SizesTyped, LayerSizesTyped
  <2>3. QED
    BY <2>1, <2>2 DEF kept, Least
<1>11. ASSUME current_video_frame > 0
       PROVE  \E reset \in SUBSET S : \A l \in Indices(c) :
                new[l].rc.bits_off_target
                  = IF SpatialOf(c, l) \in reset THEN Allocated(c, l, OptimalLevel(c))
                    ELSE Least(layer_context[l].rc.bits_off_target,
                               Allocated(c, l, MaximumSize(c)))
  BY <1>2, <1>9, <1>11 DEF kept
<1>12. QED
  BY <1>9, <1>10, <1>11 DEF new

-----------------------------------------------------------------------------
(* A frame starts. *)

LEMMA StartFrameBits ==
  ASSUME oxcf \in Config, rc \in RateControl, NEW ft \in FrameTypes, StartFrame(ft)
  PROVE  /\ rc'.bits_off_target = Least(rc.bits_off_target + rc.avg_frame_bandwidth,
                                        rc.maximum_buffer_size)
         /\ rc'.avg_frame_bandwidth = rc.avg_frame_bandwidth
<1> DEFINE target == IF ft = "key" THEN KeyTarget(oxcf, rc, 1)
                     ELSE InterTarget(oxcf, rc, rc.avg_frame_bandwidth)
           bits == Least(rc.bits_off_target + rc.avg_frame_bandwidth, rc.maximum_buffer_size)
           x == Level(rc, bits)
<1>1. rc' = [x EXCEPT !.this_frame_target = target]
  BY DEF StartFrame
<1>2. bits \in Int
  BY RcTyped DEF Least
<1> HIDE DEF target, bits
<1>3. /\ x \in RateControl /\ x.bits_off_target = bits
      /\ x.avg_frame_bandwidth = rc.avg_frame_bandwidth
  BY <1>2, LevelKeeps, LevelBits
<1> HIDE DEF x
<1>4. QED
  BY <1>1, <1>3 DEF RateControl, bits

\* The bucket of a layer whose frame starts is where the layer left it.
LEMMA StartedContextBits ==
  ASSUME NEW s, NEW t, layer_context[Index(oxcf, s, t)] \in LayerContext
  PROVE  /\ StartedContext(s, t).rc.bits_off_target
              = layer_context[Index(oxcf, s, t)].rc.bits_off_target
         /\ StartedContext(s, t).rc.maximum_buffer_size
              = layer_context[Index(oxcf, s, t)].rc.maximum_buffer_size
  BY DEF StartedContext, LayerContext, RateControl

LEMMA CreditedBits ==
  ASSUME oxcf \in Config, NEW lcs \in [Indices(oxcf) -> LayerContext], NEW s, NEW t,
         NEW l \in Indices(oxcf)
  PROVE  LET x == Credited(lcs, s, t)[l] IN
         /\ x.decimator = lcs[l].decimator
         /\ x.rc.bits_off_target
              = IF l \in FromTemporal(oxcf, s, t)
                THEN Least(lcs[l].rc.bits_off_target
                           + PerFrame(oxcf, lcs[l].target_bandwidth, lcs[l].decimator),
                           lcs[l].rc.maximum_buffer_size)
                ELSE lcs[l].rc.bits_off_target
<1> DEFINE bits == Least(lcs[l].rc.bits_off_target
                         + PerFrame(oxcf, lcs[l].target_bandwidth, lcs[l].decimator),
                         lcs[l].rc.maximum_buffer_size)
<1>1. lcs[l] \in LayerContext /\ lcs[l].rc \in RateControl
  BY ContextTyped
<1>2. bits \in Int
  <2>1. /\ lcs[l].rc.bits_off_target \in Int /\ lcs[l].rc.maximum_buffer_size \in Int
        /\ lcs[l].target_bandwidth \in Nat /\ lcs[l].decimator \in Nat
    BY <1>1, ContextTyped, RcTyped
  <2>2. PerFrame(oxcf, lcs[l].target_bandwidth, lcs[l].decimator) \in Nat
    BY <2>1, PerFrameNat
  <2>3. QED
    BY <2>1, <2>2 DEF Least
<1>3. Credited(lcs, s, t)[l] = IF l \in FromTemporal(oxcf, s, t)
                               THEN [lcs[l] EXCEPT !.rc = Level(lcs[l].rc, bits)]
                               ELSE lcs[l]
  BY <1>1 DEF Credited, LayerContext
<1> HIDE DEF bits
<1>4. Level(lcs[l].rc, bits).bits_off_target = bits
  BY <1>1, <1>2, LevelBits
<1>5. QED
  BY <1>1, <1>3, <1>4 DEF LayerContext, bits

\* The supply of a layer, once its decimator is the configured one.
Supplied(l) ==
  oxcf.ts_number_layers > 1
  => layer_context[l].decimator = oxcf.ts_rate_decimator[TemporalOf(oxcf, l)]

\* The start of a layer's frame credits the supply of the layer and of the
\* temporal layers above it to their buckets, and takes the layer's out to rc.
LEMMA StartLayerFrameBits ==
  ASSUME oxcf \in Config, Usable(oxcf), rc \in RateControl,
         LayersHold(oxcf, layer_context), \A l \in Indices(oxcf) : Supplied(l),
         NEW ft \in FrameTypes,
         NEW s \in 0 .. oxcf.ss_number_layers - 1, NEW t \in 0 .. oxcf.ts_number_layers - 1,
         ~Undefined(ft, s, t), StartLayerFrame(ft, s, t)
  PROVE  /\ rc'.bits_off_target = layer_context'[Index(oxcf, s, t)].rc.bits_off_target
         /\ \A m \in Indices(oxcf) :
              /\ layer_context'[m].decimator = IF m = Index(oxcf, s, t)
                                               THEN oxcf.ts_rate_decimator[t]
                                               ELSE layer_context[m].decimator
              /\ layer_context'[m].rc.bits_off_target
                   = IF m \in FromTemporal(oxcf, s, t)
                     THEN Least(layer_context[m].rc.bits_off_target
                                + PerFrame(oxcf, LayerBandwidth(oxcf, m),
                                           oxcf.ts_rate_decimator[TemporalOf(oxcf, m)]),
                                Allocated(oxcf, m, MaximumSize(oxcf)))
                     ELSE layer_context[m].rc.bits_off_target
<1> DEFINE l     == Index(oxcf, s, t)
           start == StartedContext(s, t)
           lc    == [start EXCEPT !.is_key_frame = StartsKey(ft, s, t)]
           lcs   == [layer_context EXCEPT ![l] = lc]
           r     == [lc.rc EXCEPT !.frames_since_key = rc.frames_since_key]
           bits  == layer_context'[l].rc.bits_off_target
<1>1. /\ layer_context' = Credited(lcs, s, t)
      /\ \E target : rc' = [Level(r, bits) EXCEPT !.this_frame_target = target]
  BY DEF StartLayerFrame
<1>2. /\ l \in Indices(oxcf) /\ layer_context \in [Indices(oxcf) -> LayerContext]
      /\ TemporalOf(oxcf, l) = t
      /\ \A m \in Indices(oxcf) : Configured(layer_context[m].rc) = LayerShare(oxcf, m)
      /\ \A m \in Indices(oxcf) :
           layer_context[m].target_bandwidth = LayerBandwidth(oxcf, m)
  BY LayersInArrays DEF LayersHold
<1>3. t > 0 => oxcf.ts_rate_decimator[t] # oxcf.ts_rate_decimator[t - 1]
  BY DEF Undefined
<1>4. /\ start \in LayerContext /\ Configured(start.rc) = LayerShare(oxcf, l)
      /\ start.target_bandwidth = LayerBandwidth(oxcf, l)
      /\ start.decimator = oxcf.ts_rate_decimator[t]
  BY <1>2, <1>3, StartedContextTyped
<1>5. start.rc.bits_off_target = layer_context[l].rc.bits_off_target
  BY <1>2, StartedContextBits
<1>6. StartsKey(ft, s, t) \in BOOLEAN
  BY DEF StartsKey
<1> HIDE DEF start
<1>7. /\ lc \in LayerContext /\ lc.rc = start.rc /\ lc.rc \in RateControl
      /\ lc.target_bandwidth = LayerBandwidth(oxcf, l)
      /\ lc.decimator = oxcf.ts_rate_decimator[t]
  BY <1>4, <1>6 DEF LayerContext
<1> HIDE DEF lc
<1>8. /\ lcs \in [Indices(oxcf) -> LayerContext] /\ lcs[l] = lc
      /\ \A m \in Indices(oxcf) \ {l} : lcs[m] = layer_context[m]
  BY <1>2, <1>7
<1> HIDE DEF lcs
<1>9. ASSUME NEW m \in Indices(oxcf)
      PROVE  /\ lcs[m].target_bandwidth = LayerBandwidth(oxcf, m)
             /\ lcs[m].decimator = IF m = l THEN oxcf.ts_rate_decimator[t]
                                   ELSE layer_context[m].decimator
             /\ lcs[m].rc.bits_off_target = layer_context[m].rc.bits_off_target
             /\ lcs[m].rc.maximum_buffer_size = Allocated(oxcf, m, MaximumSize(oxcf))
  <2>1. CASE m = l
    BY <1>4, <1>5, <1>7, <1>8, <2>1 DEF Configured, LayerShare
  <2>2. CASE m # l
    BY <1>2, <1>8, <2>2 DEF Configured, LayerShare
  <2>3. QED
    BY <2>1, <2>2
<1>10. ASSUME NEW m \in Indices(oxcf), m \in FromTemporal(oxcf, s, t)
       PROVE  lcs[m].decimator = oxcf.ts_rate_decimator[TemporalOf(oxcf, m)]
  <2>1. CASE oxcf.ts_number_layers > 1
    BY <1>2, <1>9, <2>1 DEF Supplied
  <2>2. CASE ~(oxcf.ts_number_layers > 1)
    <3>1. t \in Nat /\ oxcf.ts_number_layers \in Nat /\ \A u \in t .. oxcf.ts_number_layers - 1 :
            u = t
      BY <2>2, ConfigTyped
    <3>2. m = l
      BY <1>10, <3>1 DEF FromTemporal
    <3>3. QED
      BY <1>2, <1>9, <3>2
  <2>3. QED
    BY <2>1, <2>2
<1>11. ASSUME NEW m \in Indices(oxcf)
       PROVE  /\ layer_context'[m].decimator = lcs[m].decimator
              /\ layer_context'[m].rc.bits_off_target
                   = IF m \in FromTemporal(oxcf, s, t)
                     THEN Least(lcs[m].rc.bits_off_target
                                + PerFrame(oxcf, lcs[m].target_bandwidth, lcs[m].decimator),
                                lcs[m].rc.maximum_buffer_size)
                     ELSE lcs[m].rc.bits_off_target
  <2>1. layer_context'[m] = Credited(lcs, s, t)[m]
    BY <1>1
  <2>2. /\ Credited(lcs, s, t)[m].decimator = lcs[m].decimator
        /\ Credited(lcs, s, t)[m].rc.bits_off_target
             = IF m \in FromTemporal(oxcf, s, t)
               THEN Least(lcs[m].rc.bits_off_target
                          + PerFrame(oxcf, lcs[m].target_bandwidth, lcs[m].decimator),
                          lcs[m].rc.maximum_buffer_size)
               ELSE lcs[m].rc.bits_off_target
    BY <1>8, CreditedBits
  <2>3. QED
    BY <2>1, <2>2
<1>12. rc'.bits_off_target = bits
  <2>1. rc.frames_since_key \in Nat
    BY RcTyped
  <2>2. r \in RateControl
    BY <1>7, <2>1 DEF RateControl
  <2> HIDE DEF r, bits
  <2>3. QED
    BY <1>1, <2>2 DEF Level, RateControl
<1>13. QED
  BY <1>9, <1>10, <1>11, <1>12

-----------------------------------------------------------------------------
(* A frame is charged. *)

LEMMA CorrectedBits ==
  ASSUME NEW r \in RateControl, NEW ft, NEW bits
  PROVE  /\ Corrected(r, ft, bits).bits_off_target = r.bits_off_target
         /\ Corrected(r, ft, bits).avg_frame_bandwidth = r.avg_frame_bandwidth
         /\ Corrected(r, ft, bits).maximum_buffer_size = r.maximum_buffer_size
  BY DEF Corrected, RateControl

LEMMA ChargedRcBits ==
  ASSUME rc \in RateControl, base_qindex \in 0 .. MaxQ, frame_type \in FrameTypes,
         MBs \in Nat, NEW bits \in Nat
  PROVE  /\ ChargedRc(bits).bits_off_target
              = Least(rc.bits_off_target - bits, rc.maximum_buffer_size)
         /\ ChargedRc(bits).avg_frame_bandwidth = rc.avg_frame_bandwidth
<1> DEFINE x == Corrected(rc, frame_type, bits)
           y == Drained(x, bits)
           average == AverageAfter(bits)
           last == IF frame_type = "key" THEN base_qindex ELSE y.last_key_q
           since == IF frame_type = "key" THEN 1 ELSE y.frames_since_key + 1
<1>1. /\ x \in RateControl /\ x.bits_off_target = rc.bits_off_target
      /\ x.avg_frame_bandwidth = rc.avg_frame_bandwidth
      /\ x.maximum_buffer_size = rc.maximum_buffer_size
  BY CorrectedKeeps, CorrectedBits
<1> HIDE DEF x
<1>2. /\ y \in RateControl
      /\ y.bits_off_target = Least(x.bits_off_target - bits, x.maximum_buffer_size)
      /\ y.avg_frame_bandwidth = x.avg_frame_bandwidth
  BY <1>1, DrainedKeeps, DrainedBits
<1>3. ChargedRc(bits) =
        [y EXCEPT !.avg_frame_qindex = average, !.last_key_q = last,
                  !.frames_since_key = since,
                  !.last_avg_frame_bandwidth = rc.avg_frame_bandwidth]
  BY <1>2 DEF ChargedRc, RateControl, x
<1> HIDE DEF y, average, last, since
<1>4. /\ ChargedRc(bits).bits_off_target = y.bits_off_target
      /\ ChargedRc(bits).avg_frame_bandwidth = y.avg_frame_bandwidth
  BY <1>2, <1>3 DEF RateControl
<1>5. QED
  BY <1>1, <1>2, <1>4

LEMMA TouchedBits ==
  ASSUME rc \in RateControl, base_qindex \in 0 .. MaxQ, frame_type \in FrameTypes,
         NEW lc \in LayerContext, NEW l, NEW bits \in Nat
  PROVE  /\ Touched(lc, l, bits).decimator = lc.decimator
         /\ Touched(lc, l, bits).rc.bits_off_target
              = IF SpatialOf(oxcf, l) = spatial_layer_id
                   /\ TemporalOf(oxcf, l) > temporal_layer_id
                THEN Least(lc.rc.bits_off_target - bits, lc.rc.maximum_buffer_size)
                ELSE lc.rc.bits_off_target
<1> DEFINE same == SpatialOf(oxcf, l) = spatial_layer_id
           average == AverageAfter(bits)
           marked == [lc.rc EXCEPT !.last_key_q = base_qindex,
                                   !.avg_frame_qindex["key"] = average["key"]]
           keyed == IF frame_type = "key" /\ same THEN marked ELSE lc.rc
           eased == IF KeyOvershot(bits) /\ SpatialOf(oxcf, l) = 0
                    THEN [keyed EXCEPT !.avg_frame_qindex["inter"] = average["inter"]]
                    ELSE keyed
           after == IF same /\ TemporalOf(oxcf, l) > temporal_layer_id
                    THEN Drained(eased, bits) ELSE eased
<1>1. lc.rc \in RateControl
  BY ContextTyped
<1>2. average["key"] \in 0 .. MaxQ /\ average["inter"] \in 0 .. MaxQ
  BY AverageAfterTyped DEF FrameTypes
<1>3. Touched(lc, l, bits) = [lc EXCEPT !.rc = after]
  BY DEF Touched, LayerContext
<1> HIDE DEF same, average
<1>4. /\ marked \in RateControl /\ marked.bits_off_target = lc.rc.bits_off_target
      /\ marked.maximum_buffer_size = lc.rc.maximum_buffer_size
  BY <1>1, <1>2 DEF RateControl, FrameTypes
<1>5. /\ keyed \in RateControl /\ keyed.bits_off_target = lc.rc.bits_off_target
      /\ keyed.maximum_buffer_size = lc.rc.maximum_buffer_size
  <2> HIDE DEF marked
  <2>1. QED
    BY <1>1, <1>4
<1> HIDE DEF keyed
<1>6. /\ eased \in RateControl /\ eased.bits_off_target = keyed.bits_off_target
      /\ eased.maximum_buffer_size = keyed.maximum_buffer_size
  BY <1>2, <1>5 DEF RateControl, FrameTypes
<1> HIDE DEF eased
<1>7. after.bits_off_target
        = IF same /\ TemporalOf(oxcf, l) > temporal_layer_id
          THEN Least(lc.rc.bits_off_target - bits, lc.rc.maximum_buffer_size)
          ELSE lc.rc.bits_off_target
  BY <1>5, <1>6, DrainedBits
<1> HIDE DEF after
<1>8. QED
  BY <1>3, <1>7 DEF LayerContext, same

\* The temporal layers above the frame's own, from what is stored of them.
LEMMA AboveTemporal ==
  ASSUME oxcf \in Config, Usable(oxcf),
         NEW s \in 0 .. oxcf.ss_number_layers - 1, NEW t \in 0 .. oxcf.ts_number_layers - 1,
         NEW l \in Indices(oxcf)
  PROVE  l \in FromTemporal(oxcf, s, t)
           <=> SpatialOf(oxcf, l) = s /\ TemporalOf(oxcf, l) >= t
<1> DEFINE T == oxcf.ts_number_layers
<1>1. T \in Nat /\ t \in Nat
  BY ConfigTyped
<1>2. /\ TemporalOf(oxcf, l) \in 0 .. T - 1
      /\ l = Index(oxcf, SpatialOf(oxcf, l), TemporalOf(oxcf, l))
      /\ \A u \in 0 .. T - 1 :
           SpatialOf(oxcf, Index(oxcf, s, u)) = s /\ TemporalOf(oxcf, Index(oxcf, s, u)) = u
  BY LayersInArrays
<1>3. ASSUME l \in FromTemporal(oxcf, s, t)
      PROVE  SpatialOf(oxcf, l) = s /\ TemporalOf(oxcf, l) >= t
  <2>1. PICK u \in t .. T - 1 : l = Index(oxcf, s, u)
    BY <1>3 DEF FromTemporal
  <2>2. QED
    BY <1>1, <1>2, <2>1
<1>4. ASSUME SpatialOf(oxcf, l) = s, TemporalOf(oxcf, l) >= t
      PROVE  l \in FromTemporal(oxcf, s, t)
  <2>1. TemporalOf(oxcf, l) \in t .. T - 1
    BY <1>1, <1>2, <1>4
  <2>2. QED
    BY <1>2, <1>4, <2>1 DEF FromTemporal
<1>5. QED
  BY <1>3, <1>4

\* The end of a layer's frame charges it to the layer and to the temporal layers
\* above it, and leaves decimators alone.
LEMMA SavedContextsBits ==
  ASSUME ClientInv, InFrame, Layered(oxcf), NEW bits \in Nat, NEW l \in Indices(oxcf)
  PROVE  LET lc == SavedContexts(bits)[l]
             maximum == Allocated(oxcf, l, MaximumSize(oxcf))
         IN  /\ lc.decimator = layer_context[l].decimator
             /\ lc.rc.bits_off_target
                  = IF l = current_layer THEN Least(rc.bits_off_target - bits, maximum)
                    ELSE IF l \in FromTemporal(oxcf, spatial_layer_id, temporal_layer_id)
                    THEN Least(layer_context[l].rc.bits_off_target - bits, maximum)
                    ELSE layer_context[l].rc.bits_off_target
<1> DEFINE s == spatial_layer_id
           t == temporal_layer_id
           maximum == Allocated(oxcf, l, MaximumSize(oxcf))
           lc == layer_context[l]
<1>1. /\ TypeOK /\ phase # "created" /\ Usable(oxcf) /\ oxcf \in Config /\ rc \in RateControl
      /\ LayersHold(oxcf, layer_context)
      /\ Configured(rc) = LayerShare(oxcf, current_layer)
  BY DEF ClientInv, TypeOK, RangesHold, InFrame
<1>2. /\ base_qindex \in 0 .. MaxQ /\ frame_type \in FrameTypes /\ MBs \in Nat
      /\ s \in 0 .. oxcf.ss_number_layers - 1 /\ t \in 0 .. oxcf.ts_number_layers - 1
  BY <1>1 DEF TypeOK
<1>3. lc \in LayerContext /\ Configured(lc.rc) = LayerShare(oxcf, l)
      /\ DOMAIN layer_context = Indices(oxcf)
  BY <1>1 DEF LayersHold
<1>4. lc.rc.maximum_buffer_size = maximum
  BY <1>3 DEF Configured, LayerShare
<1>5. CASE l = current_layer
  <2>1. /\ ChargedRc(bits).bits_off_target
             = Least(rc.bits_off_target - bits, rc.maximum_buffer_size)
    BY <1>1, <1>2, ChargedRcBits
  <2>2. rc.maximum_buffer_size = maximum
    BY <1>1, <1>5 DEF Configured, LayerShare
  <2>3. SavedContexts(bits)[l] = [lc EXCEPT !.rc = ChargedRc(bits),
                                            !.target_bandwidth = target_bandwidth]
    BY <1>3, <1>5 DEF SavedContexts
  <2> HIDE DEF lc, maximum
  <2>4. /\ SavedContexts(bits)[l].decimator = lc.decimator
        /\ SavedContexts(bits)[l].rc = ChargedRc(bits)
    BY <1>3, <2>3 DEF LayerContext
  <2>5. QED
    BY <1>5, <2>1, <2>2, <2>4 DEF lc, maximum
<1>6. CASE l # current_layer
  <2>1. SavedContexts(bits)[l] = Touched(lc, l, bits)
    BY <1>3, <1>6 DEF SavedContexts
  <2>2. /\ Touched(lc, l, bits).decimator = lc.decimator
        /\ Touched(lc, l, bits).rc.bits_off_target
             = IF SpatialOf(oxcf, l) = s /\ TemporalOf(oxcf, l) > t
               THEN Least(lc.rc.bits_off_target - bits, lc.rc.maximum_buffer_size)
               ELSE lc.rc.bits_off_target
    BY <1>1, <1>2, <1>3, TouchedBits
  <2>3. l \in FromTemporal(oxcf, s, t)
          <=> SpatialOf(oxcf, l) = s /\ TemporalOf(oxcf, l) > t
    <3>1. l \in FromTemporal(oxcf, s, t)
            <=> SpatialOf(oxcf, l) = s /\ TemporalOf(oxcf, l) >= t
      BY <1>1, <1>2, AboveTemporal
    <3>2. /\ l = Index(oxcf, SpatialOf(oxcf, l), TemporalOf(oxcf, l))
          /\ TemporalOf(oxcf, l) \in 0 .. oxcf.ts_number_layers - 1
      BY <1>1, LayersInArrays
    <3>3. SpatialOf(oxcf, l) = s => TemporalOf(oxcf, l) # t
      BY <1>6, <3>2 DEF current_layer
    <3>4. oxcf.ts_number_layers \in Nat
      BY <1>1, ConfigTyped
    <3>5. QED
      BY <1>2, <3>1, <3>2, <3>3, <3>4
  <2> HIDE DEF lc, maximum
  <2>4. QED
    BY <1>4, <1>6, <2>1, <2>2, <2>3 DEF lc, maximum
<1>7. QED
  BY <1>5, <1>6

-----------------------------------------------------------------------------
(* Supplies and levels under the steps of the client. *)

\* The supply of every bucket is the configured one.
SuppliesHold ==
  phase # "created" =>
    /\ ~Layered(oxcf) => rc.avg_frame_bandwidth = Bandwidth(oxcf) \div Framerate(oxcf)
    /\ Layered(oxcf) => \A l \in Indices(oxcf) : Supplied(l)

\* The buckets that pay for a frame are within their sizes, so that paying it
\* never meets the clip of Drained.
PaidAhead ==
  InFrame =>
    \A l \in Indices(oxcf) \cap FromTemporal(oxcf, spatial_layer_id, temporal_layer_id) :
      BucketLevel(l) <= Share(l, MaximumSize(oxcf))

BucketInv == ClientInv /\ SuppliesHold /\ PaidAhead

LEMMA SingleLayer ==
  ASSUME NEW c \in Config, Usable(c), ~Layered(c)
  PROVE  /\ c.ss_number_layers = 1 /\ c.ts_number_layers = 1
         /\ Indices(c) = {0} /\ FromTemporal(c, 0, 0) = {0} /\ Index(c, 0, 0) = 0
<1>1. c.ss_number_layers = 1 /\ c.ts_number_layers = 1
  BY DEF Usable, Layered, MaxSpatialLayers, MaxTemporalLayers
<1>2. Indices(c) = {0} /\ \A u \in 0 .. 0 : Index(c, 0, u) = 0
  BY <1>1 DEF Indices, Index
<1>3. FromTemporal(c, 0, 0) = {0}
  BY <1>1, <1>2 DEF FromTemporal
<1>4. QED
  BY <1>1, <1>2, <1>3

LEMMA FrameratesCopied ==
  ASSUME NEW c \in Config
  PROVE  Framerate(Copied(c)) = Framerate(c)
  BY DEF Copied, Config, Framerate

\* A bucket holds an integer, and its size is a natural number.
LEMMA BucketTyped ==
  ASSUME ClientInv, phase # "created", NEW l \in Indices(oxcf)
  PROVE  /\ BucketLevel(l) \in Int
         /\ Share(l, MaximumSize(oxcf)) \in Nat /\ Share(l, OptimalLevel(oxcf)) \in Nat
         /\ InFrame => current_layer \in Indices(oxcf)
<1>1. /\ oxcf \in Config /\ Usable(oxcf) /\ rc \in RateControl
      /\ layer_context \in [Indices(oxcf) -> LayerContext]
      /\ spatial_layer_id \in 0 .. oxcf.ss_number_layers - 1
      /\ temporal_layer_id \in 0 .. oxcf.ts_number_layers - 1
  BY DEF ClientInv, TypeOK, RangesHold
<1>2. BucketLevel(l) \in Int
  BY <1>1, RcTyped, ContextTyped DEF BucketLevel
<1>3. Share(l, MaximumSize(oxcf)) \in Nat /\ Share(l, OptimalLevel(oxcf)) \in Nat
  BY <1>1, LayersInArrays, SizesTyped, LayerSizesTyped DEF Share
<1>4. current_layer \in Indices(oxcf)
  BY <1>1, LayersInArrays DEF current_layer
<1>5. QED
  BY <1>2, <1>3, <1>4

LEMMA InitialisedSupplies ==
  ASSUME ClientInv, NEW c \in Configs, RateControlInit(c), phase' = "idle"
  PROVE  SuppliesHold'
<1> DEFINE d == Copied(c)
           r == StreamRc(BlankRc, c)
           initial == [l \in Indices(c) |-> InitialContext(BlankContext, d, l)]
<1>1. /\ Validate(c) /\ ReadsInTable(c) /\ rc' = StartedRc(r, c) /\ oxcf' = d
      /\ Layered(c) => layer_context'
           = [l \in Indices(c) |-> ReconfiguredContext(initial[l], d, l, r)]
  <2>1. phase' # phase
    BY DEF RateControlInit
  <2>2. \A l \in Indices(c) : [m \in Indices(c) |-> BlankContext][l] = BlankContext
    OBVIOUS
  <2>3. QED
    BY <2>1, <2>2 DEF RateControlInit
<1>2. c \in Config /\ Usable(c)
  BY <1>1, ConfigUsable, ParameterAssumption
<1>3. /\ d \in Config /\ Usable(d) /\ Indices(d) = Indices(c) /\ (Layered(d) <=> Layered(c))
      /\ Bandwidth(d) = Bandwidth(c) /\ Framerate(d) = Framerate(c)
      /\ StreamShare(d) = StreamShare(c)
  BY <1>2, CopiedKeeps, FrameratesCopied DEF StreamShare
<1>4. /\ r \in RateControl /\ Configured(r) = StreamShare(d)
      /\ r.avg_frame_bandwidth = Bandwidth(c) \div Framerate(c)
  BY <1>2, <1>3, BlankTyped, StreamRcTyped, StreamRcBits
<1> HIDE DEF r, d
<1>5. rc'.avg_frame_bandwidth = Bandwidth(oxcf') \div Framerate(oxcf')
  BY <1>1, <1>2, <1>3, <1>4, StartedRcBits
<1>6. ASSUME Layered(d), NEW l \in Indices(d)
      PROVE  layer_context'[l].decimator = Decimator(d, l)
  <2>1. initial[l] \in LayerContext
    BY <1>3, BlankTyped, LayersInArrays, InitialContextTyped
  <2>2. layer_context'[l] = ReconfiguredContext(initial[l], d, l, r)
    BY <1>1, <1>3, <1>6
  <2> HIDE DEF initial
  <2>3. QED
    BY <1>3, <1>4, <2>1, <2>2, ReconfiguredContextBits
<1>7. QED
  BY <1>1, <1>5, <1>6 DEF SuppliesHold, Supplied, Decimator

\* An update cuts the levels to the new sizes or brings those of some spatial
\* layers to the new optimum; before the first frame they may start over.
LEMMA UpdatedBuckets ==
  ASSUME BucketInv, phase = "idle", NEW c \in Configs, Validate(c), ReadsInTable(c),
         SameLayers(c), Install(Copied(c)), phase' = "idle",
         current_video_frame' = current_video_frame
  PROVE  /\ SuppliesHold'
         /\ current_video_frame > 0 =>
              \E reset \in SUBSET (0 .. oxcf.ss_number_layers - 1) : \A l \in Indices(oxcf) :
                BucketLevel(l)' = IF SpatialOf(oxcf, l) \in reset
                                  THEN Share(l, OptimalLevel(oxcf))'
                                  ELSE Least(BucketLevel(l), Share(l, MaximumSize(oxcf))')
         /\ current_video_frame = 0 => \A l \in Indices(oxcf) :
              BucketLevel(l)' <= Share(l, MaximumSize(oxcf))'
<1> DEFINE d == Copied(c)
           r == StreamRc(rc, d)
           new == UpdatedContexts(d, r)
           S == 0 .. oxcf.ss_number_layers - 1
<1>1. c \in Config /\ Usable(c)
  BY ConfigUsable, ParameterAssumption
<1>2. /\ d \in Config /\ Usable(d)
      /\ d.ss_number_layers = oxcf.ss_number_layers
      /\ d.ts_number_layers = oxcf.ts_number_layers
  BY <1>1, CopiedKeeps DEF SameLayers
<1>3. /\ Indices(d) = Indices(oxcf) /\ (Layered(d) <=> Layered(oxcf))
      /\ \A l : SpatialOf(d, l) = SpatialOf(oxcf, l)
  BY <1>2 DEF Indices, Layered, SpatialOf
<1>4. /\ rc \in RateControl /\ layer_context \in [Indices(d) -> LayerContext]
      /\ current_video_frame \in Nat /\ oxcf \in Config /\ Usable(oxcf)
  BY <1>3 DEF BucketInv, ClientInv, TypeOK, RangesHold
<1>5. /\ r \in RateControl /\ Configured(r) = StreamShare(d)
      /\ r.bits_off_target = Least(rc.bits_off_target, MaximumSize(d))
      /\ r.avg_frame_bandwidth = Bandwidth(d) \div Framerate(d)
      /\ r.optimal_buffer_level = OptimalLevel(d)
  <2>1. /\ r \in RateControl /\ Configured(r) = StreamShare(d)
        /\ r.bits_off_target = Least(rc.bits_off_target, MaximumSize(d))
        /\ r.avg_frame_bandwidth = Bandwidth(d) \div Framerate(d)
    BY <1>2, <1>4, StreamRcTyped, StreamRcBits
  <2>2. QED
    BY <2>1 DEF Configured, StreamShare
<1>6. /\ oxcf' = d /\ layer_context' = IF Layered(d) THEN new ELSE layer_context
      /\ rc' = IF ~Layered(d) /\ ResetDue(d) /\ RateJumped(r) THEN ResetRc(r) ELSE r
  BY DEF Install
<1>7. ~InFrame /\ ~InFrame'
  BY DEF InFrame
<1>8. CASE Layered(d)
  <2> HIDE DEF d, r
  <2>1. /\ \A l \in Indices(d) : new[l].decimator = Decimator(d, l)
        /\ current_video_frame > 0 =>
             \E reset \in SUBSET (0 .. d.ss_number_layers - 1) : \A l \in Indices(d) :
               new[l].rc.bits_off_target
                 = IF SpatialOf(d, l) \in reset THEN Allocated(d, l, OptimalLevel(d))
                   ELSE Least(layer_context[l].rc.bits_off_target,
                              Allocated(d, l, MaximumSize(d)))
        /\ current_video_frame = 0 => \A l \in Indices(d) :
             new[l].rc.bits_off_target <= Allocated(d, l, MaximumSize(d))
    BY <1>2, <1>4, <1>5, UpdatedContextsBits
  <2> HIDE DEF new
  <2>2. \A l : /\ BucketLevel(l) = layer_context[l].rc.bits_off_target
               /\ BucketLevel(l)' = new[l].rc.bits_off_target
    BY <1>3, <1>6, <1>7, <1>8 DEF BucketLevel
  <2>3. \A l : /\ Share(l, OptimalLevel(oxcf))' = Allocated(d, l, OptimalLevel(d))
               /\ Share(l, MaximumSize(oxcf))' = Allocated(d, l, MaximumSize(d))
    BY <1>6, <1>8 DEF Share
  <2>4. SuppliesHold'
    BY <1>6, <1>8, <2>1 DEF SuppliesHold, Supplied, Decimator
  <2>5. ASSUME current_video_frame > 0
        PROVE  \E reset \in SUBSET S : \A l \in Indices(oxcf) :
                 BucketLevel(l)' = IF SpatialOf(oxcf, l) \in reset
                                   THEN Share(l, OptimalLevel(oxcf))'
                                   ELSE Least(BucketLevel(l), Share(l, MaximumSize(oxcf))')
    <3>1. PICK reset \in SUBSET S : \A l \in Indices(d) :
            new[l].rc.bits_off_target
              = IF SpatialOf(d, l) \in reset THEN Allocated(d, l, OptimalLevel(d))
                ELSE Least(layer_context[l].rc.bits_off_target,
                           Allocated(d, l, MaximumSize(d)))
      BY <1>2, <2>1, <2>5
    <3>2. \A l \in Indices(oxcf) :
            BucketLevel(l)' = IF SpatialOf(oxcf, l) \in reset
                              THEN Share(l, OptimalLevel(oxcf))'
                              ELSE Least(BucketLevel(l), Share(l, MaximumSize(oxcf))')
      BY <1>3, <2>2, <2>3, <3>1
    <3>3. QED
      BY <3>2
  <2>6. QED
    BY <1>3, <2>1, <2>2, <2>3, <2>4, <2>5
<1>9. CASE ~Layered(d)
  <2> HIDE DEF d, r, new
  <2>1. /\ rc'.bits_off_target \in {OptimalLevel(d), Least(rc.bits_off_target, MaximumSize(d))}
        /\ rc'.avg_frame_bandwidth = Bandwidth(d) \div Framerate(d)
        /\ ~ResetDue(d) => rc'.bits_off_target = Least(rc.bits_off_target, MaximumSize(d))
    BY <1>5, <1>6, ResetBits
  <2>2. \A l : BucketLevel(l) = rc.bits_off_target /\ BucketLevel(l)' = rc'.bits_off_target
    BY <1>3, <1>6, <1>9 DEF BucketLevel
  <2>3. \A l : /\ Share(l, OptimalLevel(oxcf))' = OptimalLevel(d)
               /\ Share(l, MaximumSize(oxcf))' = MaximumSize(d)
    BY <1>6, <1>9 DEF Share
  <2>4. SuppliesHold'
    BY <1>6, <1>9, <2>1 DEF SuppliesHold
  <2>5. \A l \in Indices(oxcf) : SpatialOf(oxcf, l) = 0 /\ 0 \in S
    <3>1. Indices(oxcf) = {0} /\ oxcf.ss_number_layers = 1 /\ oxcf.ts_number_layers = 1
      BY <1>3, <1>4, <1>9, SingleLayer
    <3>2. QED
      BY <3>1 DEF SpatialOf
  <2>6. \E reset \in SUBSET S : \A l \in Indices(oxcf) :
          BucketLevel(l)' = IF SpatialOf(oxcf, l) \in reset
                            THEN Share(l, OptimalLevel(oxcf))'
                            ELSE Least(BucketLevel(l), Share(l, MaximumSize(oxcf))')
    <3>1. CASE rc'.bits_off_target = OptimalLevel(d)
      <4>1. \A l \in Indices(oxcf) :
              BucketLevel(l)' = IF SpatialOf(oxcf, l) \in S
                                THEN Share(l, OptimalLevel(oxcf))'
                                ELSE Least(BucketLevel(l), Share(l, MaximumSize(oxcf))')
        BY <2>2, <2>3, <2>5, <3>1
      <4>2. QED
        BY <4>1
    <3>2. CASE rc'.bits_off_target = Least(rc.bits_off_target, MaximumSize(d))
      <4>1. {} \in SUBSET S /\ \A l \in Indices(oxcf) :
              BucketLevel(l)' = IF SpatialOf(oxcf, l) \in {}
                                THEN Share(l, OptimalLevel(oxcf))'
                                ELSE Least(BucketLevel(l), Share(l, MaximumSize(oxcf))')
        BY <2>2, <2>3, <3>2
      <4>2. QED
        BY <4>1
    <3>3. QED
      BY <2>1, <3>1, <3>2
  <2>7. current_video_frame = 0 => rc'.bits_off_target <= MaximumSize(d)
    <3>1. rc.bits_off_target \in Int /\ MaximumSize(d) \in Nat
      BY <1>2, <1>4, RcTyped, SizesTyped
    <3>2. current_video_frame = 0 => ~ResetDue(d)
      BY <1>2 DEF ResetDue, Usable, MaxSpatialLayers
    <3>3. QED
      BY <2>1, <3>1, <3>2 DEF Least
  <2>8. QED
    BY <2>2, <2>3, <2>4, <2>6, <2>7
<1>10. QED
  BY <1>8, <1>9

\* The start of a frame credits its buckets, up to their sizes.
LEMMA StartedBuckets ==
  ASSUME BucketInv, phase = "idle", NEW ft \in FrameTypes,
         NEW s \in 0 .. oxcf.ss_number_layers - 1, NEW t \in 0 .. oxcf.ts_number_layers - 1,
         ComputeQp(ft, s, t), phase' = "computed"
  PROVE  /\ SuppliesHold'
         /\ \A l \in Indices(oxcf) :
              BucketLevel(l)' = IF l \in FromTemporal(oxcf, s, t)
                                THEN Least(BucketLevel(l) + Rate(l), Share(l, MaximumSize(oxcf)))
                                ELSE BucketLevel(l)
<1>1. /\ ~Undefined(ft, s, t) /\ spatial_layer_id' = s /\ temporal_layer_id' = t
      /\ Layered(oxcf) => StartLayerFrame(ft, s, t)
      /\ ~Layered(oxcf) => StartFrame(ft)
      /\ oxcf' = oxcf
  <2>1. phase' # phase
    OBVIOUS
  <2>2. QED
    BY <2>1 DEF ComputeQp
<1>2. /\ Usable(oxcf) /\ oxcf \in Config /\ rc \in RateControl
      /\ ~Layered(oxcf) => Configured(rc) = StreamShare(oxcf)
      /\ Layered(oxcf) => LayersHold(oxcf, layer_context)
      /\ ~Layered(oxcf) => rc.avg_frame_bandwidth = Bandwidth(oxcf) \div Framerate(oxcf)
      /\ Layered(oxcf) => \A l \in Indices(oxcf) : Supplied(l)
  BY DEF BucketInv, ClientInv, TypeOK, RangesHold, SuppliesHold
<1>3. ~InFrame /\ InFrame' /\ current_layer' = Index(oxcf, s, t)
  BY <1>1 DEF InFrame, current_layer
<1>4. CASE Layered(oxcf)
  <2>1. StartLayerFrame(ft, s, t)
    BY <1>1, <1>4
  <2>2. /\ rc'.bits_off_target = layer_context'[Index(oxcf, s, t)].rc.bits_off_target
        /\ \A m \in Indices(oxcf) :
             /\ layer_context'[m].decimator = IF m = Index(oxcf, s, t)
                                              THEN oxcf.ts_rate_decimator[t]
                                              ELSE layer_context[m].decimator
             /\ layer_context'[m].rc.bits_off_target
                  = IF m \in FromTemporal(oxcf, s, t)
                    THEN Least(layer_context[m].rc.bits_off_target
                               + PerFrame(oxcf, LayerBandwidth(oxcf, m),
                                          oxcf.ts_rate_decimator[TemporalOf(oxcf, m)]),
                               Allocated(oxcf, m, MaximumSize(oxcf)))
                    ELSE layer_context[m].rc.bits_off_target
    BY <1>1, <1>2, <1>4, <2>1, StartLayerFrameBits
  <2>3. \A l : /\ BucketLevel(l) = layer_context[l].rc.bits_off_target
               /\ BucketLevel(l)' = layer_context'[l].rc.bits_off_target
    BY <1>1, <1>3, <1>4, <2>2 DEF BucketLevel
  <2>4. \A l : /\ Rate(l) = PerFrame(oxcf, LayerBandwidth(oxcf, l),
                                     oxcf.ts_rate_decimator[TemporalOf(oxcf, l)])
               /\ Share(l, MaximumSize(oxcf)) = Allocated(oxcf, l, MaximumSize(oxcf))
    BY <1>4 DEF Rate, Share
  <2>5. TemporalOf(oxcf, Index(oxcf, s, t)) = t
    BY <1>2, LayersInArrays
  <2>6. \A l \in Indices(oxcf) : Supplied(l)'
    BY <1>1, <1>2, <1>4, <2>2, <2>5 DEF Supplied
  <2>7. SuppliesHold'
    BY <1>1, <1>4, <2>6 DEF SuppliesHold
  <2>8. QED
    BY <2>2, <2>3, <2>4, <2>7
<1>5. CASE ~Layered(oxcf)
  <2>1. /\ rc'.bits_off_target = Least(rc.bits_off_target + rc.avg_frame_bandwidth,
                                       rc.maximum_buffer_size)
        /\ rc'.avg_frame_bandwidth = rc.avg_frame_bandwidth
    BY <1>1, <1>2, <1>5, StartFrameBits
  <2>2. \A l : /\ BucketLevel(l) = rc.bits_off_target /\ BucketLevel(l)' = rc'.bits_off_target
               /\ Rate(l) = rc.avg_frame_bandwidth
               /\ Share(l, MaximumSize(oxcf)) = rc.maximum_buffer_size
    BY <1>1, <1>2, <1>5 DEF BucketLevel, Rate, Share, Configured, StreamShare
  <2>3. \A l \in Indices(oxcf) : l \in FromTemporal(oxcf, s, t)
    <3>1. /\ oxcf.ss_number_layers = 1 /\ oxcf.ts_number_layers = 1
          /\ Indices(oxcf) = {0} /\ FromTemporal(oxcf, 0, 0) = {0}
      BY <1>2, <1>5, SingleLayer
    <3>2. s = 0 /\ t = 0
      BY <3>1
    <3>3. QED
      BY <3>1, <3>2
  <2>4. SuppliesHold'
    BY <1>1, <1>2, <1>5, <2>1 DEF SuppliesHold
  <2>5. QED
    BY <2>1, <2>2, <2>3, <2>4
<1>6. QED
  BY <1>4, <1>5

LEMMA StartedPaidAhead ==
  ASSUME BucketInv, phase = "idle", NEW ft \in FrameTypes,
         NEW s \in 0 .. oxcf.ss_number_layers - 1, NEW t \in 0 .. oxcf.ts_number_layers - 1,
         ComputeQp(ft, s, t), phase' = "computed"
  PROVE  PaidAhead'
<1>1. /\ ClientInv /\ oxcf' = oxcf /\ spatial_layer_id' = s /\ temporal_layer_id' = t
  BY DEF BucketInv, ComputeQp
<1>2. ASSUME NEW l \in Indices(oxcf), l \in FromTemporal(oxcf, s, t)
      PROVE  BucketLevel(l)' <= Share(l, MaximumSize(oxcf))'
  <2>1. BucketLevel(l)' = Least(BucketLevel(l) + Rate(l), Share(l, MaximumSize(oxcf)))
    BY <1>2, StartedBuckets
  <2>2. BucketLevel(l) \in Int /\ Share(l, MaximumSize(oxcf)) \in Nat
    BY <1>1, BucketTyped
  <2>3. Rate(l) \in Nat
    <3>1. /\ oxcf \in Config /\ Usable(oxcf)
          /\ l \in LayerIds /\ TemporalOf(oxcf, l) \in TemporalIds
      BY <1>1, LayersInArrays DEF ClientInv, TypeOK, RangesHold
    <3>2. oxcf.ts_rate_decimator[TemporalOf(oxcf, l)] \in Nat /\ LayerBandwidth(oxcf, l) \in Nat
      BY <3>1, ConfigTyped, LayerSizesTyped
    <3>3. QED
      BY <3>1, <3>2, SizesTyped, PerFrameNat, DivNat DEF Rate
  <2>4. Share(l, MaximumSize(oxcf))' = Share(l, MaximumSize(oxcf))
    BY <1>1 DEF Share
  <2>5. QED
    BY <2>1, <2>2, <2>3, <2>4 DEF Least
<1>3. QED
  BY <1>1, <1>2 DEF PaidAhead

\* The end of a frame takes its bits from its buckets, exactly.
LEMMA ChargedBuckets ==
  ASSUME BucketInv, phase = "filtered", NEW size \in FrameSizes, PostEncodeUpdate(size)
  PROVE  /\ SuppliesHold'
         /\ \A l \in Indices(oxcf) :
              BucketLevel(l)' = IF l \in FromTemporal(oxcf, spatial_layer_id, temporal_layer_id)
                                THEN BucketLevel(l) - 8 * size ELSE BucketLevel(l)
<1> DEFINE bits == 8 * size
           s == spatial_layer_id
           t == temporal_layer_id
<1>1. bits \in Nat
  BY ParameterAssumption
<1>2. /\ rc' = ChargedRc(bits) /\ oxcf' = oxcf /\ phase' = "idle"
      /\ layer_context' = IF Layered(oxcf) THEN SavedContexts(bits) ELSE layer_context
  BY DEF PostEncodeUpdate
<1> HIDE DEF bits
<1>3. /\ ClientInv /\ PaidAhead /\ InFrame /\ ~InFrame' /\ phase # "created"
  BY <1>2 DEF BucketInv, InFrame
<1>4. /\ Usable(oxcf) /\ oxcf \in Config /\ rc \in RateControl
      /\ base_qindex \in 0 .. MaxQ /\ frame_type \in FrameTypes /\ MBs \in Nat
      /\ s \in 0 .. oxcf.ss_number_layers - 1 /\ t \in 0 .. oxcf.ts_number_layers - 1
      /\ ~Layered(oxcf) => Configured(rc) = StreamShare(oxcf)
  BY <1>3 DEF ClientInv, TypeOK, RangesHold
<1>5. /\ ~Layered(oxcf) => rc.avg_frame_bandwidth = Bandwidth(oxcf) \div Framerate(oxcf)
      /\ Layered(oxcf) => \A l \in Indices(oxcf) : Supplied(l)
  BY <1>3 DEF BucketInv, SuppliesHold
<1>6. /\ ChargedRc(bits).bits_off_target
           = Least(rc.bits_off_target - bits, rc.maximum_buffer_size)
      /\ ChargedRc(bits).avg_frame_bandwidth = rc.avg_frame_bandwidth
  BY <1>1, <1>4, ChargedRcBits
<1>7. ASSUME NEW l \in Indices(oxcf), l \in FromTemporal(oxcf, s, t)
      PROVE  Least(BucketLevel(l) - bits, Share(l, MaximumSize(oxcf))) = BucketLevel(l) - bits
  <2>1. BucketLevel(l) <= Share(l, MaximumSize(oxcf))
    BY <1>3, <1>7 DEF PaidAhead
  <2>2. BucketLevel(l) \in Int /\ Share(l, MaximumSize(oxcf)) \in Nat
    BY <1>3, BucketTyped
  <2>3. QED
    BY <1>1, <2>1, <2>2 DEF Least
<1>8. CASE Layered(oxcf)
  <2>1. ASSUME NEW l \in Indices(oxcf)
        PROVE  /\ layer_context'[l].decimator = layer_context[l].decimator
               /\ layer_context'[l].rc.bits_off_target
                    = IF l \in FromTemporal(oxcf, s, t)
                      THEN Least(BucketLevel(l) - bits, Share(l, MaximumSize(oxcf)))
                      ELSE BucketLevel(l)
    <3>1. /\ SavedContexts(bits)[l].decimator = layer_context[l].decimator
          /\ SavedContexts(bits)[l].rc.bits_off_target
               = IF l = current_layer
                 THEN Least(rc.bits_off_target - bits, Allocated(oxcf, l, MaximumSize(oxcf)))
                 ELSE IF l \in FromTemporal(oxcf, s, t)
                 THEN Least(layer_context[l].rc.bits_off_target - bits,
                            Allocated(oxcf, l, MaximumSize(oxcf)))
                 ELSE layer_context[l].rc.bits_off_target
      BY <1>1, <1>3, <1>8, SavedContextsBits
    <3>2. /\ Share(l, MaximumSize(oxcf)) = Allocated(oxcf, l, MaximumSize(oxcf))
          /\ BucketLevel(l) = IF l = current_layer THEN rc.bits_off_target
                              ELSE layer_context[l].rc.bits_off_target
      BY <1>3, <1>8 DEF Share, BucketLevel
    <3>3. current_layer \in FromTemporal(oxcf, s, t)
      <4>1. t \in t .. oxcf.ts_number_layers - 1
        BY <1>4, ConfigTyped
      <4>2. QED
        BY <4>1 DEF FromTemporal, current_layer
    <3>4. layer_context'[l] = SavedContexts(bits)[l]
      BY <1>2, <1>8
    <3>5. QED
      BY <3>1, <3>2, <3>3, <3>4
  <2>2. \A l : BucketLevel(l)' = layer_context'[l].rc.bits_off_target
    BY <1>2, <1>3, <1>8 DEF BucketLevel
  <2>3. SuppliesHold'
    BY <1>2, <1>5, <1>8, <2>1 DEF SuppliesHold, Supplied
  <2>4. QED
    BY <1>7, <2>1, <2>2, <2>3 DEF bits
<1>9. CASE ~Layered(oxcf)
  <2>1. \A l : /\ BucketLevel(l) = rc.bits_off_target /\ BucketLevel(l)' = rc'.bits_off_target
               /\ Share(l, MaximumSize(oxcf)) = rc.maximum_buffer_size
    BY <1>2, <1>4, <1>9 DEF BucketLevel, Share, Configured, StreamShare
  <2>2. \A l \in Indices(oxcf) : l \in FromTemporal(oxcf, s, t)
    <3>1. /\ oxcf.ss_number_layers = 1 /\ oxcf.ts_number_layers = 1
          /\ Indices(oxcf) = {0} /\ FromTemporal(oxcf, 0, 0) = {0}
      BY <1>4, <1>9, SingleLayer
    <3>2. s = 0 /\ t = 0
      BY <1>4, <3>1
    <3>3. QED
      BY <3>1, <3>2
  <2>3. SuppliesHold'
    BY <1>2, <1>5, <1>6, <1>9 DEF SuppliesHold
  <2>4. QED
    BY <1>2, <1>6, <1>7, <2>1, <2>2, <2>3 DEF bits
<1>10. QED
  BY <1>8, <1>9

LEMMA NextBucketInv == BucketInv /\ [Next]_vars => BucketInv'
<1> SUFFICES ASSUME BucketInv, [Next]_vars PROVE BucketInv'
  OBVIOUS
<1>1. ClientInv /\ ClientInv'
  BY NextClientInv DEF BucketInv
<1>2. ASSUME UNCHANGED <<phase, engine>> PROVE SuppliesHold' /\ PaidAhead'
  <2>1. UNCHANGED <<phase, oxcf, rc, layer_context, spatial_layer_id, temporal_layer_id>>
    BY <1>2 DEF engine, stream, frame
  <2>2. SuppliesHold'
    BY <2>1 DEF BucketInv, SuppliesHold, Supplied
  <2>3. \A l : /\ BucketLevel(l)' = BucketLevel(l)
               /\ Share(l, MaximumSize(oxcf))' = Share(l, MaximumSize(oxcf))
    BY <2>1 DEF BucketLevel, Share, InFrame, current_layer
  <2>4. PaidAhead'
    BY <2>1, <2>3 DEF BucketInv, PaidAhead, InFrame
  <2>5. QED
    BY <2>2, <2>4
<1>3. ASSUME NEW c \in Configs, RateControlInit(c) PROVE SuppliesHold' /\ PaidAhead'
  <2>1. CASE phase' = "idle"
    BY <1>1, <1>3, <2>1, InitialisedSupplies DEF PaidAhead, InFrame
  <2>2. CASE phase' # "idle"
    BY <1>2, <1>3, <2>2 DEF RateControlInit
  <2>3. QED
    BY <2>1, <2>2
<1>4. ASSUME phase = "idle", NEW c \in Configs, Validate(c), SameLayers(c), UpdateConfig(c)
      PROVE  SuppliesHold' /\ PaidAhead'
  <2>1. CASE ReadsInTable(c)
    <3>1. Install(Copied(c)) /\ phase' = "idle" /\ current_video_frame' = current_video_frame
      BY <1>4, <2>1 DEF UpdateConfig
    <3>2. SuppliesHold'
      BY <1>4, <2>1, <3>1, UpdatedBuckets
    <3>3. PaidAhead'
      BY <3>1 DEF PaidAhead, InFrame
    <3>4. QED
      BY <3>2, <3>3
  <2>2. CASE ~ReadsInTable(c)
    BY <1>2, <1>4, <2>2 DEF UpdateConfig
  <2>3. QED
    BY <2>1, <2>2
<1>5. ASSUME phase = "idle", NEW ft \in FrameTypes,
             NEW s \in 0 .. oxcf.ss_number_layers - 1,
             NEW t \in 0 .. oxcf.ts_number_layers - 1, ComputeQp(ft, s, t)
      PROVE  SuppliesHold' /\ PaidAhead'
  <2>1. CASE phase' = "computed"
    BY <1>5, <2>1, StartedBuckets, StartedPaidAhead
  <2>2. CASE phase' # "computed"
    BY <1>2, <1>5, <2>2 DEF ComputeQp
  <2>3. QED
    BY <2>1, <2>2
<1>6. ASSUME phase = "computed", GetLoopFilterLevel PROVE SuppliesHold' /\ PaidAhead'
  <2>1. /\ UNCHANGED <<oxcf, rc, layer_context, spatial_layer_id, temporal_layer_id>>
        /\ InFrame' /\ InFrame /\ phase # "created"
    BY <1>6 DEF GetLoopFilterLevel, stream, frame, InFrame
  <2>2. SuppliesHold'
    BY <2>1 DEF BucketInv, SuppliesHold, Supplied
  <2>3. \A l : /\ BucketLevel(l)' = BucketLevel(l)
               /\ Share(l, MaximumSize(oxcf))' = Share(l, MaximumSize(oxcf))
    BY <2>1 DEF BucketLevel, Share, current_layer
  <2>4. PaidAhead'
    BY <2>1, <2>3 DEF BucketInv, PaidAhead
  <2>5. QED
    BY <2>2, <2>4
<1>7. ASSUME phase = "filtered", NEW size \in FrameSizes, PostEncodeUpdate(size)
      PROVE  SuppliesHold' /\ PaidAhead'
  <2>1. phase' = "idle"
    BY <1>7 DEF PostEncodeUpdate
  <2>2. QED
    BY <1>7, <2>1, ChargedBuckets DEF PaidAhead, InFrame
<1>8. ASSUME UNCHANGED vars PROVE SuppliesHold' /\ PaidAhead'
  BY <1>2, <1>8 DEF vars, client
<1>9. SuppliesHold' /\ PaidAhead'
  BY <1>3, <1>4, <1>5, <1>6, <1>7, <1>8 DEF Next
<1>10. QED
  BY <1>1, <1>9 DEF BucketInv

-----------------------------------------------------------------------------
(* The engine implements LayeredBucket. *)

\* The layers of a configuration, by spatial and temporal id.
Pairs(c) == (0 .. c.ss_number_layers - 1) \X (0 .. c.ts_number_layers - 1)

LEMMA PairsIndexed ==
  ASSUME NEW c \in Config, Usable(c), NEW p \in Pairs(c)
  PROVE  /\ p[1] \in 0 .. c.ss_number_layers - 1 /\ p[2] \in 0 .. c.ts_number_layers - 1
         /\ Index(c, p[1], p[2]) \in Indices(c)
         /\ SpatialOf(c, Index(c, p[1], p[2])) = p[1]
         /\ TemporalOf(c, Index(c, p[1], p[2])) = p[2]
<1>1. p[1] \in 0 .. c.ss_number_layers - 1 /\ p[2] \in 0 .. c.ts_number_layers - 1
  BY DEF Pairs
<1>2. QED
  BY <1>1, LayersInArrays

\* A pair is concerned by a frame exactly when its index is.
LEMMA PairsConcerned ==
  ASSUME oxcf \in Config, Usable(oxcf), NEW p \in Pairs(oxcf),
         NEW s \in 0 .. oxcf.ss_number_layers - 1, NEW t \in 0 .. oxcf.ts_number_layers - 1
  PROVE  Index(oxcf, p[1], p[2]) \in FromTemporal(oxcf, s, t) <=> p[1] = s /\ p[2] >= t
<1>1. /\ Index(oxcf, p[1], p[2]) \in Indices(oxcf)
      /\ SpatialOf(oxcf, Index(oxcf, p[1], p[2])) = p[1]
      /\ TemporalOf(oxcf, Index(oxcf, p[1], p[2])) = p[2]
  BY PairsIndexed
<1>2. QED
  BY <1>1, AboveTemporal

\* What the instance reads, before and after a step that keeps the layers: a
\* value for each pair, the one of the layer of that index.
LEMMA ReadByPair ==
  ASSUME phase # "created", phase' # "created",
         oxcf'.ss_number_layers = oxcf.ss_number_layers,
         oxcf'.ts_number_layers = oxcf.ts_number_layers
  PROVE  /\ PerLayer(BucketLevel) = [p \in Pairs(oxcf) |-> PerLayer(BucketLevel)[p]]
         /\ PerLayer(BucketLevel)' = [p \in Pairs(oxcf) |-> PerLayer(BucketLevel)'[p]]
         /\ DOMAIN PerLayer(BucketLevel) = Pairs(oxcf)
         /\ DOMAIN PerLayer(BucketLevel)' = Pairs(oxcf)
         /\ DOMAIN PerLayer(LAMBDA l : Share(l, MaximumSize(oxcf)))' = Pairs(oxcf)
  BY DEF PerLayer, Pairs

LEMMA ValueAtPair ==
  ASSUME phase # "created", phase' # "created",
         oxcf'.ss_number_layers = oxcf.ss_number_layers,
         oxcf'.ts_number_layers = oxcf.ts_number_layers,
         NEW p \in Pairs(oxcf), NEW l, l = Index(oxcf, p[1], p[2])
  PROVE  /\ PerLayer(BucketLevel)[p] = BucketLevel(l)
         /\ PerLayer(BucketLevel)'[p] = BucketLevel(l)'
         /\ PerLayer(Rate)[p] = Rate(l)
         /\ PerLayer(LAMBDA m : Share(m, MaximumSize(oxcf)))[p] = Share(l, MaximumSize(oxcf))
<1>1. l = Index(oxcf', p[1], p[2])
  BY DEF Index
<1>2. PerLayer(BucketLevel)[p] = BucketLevel(l)
  BY DEF PerLayer, Pairs
<1>3. PerLayer(BucketLevel)'[p] = BucketLevel(l)'
  BY <1>1 DEF PerLayer, Pairs, BucketLevel
<1>4. PerLayer(Rate)[p] = Rate(l)
  BY DEF PerLayer, Pairs
<1>5. PerLayer(LAMBDA m : Share(m, MaximumSize(oxcf)))[p] = Share(l, MaximumSize(oxcf))
  BY DEF PerLayer, Pairs
<1>6. QED
  BY <1>2, <1>3, <1>4, <1>5

\* The start of a frame credits the buckets of its pair and of those above it.
LEMMA StartRefines ==
  ASSUME BucketInv, phase = "idle", NEW ft \in FrameTypes,
         NEW s \in 0 .. oxcf.ss_number_layers - 1, NEW t \in 0 .. oxcf.ts_number_layers - 1,
         ComputeQp(ft, s, t), phase' = "computed"
  PROVE  Bucket!Next
<1>1. /\ ClientInv /\ oxcf \in Config /\ Usable(oxcf) /\ oxcf' = oxcf
      /\ spatial_layer_id' = s /\ temporal_layer_id' = t
      /\ current_video_frame' = current_video_frame
      /\ ~InFrame /\ InFrame' /\ phase # "created" /\ phase' # "created"
  BY DEF BucketInv, ClientInv, TypeOK, RangesHold, ComputeQp, InFrame
<1> DEFINE levels == PerLayer(BucketLevel)
           capacities == PerLayer(LAMBDA l : Share(l, MaximumSize(oxcf)))
           supplies == PerLayer(Rate)
<1>2. /\ levels' = [p \in Pairs(oxcf) |-> levels'[p]]
      /\ DOMAIN levels = Pairs(oxcf)
  BY <1>1, ReadByPair
<1>3. ASSUME NEW p \in Pairs(oxcf)
      PROVE  levels'[p] = IF p[1] = s /\ p[2] >= t
                          THEN Least(levels[p] + supplies[p], capacities[p]) ELSE levels[p]
  <2>1. PICK l \in Indices(oxcf) : l = Index(oxcf, p[1], p[2])
    BY <1>1, PairsIndexed
  <2>2. l \in FromTemporal(oxcf, s, t) <=> p[1] = s /\ p[2] >= t
    BY <1>1, <2>1, PairsConcerned
  <2>3. BucketLevel(l)' = IF l \in FromTemporal(oxcf, s, t)
                          THEN Least(BucketLevel(l) + Rate(l), Share(l, MaximumSize(oxcf)))
                          ELSE BucketLevel(l)
    BY StartedBuckets
  <2>4. /\ levels[p] = BucketLevel(l) /\ levels'[p] = BucketLevel(l)'
        /\ supplies[p] = Rate(l) /\ capacities[p] = Share(l, MaximumSize(oxcf))
    BY <1>1, <2>1, ValueAtPair
  <2>5. QED
    BY <2>2, <2>3, <2>4
<1>4. <<s, t>> \in Pairs(oxcf)
  BY DEF Pairs
<1>5. UNCHANGED Bucket!sizes
  BY <1>1 DEF Bucket!sizes, PerLayer, Rate, Share
<1>6. {p \in Pairs(oxcf) : p[1] = s /\ p[2] >= t}
        = {p \in {s} \X (0 .. oxcf.ts_number_layers - 1) : p[2] >= t}
  BY DEF Pairs
<1> HIDE DEF levels, capacities, supplies
<1>7. levels' = [p \in Pairs(oxcf) |->
                   IF p \in {q \in Pairs(oxcf) : q[1] = s /\ q[2] >= t}
                   THEN Least(levels[p] + supplies[p], capacities[p]) ELSE levels[p]]
  BY <1>2, <1>3
<1>8. Bucket!Layers = Pairs(oxcf)
  BY <1>2 DEF Bucket!Layers, levels
<1>9. Bucket!Upward(<<s, t>>) = {p \in Pairs(oxcf) : p[1] = s /\ p[2] >= t}
  BY <1>8 DEF Bucket!Upward
<1>10. levels' = [p \in Bucket!Layers |->
                    IF p \in Bucket!Upward(<<s, t>>)
                    THEN Least(levels[p] + supplies[p], capacities[p]) ELSE levels[p]]
  BY <1>7, <1>8, <1>9
<1> DEFINE current == IF ~InFrame THEN {}
                      ELSE {p \in {spatial_layer_id} \X (0 .. oxcf.ts_number_layers - 1) :
                              p[2] >= temporal_layer_id}
<1>11. current = {} /\ current' = Bucket!Upward(<<s, t>>)
  BY <1>1, <1>6, <1>9
<1>12. UNCHANGED <<Bucket!sizes, current_video_frame > 0>>
  BY <1>1, <1>5
<1> HIDE DEF current
<1>13. \A a, b : Bucket!Least(a, b) = Least(a, b)
  BY DEF Bucket!Least, Least
<1>14. Bucket!StartFrame(<<s, t>>)
  BY <1>10, <1>11, <1>12, <1>13 DEF Bucket!StartFrame, levels, supplies, capacities, current
<1>15. QED
  BY <1>4, <1>8, <1>14 DEF Bucket!Next

\* The end of a frame takes the same number of bits from all buckets that pay
\* for it.
LEMMA ChargeRefines ==
  ASSUME BucketInv, phase = "filtered", NEW size \in FrameSizes, PostEncodeUpdate(size)
  PROVE  Bucket!Next
<1> DEFINE s == spatial_layer_id
           t == temporal_layer_id
           bits == 8 * size
           levels == PerLayer(BucketLevel)
           current == IF ~InFrame THEN {}
                      ELSE {p \in {spatial_layer_id} \X (0 .. oxcf.ts_number_layers - 1) :
                              p[2] >= temporal_layer_id}
<1>1. /\ ClientInv /\ oxcf \in Config /\ Usable(oxcf) /\ oxcf' = oxcf
      /\ current_video_frame \in Nat /\ current_video_frame' = current_video_frame + 1
      /\ InFrame /\ ~InFrame' /\ phase # "created" /\ phase' # "created"
      /\ s \in 0 .. oxcf.ss_number_layers - 1 /\ t \in 0 .. oxcf.ts_number_layers - 1
  BY DEF BucketInv, ClientInv, TypeOK, RangesHold, PostEncodeUpdate, InFrame
<1>2. bits \in Nat
  BY ParameterAssumption
<1>3. /\ DOMAIN levels = Pairs(oxcf) /\ DOMAIN levels' = Pairs(oxcf)
  BY <1>1, ReadByPair
<1>4. ASSUME NEW p \in Pairs(oxcf)
      PROVE  /\ levels'[p] = IF p \in current THEN levels[p] - bits ELSE levels[p]
             /\ levels[p] \in Int
  <2>1. PICK l \in Indices(oxcf) : l = Index(oxcf, p[1], p[2])
    BY <1>1, PairsIndexed
  <2>2. l \in FromTemporal(oxcf, s, t) <=> p[1] = s /\ p[2] >= t
    BY <1>1, <2>1, PairsConcerned
  <2>3. BucketLevel(l)' = IF l \in FromTemporal(oxcf, s, t)
                          THEN BucketLevel(l) - bits ELSE BucketLevel(l)
    BY ChargedBuckets
  <2>4. levels[p] = BucketLevel(l) /\ levels'[p] = BucketLevel(l)'
    BY <1>1, <2>1, ValueAtPair
  <2>5. BucketLevel(l) \in Int
    BY <1>1, BucketTyped
  <2>6. p \in current <=> p[1] = s /\ p[2] >= t
    BY <1>1 DEF Pairs
  <2>7. QED
    BY <2>2, <2>3, <2>4, <2>5, <2>6
<1>5. <<s, t>> \in Pairs(oxcf) /\ <<s, t>> \in current
  BY <1>1 DEF Pairs
<1>6. current' = {} /\ current_video_frame' > 0
  BY <1>1
<1>7. UNCHANGED Bucket!sizes
  BY <1>1 DEF Bucket!sizes, PerLayer, Rate, Share
<1>8. Bucket!Layers = Pairs(oxcf)
  BY <1>3 DEF Bucket!Layers, levels
<1> HIDE DEF levels, current, bits
<1>9. \A m \in Pairs(oxcf) :
        levels'[m] = IF m \in current
                     THEN levels[m] + (levels'[<<s, t>>] - levels[<<s, t>>]) ELSE levels[m]
  BY <1>2, <1>4, <1>5
<1>10. \E l \in current : \A m \in Bucket!Layers :
         levels'[m] = IF m \in current THEN levels[m] + (levels'[l] - levels[l])
                      ELSE levels[m]
  BY <1>5, <1>8, <1>9
<1>11. current # {} /\ DOMAIN levels' = Bucket!Layers
  BY <1>3, <1>5, <1>8
<1>12. Bucket!EndFrame
  BY <1>6, <1>7, <1>10, <1>11 DEF Bucket!EndFrame, levels, current
<1>13. QED
  BY <1>12 DEF Bucket!Next

\* New rates and sizes between frames.
LEMMA UpdateRefines ==
  ASSUME BucketInv, phase = "idle", NEW c \in Configs, Validate(c), ReadsInTable(c),
         SameLayers(c), Install(Copied(c)), phase' = "idle",
         current_video_frame' = current_video_frame
  PROVE  Bucket!Next
<1> DEFINE levels == PerLayer(BucketLevel)
           optima == PerLayer(LAMBDA l : Share(l, OptimalLevel(oxcf)))
           capacities == PerLayer(LAMBDA l : Share(l, MaximumSize(oxcf)))
           S == 0 .. oxcf.ss_number_layers - 1
<1>1. c \in Config
  BY ParameterAssumption
<1>2. /\ ClientInv /\ oxcf \in Config /\ Usable(oxcf) /\ oxcf' = Copied(c)
      /\ oxcf'.ss_number_layers = oxcf.ss_number_layers
      /\ oxcf'.ts_number_layers = oxcf.ts_number_layers
      /\ current_video_frame \in Nat /\ ~InFrame /\ ~InFrame'
      /\ phase # "created" /\ phase' # "created"
  BY <1>1, CopiedKeeps DEF BucketInv, ClientInv, TypeOK, RangesHold, Install, InFrame, SameLayers
<1>3. /\ levels' = [p \in Pairs(oxcf) |-> levels'[p]]
      /\ DOMAIN levels = Pairs(oxcf) /\ DOMAIN levels' = Pairs(oxcf)
      /\ DOMAIN capacities' = Pairs(oxcf)
  BY <1>2, ReadByPair
<1>4. ASSUME NEW p \in Pairs(oxcf)
      PROVE  \E l \in Indices(oxcf) :
               /\ SpatialOf(oxcf, l) = p[1]
               /\ levels[p] = BucketLevel(l) /\ levels'[p] = BucketLevel(l)'
               /\ optima'[p] = Share(l, OptimalLevel(oxcf))'
               /\ capacities'[p] = Share(l, MaximumSize(oxcf))'
  <2>1. PICK l \in Indices(oxcf) : l = Index(oxcf, p[1], p[2])
    BY <1>2, PairsIndexed
  <2>2. SpatialOf(oxcf, l) = p[1]
    BY <1>2, <2>1, PairsIndexed
  <2>3. levels[p] = BucketLevel(l) /\ levels'[p] = BucketLevel(l)'
    BY <1>2, <2>1, ValueAtPair
  <2>4. /\ optima'[p] = Share(l, OptimalLevel(oxcf))'
        /\ capacities'[p] = Share(l, MaximumSize(oxcf))'
    <3>1. l = Index(oxcf', p[1], p[2])
      BY <1>2, <2>1 DEF Index
    <3>2. QED
      BY <1>2, <3>1 DEF PerLayer, Pairs, Share
  <2>5. QED
    BY <2>2, <2>3, <2>4
<1>5. Bucket!Layers = Pairs(oxcf)
  BY <1>3 DEF Bucket!Layers, levels
<1>6. {p[1] : p \in Pairs(oxcf)} = S
  <2>1. 0 \in 0 .. oxcf.ts_number_layers - 1
    BY <1>2 DEF Usable, MaxTemporalLayers
  <2>2. ASSUME NEW s \in S PROVE s \in {p[1] : p \in Pairs(oxcf)}
    <3>1. <<s, 0>> \in Pairs(oxcf) /\ <<s, 0>>[1] = s
      BY <2>1 DEF Pairs
    <3>2. QED
      BY <3>1
  <2>3. ASSUME NEW p \in Pairs(oxcf) PROVE p[1] \in S
    BY DEF Pairs
  <2>4. QED
    BY <2>2, <2>3
<1> HIDE DEF levels, optima, capacities
<1>7. CASE current_video_frame > 0
  <2>1. PICK reset \in SUBSET S : \A l \in Indices(oxcf) :
          BucketLevel(l)' = IF SpatialOf(oxcf, l) \in reset
                            THEN Share(l, OptimalLevel(oxcf))'
                            ELSE Least(BucketLevel(l), Share(l, MaximumSize(oxcf))')
    BY <1>7, UpdatedBuckets
  <2>2. \A p \in Pairs(oxcf) :
          levels'[p] = IF p[1] \in reset THEN optima'[p] ELSE Least(levels[p], capacities'[p])
    BY <1>4, <2>1
  <2>3. levels' = [p \in Pairs(oxcf) |-> IF p[1] \in reset THEN optima'[p]
                                         ELSE Bucket!Least(levels[p], capacities'[p])]
    <3>1. \A a, b : Bucket!Least(a, b) = Least(a, b)
      BY DEF Bucket!Least, Least
    <3>2. QED
      BY <1>3, <2>2, <3>1
  <2>4. \E set \in SUBSET {p[1] : p \in Bucket!Layers} :
          levels' = [p \in Bucket!Layers |-> IF p[1] \in set THEN optima'[p]
                                             ELSE Bucket!Least(levels[p], capacities'[p])]
    BY <1>5, <1>6, <2>3
  <2>5. Bucket!Reconfigure
    BY <1>2, <1>3, <1>5, <1>7, <2>4
       DEF Bucket!Reconfigure, levels, optima, capacities
  <2>6. QED
    BY <2>5 DEF Bucket!Next
<1>8. CASE ~(current_video_frame > 0)
  <2>1. current_video_frame = 0
    BY <1>2, <1>8
  <2>2. \A l \in Indices(oxcf) : BucketLevel(l)' <= Share(l, MaximumSize(oxcf))'
    BY <2>1, UpdatedBuckets
  <2>3. \A p \in Bucket!Layers : levels'[p] <= capacities'[p]
    BY <1>4, <1>5, <2>2
  <2>4. Bucket!Reconfigure
    BY <1>2, <1>3, <1>5, <1>8, <2>3
       DEF Bucket!Reconfigure, levels, optima, capacities
  <2>5. QED
    BY <2>4 DEF Bucket!Next
<1>9. QED
  BY <1>7, <1>8

\* A new engine opens its buckets.
LEMMA InitRefines ==
  ASSUME BucketInv, NEW c \in Configs, RateControlInit(c), phase' = "idle"
  PROVE  Bucket!Next
<1>1. /\ phase = "created" /\ current_video_frame' = current_video_frame
      /\ ~InFrame /\ ~InFrame'
  BY DEF RateControlInit, InFrame
<1>2. PerLayer(BucketLevel) = <<>>
  BY <1>1 DEF PerLayer
<1>3. DOMAIN PerLayer(BucketLevel)'
        = DOMAIN PerLayer(LAMBDA l : Share(l, MaximumSize(oxcf)))'
  BY DEF PerLayer
<1>4. Bucket!Open
  BY <1>1, <1>2, <1>3 DEF Bucket!Open
<1>5. QED
  BY <1>4 DEF Bucket!Next

\* Steps that leave configuration, layers and frame alone.
LEMMA BucketsStutter ==
  ASSUME UNCHANGED <<oxcf, rc, layer_context, spatial_layer_id, temporal_layer_id>>,
         UNCHANGED current_video_frame, InFrame' <=> InFrame,
         phase' = "created" <=> phase = "created"
  PROVE  UNCHANGED Bucket!vars
<1>1. \A l : BucketLevel(l)' = BucketLevel(l)
  BY DEF BucketLevel, current_layer
<1>2. UNCHANGED PerLayer(BucketLevel)
  BY <1>1 DEF PerLayer, BucketLevel, current_layer
<1>3. UNCHANGED Bucket!sizes
  BY DEF Bucket!sizes, PerLayer, Rate, Share
<1>4. QED
  BY <1>2, <1>3 DEF Bucket!vars

LEMMA NextKeepsBuckets ==
  BucketInv /\ [Next]_vars => [Bucket!Next]_(Bucket!vars)
<1> SUFFICES ASSUME BucketInv, [Next]_vars
             PROVE  [Bucket!Next]_(Bucket!vars)
  OBVIOUS
<1>1. ASSUME UNCHANGED <<phase, engine>> PROVE UNCHANGED Bucket!vars
  <2>1. /\ UNCHANGED <<phase, oxcf, rc, layer_context, spatial_layer_id, temporal_layer_id>>
        /\ UNCHANGED current_video_frame
    BY <1>1 DEF engine, stream, frame
  <2>2. QED
    BY <2>1, BucketsStutter DEF InFrame
<1>2. ASSUME NEW c \in Configs, RateControlInit(c) PROVE [Bucket!Next]_(Bucket!vars)
  <2>1. CASE phase' = "idle"
    BY <1>2, <2>1, InitRefines
  <2>2. CASE phase' # "idle"
    BY <1>1, <1>2, <2>2 DEF RateControlInit
  <2>3. QED
    BY <2>1, <2>2
<1>3. ASSUME phase = "idle", NEW c \in Configs, Validate(c), SameLayers(c), UpdateConfig(c)
      PROVE  [Bucket!Next]_(Bucket!vars)
  <2>1. CASE ReadsInTable(c)
    <3>1. Install(Copied(c)) /\ phase' = "idle" /\ current_video_frame' = current_video_frame
      BY <1>3, <2>1 DEF UpdateConfig
    <3>2. QED
      BY <1>3, <2>1, <3>1, UpdateRefines
  <2>2. CASE ~ReadsInTable(c)
    BY <1>1, <1>3, <2>2 DEF UpdateConfig
  <2>3. QED
    BY <2>1, <2>2
<1>4. ASSUME phase = "idle", NEW ft \in FrameTypes,
             NEW s \in 0 .. oxcf.ss_number_layers - 1,
             NEW t \in 0 .. oxcf.ts_number_layers - 1, ComputeQp(ft, s, t)
      PROVE  [Bucket!Next]_(Bucket!vars)
  <2>1. CASE phase' = "computed"
    BY <1>4, <2>1, StartRefines
  <2>2. CASE phase' # "computed"
    BY <1>1, <1>4, <2>2 DEF ComputeQp
  <2>3. QED
    BY <2>1, <2>2
<1>5. ASSUME phase = "computed", GetLoopFilterLevel PROVE UNCHANGED Bucket!vars
  <2>1. /\ UNCHANGED <<oxcf, rc, layer_context, spatial_layer_id, temporal_layer_id>>
        /\ UNCHANGED current_video_frame /\ InFrame' /\ InFrame
        /\ phase' # "created" /\ phase # "created"
    BY <1>5 DEF GetLoopFilterLevel, stream, frame, InFrame
  <2>2. QED
    BY <2>1, BucketsStutter
<1>6. ASSUME phase = "filtered", NEW size \in FrameSizes, PostEncodeUpdate(size)
      PROVE  [Bucket!Next]_(Bucket!vars)
  BY <1>6, ChargeRefines
<1>7. CASE UNCHANGED vars
  BY <1>1, <1>7 DEF vars, client
<1>8. QED
  BY <1>2, <1>3, <1>4, <1>5, <1>6, <1>7 DEF Next

\* For every configuration, with any number of layers and whatever the sizes of
\* the frames, copying a layer's state into rc and out again, clipping, crediting
\* before a frame and charging after it keep one leaky bucket per layer.
THEOREM BucketsKept == Spec => Buckets
<1>1. Init => BucketInv
  <2> SUFFICES ASSUME Init PROVE BucketInv
    OBVIOUS
  <2>1. ClientInv
    BY InitClientInv
  <2>2. SuppliesHold /\ PaidAhead
    BY DEF Init, SuppliesHold, PaidAhead, InFrame
  <2>3. QED
    BY <2>1, <2>2 DEF BucketInv
<1>2. Init => Bucket!Init
  BY DEF Init, Bucket!Init, PerLayer, InFrame
<1>3. QED
  BY <1>1, <1>2, NextBucketInv, NextKeepsBuckets, PTL DEF Spec, Buckets, Bucket!Spec

-----------------------------------------------------------------------------
(* The rate of the frame coded last: what each operator does to it. *)

LEMMA LevelRemembers ==
  ASSUME NEW r \in RateControl, NEW bits \in Int
  PROVE  Level(r, bits).last_avg_frame_bandwidth = r.last_avg_frame_bandwidth
  BY DEF Level, RateControl

LEMMA DrainedRemembers ==
  ASSUME NEW r \in RateControl, NEW bits \in Int
  PROVE  Drained(r, bits).last_avg_frame_bandwidth = r.last_avg_frame_bandwidth
<1>1. Least(r.bits_off_target - bits, r.maximum_buffer_size) \in Int
  BY RcTyped DEF Least
<1>2. QED
  BY <1>1, LevelRemembers DEF Drained

LEMMA ResetRemembers ==
  ASSUME NEW r \in RateControl
  PROVE  ResetRc(r).last_avg_frame_bandwidth = r.last_avg_frame_bandwidth
<1> DEFINE x == Level(r, r.optimal_buffer_level)
<1>1. r.optimal_buffer_level \in Int
  BY RcTyped
<1>2. x \in RateControl /\ x.last_avg_frame_bandwidth = r.last_avg_frame_bandwidth
  BY <1>1, LevelKeeps, LevelRemembers
<1>3. ResetRc(r) = [x EXCEPT !.rc_1_frame = 0, !.rc_2_frame = 0]
  BY DEF ResetRc
<1> HIDE DEF x
<1>4. QED
  BY <1>2, <1>3 DEF RateControl

LEMMA ResizedRemembers ==
  ASSUME NEW r \in RateControl, NEW starting \in Nat, NEW optimal \in Nat, NEW maximum \in Nat
  PROVE  Resized(r, starting, optimal, maximum).last_avg_frame_bandwidth
           = r.last_avg_frame_bandwidth
  BY DEF Resized, RateControl

LEMMA StreamRcRemembers ==
  ASSUME NEW r \in RateControl, NEW c \in Config, Usable(c)
  PROVE  StreamRc(r, c).last_avg_frame_bandwidth = r.last_avg_frame_bandwidth
<1> DEFINE x == [r EXCEPT !.worst_quality = WorstAllowed(c), !.best_quality = BestAllowed(c)]
           y == Resized(x, StartingLevel(c), OptimalLevel(c), MaximumSize(c))
<1>1. x \in RateControl /\ x.last_avg_frame_bandwidth = r.last_avg_frame_bandwidth
  BY DEF Usable, RateControl
<1> HIDE DEF x
<1>2. /\ StartingLevel(c) \in Nat /\ OptimalLevel(c) \in Nat /\ MaximumSize(c) \in Nat
  BY SizesTyped
<1>3. y \in RateControl
  BY <1>1, <1>2, ResizedTyped, ZenonT(60)
<1>4. y.last_avg_frame_bandwidth = x.last_avg_frame_bandwidth
  BY <1>1, <1>2, ResizedRemembers, ZenonT(60)
<1>5. StreamRc(r, c) = Retimed(y, c)
  BY DEF StreamRc, x
<1> HIDE DEF y
<1>6. QED
  BY <1>1, <1>3, <1>4, <1>5 DEF Retimed, RateControl

LEMMA InitialContextRemembers ==
  ASSUME NEW lc \in LayerContext, NEW c \in Config, Usable(c), NEW l \in Indices(c)
  PROVE  InitialContext(lc, c, l).rc.last_avg_frame_bandwidth = lc.rc.last_avg_frame_bandwidth
  BY DEF InitialContext, Level, LayerContext, RateControl

LEMMA ReconfiguredContextRemembers ==
  ASSUME NEW lc \in LayerContext, NEW c \in Config, Usable(c), NEW l \in Indices(c),
         NEW r \in RateControl, Configured(r) = StreamShare(c)
  PROVE  LET x == ReconfiguredContext(lc, c, l, r) IN
         /\ x.rc.last_avg_frame_bandwidth = lc.rc.last_avg_frame_bandwidth
         /\ x.rc.avg_frame_bandwidth = PerFrame(c, LayerBandwidth(c, l), Decimator(c, l))
<1> DEFINE y == Resized(lc.rc, Allocated(c, l, r.starting_buffer_level),
                               Allocated(c, l, r.optimal_buffer_level),
                               Allocated(c, l, r.maximum_buffer_size))
           z == [y EXCEPT !.avg_frame_bandwidth =
                             PerFrame(c, LayerBandwidth(c, l), Decimator(c, l)),
                          !.max_frame_bandwidth = r.max_frame_bandwidth,
                          !.worst_quality = r.worst_quality,
                          !.best_quality  = r.best_quality]
<1>1. /\ r.starting_buffer_level = StartingLevel(c)
      /\ r.optimal_buffer_level = OptimalLevel(c)
      /\ r.maximum_buffer_size = MaximumSize(c)
  BY DEF Configured, StreamShare
<1>2. /\ Allocated(c, l, StartingLevel(c)) \in Nat /\ Allocated(c, l, OptimalLevel(c)) \in Nat
      /\ Allocated(c, l, MaximumSize(c)) \in Nat
  BY LayersInArrays, SizesTyped, LayerSizesTyped
<1>3. lc.rc \in RateControl
  BY ContextTyped
<1>4. /\ y \in RateControl
      /\ y.last_avg_frame_bandwidth = lc.rc.last_avg_frame_bandwidth
  <2>1. y = Resized(lc.rc, Allocated(c, l, StartingLevel(c)),
                    Allocated(c, l, OptimalLevel(c)), Allocated(c, l, MaximumSize(c)))
    BY <1>1
  <2> HIDE DEF y
  <2>2. y \in RateControl
    BY <1>2, <1>3, <2>1, ResizedTyped, ZenonT(60)
  <2>3. QED
    BY <1>2, <1>3, <2>1, <2>2, ResizedRemembers, ZenonT(60)
<1>5. ReconfiguredContext(lc, c, l, r) =
        [lc EXCEPT !.target_bandwidth = LayerBandwidth(c, l),
                   !.decimator = Decimator(c, l), !.rc = z]
  BY DEF ReconfiguredContext, LayerContext, Decimator
<1> HIDE DEF y
<1>6. /\ z.last_avg_frame_bandwidth = y.last_avg_frame_bandwidth
      /\ z.avg_frame_bandwidth = PerFrame(c, LayerBandwidth(c, l), Decimator(c, l))
  BY <1>4 DEF RateControl
<1> HIDE DEF z
<1>7. QED
  BY <1>4, <1>5, <1>6 DEF LayerContext

LEMMA ResetContextsRemember ==
  ASSUME NEW c, NEW lcs \in [Indices(c) -> LayerContext], NEW l \in Indices(c)
  PROVE  ResetContexts(lcs, c)[l].rc.last_avg_frame_bandwidth
           = lcs[l].rc.last_avg_frame_bandwidth
<1>1. ResetContexts(lcs, c)[l] = IF SpatialOf(c, l) \in Jumped(lcs, c)
                                 THEN [lcs[l] EXCEPT !.rc = ResetRc(lcs[l].rc)] ELSE lcs[l]
  BY DEF ResetContexts, Jumped, LayerContext
<1>2. lcs[l] \in LayerContext /\ lcs[l].rc \in RateControl
  BY ContextTyped
<1>3. ResetRc(lcs[l].rc).last_avg_frame_bandwidth = lcs[l].rc.last_avg_frame_bandwidth
  BY <1>2, ResetRemembers
<1>4. QED
  BY <1>1, <1>2, <1>3 DEF LayerContext

\* The rate of the frame coded last is no jump from itself.
LEMMA SameRateNoJump ==
  ASSUME NEW r \in RateControl, r.avg_frame_bandwidth = r.last_avg_frame_bandwidth
  PROVE  ~RateJumped(r)
<1>1. r.avg_frame_bandwidth \in Nat
  BY DEF RateControl
<1>2. QED
  BY <1>1 DEF RateJumped
\* An update remembers the rates of the layers, and resets no layer whose frames
\* were coded last at the rate it configures.
LEMMA UpdatedContextsRemember ==
  ASSUME NEW c \in Config, Usable(c), NEW r \in RateControl,
         Configured(r) = StreamShare(c), current_video_frame > 0,
         layer_context \in [Indices(c) -> LayerContext]
  PROVE  LET new == UpdatedContexts(c, r) IN
         /\ \A l \in Indices(c) :
              new[l].rc.last_avg_frame_bandwidth = layer_context[l].rc.last_avg_frame_bandwidth
         /\ (\A l \in Indices(c) : layer_context[l].rc.last_avg_frame_bandwidth
                                     = PerFrame(c, LayerBandwidth(c, l), Decimator(c, l)))
            => \A l \in Indices(c) :
                 new[l].rc.bits_off_target
                   = Least(layer_context[l].rc.bits_off_target,
                           Allocated(c, l, MaximumSize(c)))
<1> DEFINE sized == [l \in Indices(c) |-> ReconfiguredContext(layer_context[l], c, l, r)]
           new == UpdatedContexts(c, r)
<1>1. new = IF ResetDue(c) THEN ResetContexts(sized, c) ELSE sized
  BY DEF UpdatedContexts
<1> HIDE DEF new
<1>2. \A l \in Indices(c) :
        /\ sized[l] \in LayerContext
        /\ sized[l].rc.last_avg_frame_bandwidth = layer_context[l].rc.last_avg_frame_bandwidth
        /\ sized[l].rc.avg_frame_bandwidth = PerFrame(c, LayerBandwidth(c, l), Decimator(c, l))
        /\ sized[l].rc.bits_off_target = Least(layer_context[l].rc.bits_off_target,
                                               Allocated(c, l, MaximumSize(c)))
  BY ReconfiguredContextTyped, ReconfiguredContextRemembers, ReconfiguredContextBits
<1>3. sized \in [Indices(c) -> LayerContext]
  BY <1>2
<1> HIDE DEF sized
<1>4. \A l \in Indices(c) :
        new[l].rc.last_avg_frame_bandwidth = layer_context[l].rc.last_avg_frame_bandwidth
  BY <1>1, <1>2, <1>3, ResetContextsRemember
<1>5. ASSUME \A l \in Indices(c) : layer_context[l].rc.last_avg_frame_bandwidth
                                     = PerFrame(c, LayerBandwidth(c, l), Decimator(c, l)),
             NEW l \in Indices(c)
      PROVE  new[l].rc.bits_off_target = Least(layer_context[l].rc.bits_off_target,
                                               Allocated(c, l, MaximumSize(c)))
  <2>1. \A s \in 0 .. c.ss_number_layers - 1 :
          Index(c, s, c.ts_number_layers - 1) \in Indices(c)
    <3>1. c.ts_number_layers - 1 \in 0 .. c.ts_number_layers - 1
      BY DEF Usable, MaxTemporalLayers
    <3>2. QED
      BY <3>1, LayersInArrays
  <2>2. \A m \in Indices(c) : ~RateJumped(sized[m].rc)
    <3>1. \A m \in Indices(c) : sized[m].rc \in RateControl
      BY <1>2, ContextTyped
    <3>2. QED
      BY <1>2, <1>5, <3>1, SameRateNoJump
  <2>3. Jumped(sized, c) = {}
    BY <2>1, <2>2 DEF Jumped
  <2>4. new[l].rc.bits_off_target = sized[l].rc.bits_off_target
    BY <1>1, <1>3, <2>3, ResetContextsBits
  <2>5. QED
    BY <1>2, <2>4
<1>6. QED
  BY <1>4, <1>5 DEF new

LEMMA StartFrameRemembers ==
  ASSUME oxcf \in Config, rc \in RateControl, NEW ft \in FrameTypes, StartFrame(ft)
  PROVE  rc'.last_avg_frame_bandwidth = rc.last_avg_frame_bandwidth
<1> DEFINE target == IF ft = "key" THEN KeyTarget(oxcf, rc, 1)
                     ELSE InterTarget(oxcf, rc, rc.avg_frame_bandwidth)
           bits == Least(rc.bits_off_target + rc.avg_frame_bandwidth, rc.maximum_buffer_size)
           x == Level(rc, bits)
<1>1. rc' = [x EXCEPT !.this_frame_target = target]
  BY DEF StartFrame
<1>2. bits \in Int
  BY RcTyped DEF Least
<1> HIDE DEF target, bits
<1>3. x \in RateControl /\ x.last_avg_frame_bandwidth = rc.last_avg_frame_bandwidth
  BY <1>2, LevelKeeps, LevelRemembers
<1> HIDE DEF x
<1>4. QED
  BY <1>1, <1>3 DEF RateControl

\* A layer's frame starts at the rate of the layer.
LEMMA StartedContextRemembers ==
  ASSUME NEW s, NEW t, layer_context[Index(oxcf, s, t)] \in LayerContext
  PROVE  LET lc == layer_context[Index(oxcf, s, t)] IN
         /\ StartedContext(s, t).rc.last_avg_frame_bandwidth = lc.rc.last_avg_frame_bandwidth
         /\ StartedContext(s, t).rc.avg_frame_bandwidth
              = PerFrame(oxcf, lc.target_bandwidth, oxcf.ts_rate_decimator[t])
  BY DEF StartedContext, LayerContext, RateControl

LEMMA CreditedRemembers ==
  ASSUME oxcf \in Config, NEW lcs \in [Indices(oxcf) -> LayerContext], NEW s, NEW t,
         NEW l \in Indices(oxcf)
  PROVE  Credited(lcs, s, t)[l].rc.last_avg_frame_bandwidth = lcs[l].rc.last_avg_frame_bandwidth
<1> DEFINE bits == Least(lcs[l].rc.bits_off_target
                         + PerFrame(oxcf, lcs[l].target_bandwidth, lcs[l].decimator),
                         lcs[l].rc.maximum_buffer_size)
<1>1. lcs[l] \in LayerContext /\ lcs[l].rc \in RateControl
  BY ContextTyped
<1>2. bits \in Int
  <2>1. /\ lcs[l].rc.bits_off_target \in Int /\ lcs[l].rc.maximum_buffer_size \in Int
        /\ lcs[l].target_bandwidth \in Nat /\ lcs[l].decimator \in Nat
    BY <1>1, ContextTyped, RcTyped
  <2>2. PerFrame(oxcf, lcs[l].target_bandwidth, lcs[l].decimator) \in Nat
    BY <2>1, PerFrameNat
  <2>3. QED
    BY <2>1, <2>2 DEF Least
<1>3. Credited(lcs, s, t)[l] = IF l \in FromTemporal(oxcf, s, t)
                               THEN [lcs[l] EXCEPT !.rc = Level(lcs[l].rc, bits)]
                               ELSE lcs[l]
  BY <1>1 DEF Credited, LayerContext
<1> HIDE DEF bits
<1>4. Level(lcs[l].rc, bits).last_avg_frame_bandwidth = lcs[l].rc.last_avg_frame_bandwidth
  BY <1>1, <1>2, LevelRemembers
<1>5. QED
  BY <1>1, <1>3, <1>4 DEF LayerContext

LEMMA StartLayerFrameRemembers ==
  ASSUME oxcf \in Config, Usable(oxcf), rc \in RateControl, LayersHold(oxcf, layer_context),
         NEW ft \in FrameTypes,
         NEW s \in 0 .. oxcf.ss_number_layers - 1, NEW t \in 0 .. oxcf.ts_number_layers - 1,
         ~Undefined(ft, s, t), StartLayerFrame(ft, s, t)
  PROVE  LET l == Index(oxcf, s, t) IN
         /\ rc'.last_avg_frame_bandwidth = layer_context[l].rc.last_avg_frame_bandwidth
         /\ rc'.avg_frame_bandwidth
              = PerFrame(oxcf, LayerBandwidth(oxcf, l), oxcf.ts_rate_decimator[t])
         /\ \A m \in Indices(oxcf) : layer_context'[m].rc.last_avg_frame_bandwidth
                                       = layer_context[m].rc.last_avg_frame_bandwidth
<1> DEFINE l     == Index(oxcf, s, t)
           start == StartedContext(s, t)
           lc    == [start EXCEPT !.is_key_frame = StartsKey(ft, s, t)]
           lcs   == [layer_context EXCEPT ![l] = lc]
           r     == [lc.rc EXCEPT !.frames_since_key = rc.frames_since_key]
           bits  == layer_context'[l].rc.bits_off_target
<1>1. /\ layer_context' = Credited(lcs, s, t)
      /\ \E target : rc' = [Level(r, bits) EXCEPT !.this_frame_target = target]
  BY DEF StartLayerFrame
<1>2. /\ l \in Indices(oxcf) /\ layer_context \in [Indices(oxcf) -> LayerContext]
      /\ layer_context[l].target_bandwidth = LayerBandwidth(oxcf, l)
  BY LayersInArrays DEF LayersHold
<1>3. t > 0 => oxcf.ts_rate_decimator[t] # oxcf.ts_rate_decimator[t - 1]
  BY DEF Undefined
<1>4. start \in LayerContext
  BY <1>2, <1>3, StartedContextTyped
<1>5. /\ start.rc.last_avg_frame_bandwidth = layer_context[l].rc.last_avg_frame_bandwidth
      /\ start.rc.avg_frame_bandwidth
           = PerFrame(oxcf, LayerBandwidth(oxcf, l), oxcf.ts_rate_decimator[t])
  BY <1>2, StartedContextRemembers
<1>6. StartsKey(ft, s, t) \in BOOLEAN
  BY DEF StartsKey
<1> HIDE DEF start
<1>7. lc \in LayerContext /\ lc.rc = start.rc /\ lc.rc \in RateControl
  BY <1>4, <1>6 DEF LayerContext
<1> HIDE DEF lc
<1>8. /\ lcs \in [Indices(oxcf) -> LayerContext] /\ lcs[l] = lc
      /\ \A m \in Indices(oxcf) \ {l} : lcs[m] = layer_context[m]
  BY <1>2, <1>7
<1> HIDE DEF lcs
<1>9. \A m \in Indices(oxcf) : layer_context'[m].rc.last_avg_frame_bandwidth
                                 = lcs[m].rc.last_avg_frame_bandwidth
  BY <1>1, <1>8, CreditedRemembers
<1>10. \A m \in Indices(oxcf) : lcs[m].rc.last_avg_frame_bandwidth
                                  = layer_context[m].rc.last_avg_frame_bandwidth
  BY <1>5, <1>7, <1>8
<1>11. /\ rc'.last_avg_frame_bandwidth = lc.rc.last_avg_frame_bandwidth
       /\ rc'.avg_frame_bandwidth = lc.rc.avg_frame_bandwidth
  <2>1. rc.frames_since_key \in Nat
    BY RcTyped
  <2>2. /\ r \in RateControl /\ r.last_avg_frame_bandwidth = lc.rc.last_avg_frame_bandwidth
        /\ r.avg_frame_bandwidth = lc.rc.avg_frame_bandwidth
    BY <1>7, <2>1 DEF RateControl
  <2> HIDE DEF r, bits
  <2>3. QED
    BY <1>1, <2>2 DEF Level, RateControl
<1>12. QED
  BY <1>5, <1>7, <1>9, <1>10, <1>11

LEMMA CorrectedRemembers ==
  ASSUME NEW r \in RateControl, NEW ft, NEW bits
  PROVE  Corrected(r, ft, bits).last_avg_frame_bandwidth = r.last_avg_frame_bandwidth
  BY DEF Corrected, RateControl

\* The charge remembers the rate the frame was coded at.
LEMMA ChargedRcRemembers ==
  ASSUME rc \in RateControl, base_qindex \in 0 .. MaxQ, frame_type \in FrameTypes,
         MBs \in Nat, NEW bits \in Nat
  PROVE  ChargedRc(bits).last_avg_frame_bandwidth = rc.avg_frame_bandwidth
<1> DEFINE x == Corrected(rc, frame_type, bits)
           y == Drained(x, bits)
           average == AverageAfter(bits)
           last == IF frame_type = "key" THEN base_qindex ELSE y.last_key_q
           since == IF frame_type = "key" THEN 1 ELSE y.frames_since_key + 1
<1>1. x \in RateControl
  BY CorrectedKeeps
<1> HIDE DEF x
<1>2. y \in RateControl
  BY <1>1, DrainedKeeps
<1>3. ChargedRc(bits) =
        [y EXCEPT !.avg_frame_qindex = average, !.last_key_q = last,
                  !.frames_since_key = since,
                  !.last_avg_frame_bandwidth = rc.avg_frame_bandwidth]
  BY <1>2 DEF ChargedRc, RateControl, x
<1> HIDE DEF y, average, last, since
<1>4. QED
  BY <1>2, <1>3 DEF RateControl

LEMMA TouchedRemembers ==
  ASSUME rc \in RateControl, base_qindex \in 0 .. MaxQ, frame_type \in FrameTypes,
         NEW lc \in LayerContext, NEW l, NEW bits \in Nat
  PROVE  Touched(lc, l, bits).rc.last_avg_frame_bandwidth = lc.rc.last_avg_frame_bandwidth
<1> DEFINE same == SpatialOf(oxcf, l) = spatial_layer_id
           average == AverageAfter(bits)
           marked == [lc.rc EXCEPT !.last_key_q = base_qindex,
                                   !.avg_frame_qindex["key"] = average["key"]]
           keyed == IF frame_type = "key" /\ same THEN marked ELSE lc.rc
           eased == IF KeyOvershot(bits) /\ SpatialOf(oxcf, l) = 0
                    THEN [keyed EXCEPT !.avg_frame_qindex["inter"] = average["inter"]]
                    ELSE keyed
           after == IF same /\ TemporalOf(oxcf, l) > temporal_layer_id
                    THEN Drained(eased, bits) ELSE eased
<1>1. lc.rc \in RateControl
  BY ContextTyped
<1>2. average["key"] \in 0 .. MaxQ /\ average["inter"] \in 0 .. MaxQ
  BY AverageAfterTyped DEF FrameTypes
<1>3. Touched(lc, l, bits) = [lc EXCEPT !.rc = after]
  BY DEF Touched, LayerContext
<1> HIDE DEF same, average
<1>4. /\ marked \in RateControl
      /\ marked.last_avg_frame_bandwidth = lc.rc.last_avg_frame_bandwidth
  BY <1>1, <1>2 DEF RateControl, FrameTypes
<1>5. /\ keyed \in RateControl
      /\ keyed.last_avg_frame_bandwidth = lc.rc.last_avg_frame_bandwidth
  <2> HIDE DEF marked
  <2>1. QED
    BY <1>1, <1>4
<1> HIDE DEF keyed
<1>6. /\ eased \in RateControl
      /\ eased.last_avg_frame_bandwidth = keyed.last_avg_frame_bandwidth
  BY <1>2, <1>5 DEF RateControl, FrameTypes
<1> HIDE DEF eased
<1>7. after.last_avg_frame_bandwidth = lc.rc.last_avg_frame_bandwidth
  BY <1>5, <1>6, DrainedRemembers
<1> HIDE DEF after
<1>8. QED
  BY <1>3, <1>7 DEF LayerContext
-----------------------------------------------------------------------------
(* A repeated configuration resets nothing. *)

\* The rate of the frame a layer coded last: in rc while its frame is coded.
LastRate(l) ==
  IF ~Layered(oxcf) \/ (InFrame /\ l = current_layer)
  THEN rc.last_avg_frame_bandwidth ELSE layer_context[l].rc.last_avg_frame_bandwidth

\* Frames are coded at the configured rates, and layers remember these.
RatesRemembered ==
  phase # "created" =>
    /\ coded # {} => current_video_frame > 0
    /\ InFrame => rc.avg_frame_bandwidth = Rate(current_layer)
    /\ \A l \in coded : LastRate(l) = Rate(l)

\* A layer that coded a frame has its level within the size of its bucket, and
\* unless the optimal level exceeds that size no reset changes this.
CodedWithinSizes ==
  phase # "created" /\ OptimalLevel(oxcf) <= MaximumSize(oxcf) =>
    \A l \in coded : BucketLevel(l) <= Share(l, MaximumSize(oxcf))

RepeatInv == BucketInv /\ RatesRemembered /\ CodedWithinSizes

LEMMA SharesOrdered ==
  ASSUME NEW l \in Indices(oxcf), oxcf \in Config, Usable(oxcf),
         OptimalLevel(oxcf) <= MaximumSize(oxcf)
  PROVE  Share(l, OptimalLevel(oxcf)) <= Share(l, MaximumSize(oxcf))
<1>1. /\ OptimalLevel(oxcf) \in Nat /\ MaximumSize(oxcf) \in Nat
      /\ Bandwidth(oxcf) \in Nat \ {0}
  BY SizesTyped
<1>2. LayerBandwidth(oxcf, l) \in Nat
  BY LayersInArrays, LayerSizesTyped
<1>3. Allocated(oxcf, l, OptimalLevel(oxcf)) <= Allocated(oxcf, l, MaximumSize(oxcf))
  BY <1>1, <1>2, ScaledMonotone DEF Allocated
<1>4. QED
  BY <1>3 DEF Share

\* An update cuts the levels of layers that have all coded a frame at the rates it
\* configures, and resets none of them.
LEMMA RepeatedBuckets ==
  ASSUME RepeatInv, phase = "idle", NEW c \in Configs, Validate(c), ReadsInTable(c),
         SameLayers(c), Install(Copied(c)), phase' = "idle", oxcf' = oxcf,
         current_video_frame' = current_video_frame, coded \subseteq Indices(oxcf)
  PROVE  /\ \A l \in coded : LastRate(l)' = Rate(l)'
         /\ (coded = Indices(oxcf)
             /\ (Layered(oxcf) /\ oxcf.ts_number_layers = 1
                 => oxcf.ts_rate_decimator[0] = 1))
            => \A l \in Indices(oxcf) :
                 BucketLevel(l)' = Least(BucketLevel(l), Share(l, MaximumSize(oxcf)))
<1> DEFINE d == Copied(c)
           r == StreamRc(rc, d)
           new == UpdatedContexts(d, r)
<1>1. c \in Config /\ Usable(c)
  BY ConfigUsable, ParameterAssumption
<1>2. d \in Config /\ Usable(d) /\ d = oxcf
  BY <1>1, CopiedKeeps DEF Install
<1>3. /\ rc \in RateControl /\ layer_context \in [Indices(d) -> LayerContext]
      /\ current_video_frame \in Nat
      /\ coded # {} => current_video_frame > 0
      /\ \A l \in coded : LastRate(l) = Rate(l)
  BY <1>2 DEF RepeatInv, RatesRemembered, BucketInv, ClientInv, TypeOK, RangesHold
<1>4. /\ r \in RateControl /\ Configured(r) = StreamShare(d)
      /\ r.bits_off_target = Least(rc.bits_off_target, MaximumSize(d))
      /\ r.avg_frame_bandwidth = Bandwidth(d) \div Framerate(d)
      /\ r.last_avg_frame_bandwidth = rc.last_avg_frame_bandwidth
  BY <1>2, <1>3, StreamRcTyped, StreamRcBits, StreamRcRemembers
<1>5. /\ layer_context' = IF Layered(d) THEN new ELSE layer_context
      /\ rc' = IF ~Layered(d) /\ ResetDue(d) /\ RateJumped(r) THEN ResetRc(r) ELSE r
  BY DEF Install
<1>6. ~InFrame /\ ~InFrame'
  BY DEF InFrame
<1>7. \A l : Rate(l)' = Rate(l)
  BY DEF Rate
<1> HIDE DEF r
<1>8. CASE Layered(d)
  <2> HIDE DEF d
  <2>1. current_video_frame > 0 =>
          /\ \A l \in Indices(d) :
               new[l].rc.last_avg_frame_bandwidth
                 = layer_context[l].rc.last_avg_frame_bandwidth
          /\ (\A l \in Indices(d) : layer_context[l].rc.last_avg_frame_bandwidth
                                      = PerFrame(d, LayerBandwidth(d, l), Decimator(d, l)))
             => \A l \in Indices(d) :
                  new[l].rc.bits_off_target
                    = Least(layer_context[l].rc.bits_off_target,
                            Allocated(d, l, MaximumSize(d)))
    BY <1>2, <1>3, <1>4, UpdatedContextsRemember
  <2> HIDE DEF new
  <2>2. \A l : /\ LastRate(l) = layer_context[l].rc.last_avg_frame_bandwidth
               /\ LastRate(l)' = new[l].rc.last_avg_frame_bandwidth
               /\ BucketLevel(l) = layer_context[l].rc.bits_off_target
               /\ BucketLevel(l)' = new[l].rc.bits_off_target
    BY <1>2, <1>5, <1>6, <1>8 DEF LastRate, BucketLevel
  <2>3. \A l \in coded : LastRate(l)' = Rate(l)'
    BY <1>2, <1>3, <1>7, <2>1, <2>2
  <2>4. ASSUME coded = Indices(oxcf),
               Layered(oxcf) /\ oxcf.ts_number_layers = 1 => oxcf.ts_rate_decimator[0] = 1,
               NEW l \in Indices(oxcf)
        PROVE  BucketLevel(l)' = Least(BucketLevel(l), Share(l, MaximumSize(oxcf)))
    <3>1. ASSUME NEW m \in Indices(d)
          PROVE  Decimator(d, m) = d.ts_rate_decimator[TemporalOf(d, m)]
      <4>1. TemporalOf(d, m) \in 0 .. d.ts_number_layers - 1 /\ d.ts_number_layers \in Nat
        BY <1>2, LayersInArrays, ConfigTyped
      <4>2. CASE d.ts_number_layers > 1
        BY <4>2 DEF Decimator
      <4>3. CASE ~(d.ts_number_layers > 1)
        <5>1. d.ts_number_layers = 1 /\ TemporalOf(d, m) = 0
          BY <4>1, <4>3
        <5>2. QED
          BY <1>2, <1>8, <2>4, <4>3, <5>1 DEF Decimator
      <4>4. QED
        BY <4>2, <4>3
    <3>2. \A m \in Indices(d) : layer_context[m].rc.last_avg_frame_bandwidth
                                  = PerFrame(d, LayerBandwidth(d, m), Decimator(d, m))
      <4>1. \A m \in Indices(d) : LastRate(m) = Rate(m)
        BY <1>2, <1>3, <2>4
      <4>2. QED
        BY <1>2, <1>8, <2>2, <3>1, <4>1 DEF Rate
    <3>3. current_video_frame > 0
      BY <1>3, <2>4
    <3>4. new[l].rc.bits_off_target
            = Least(layer_context[l].rc.bits_off_target, Allocated(d, l, MaximumSize(d)))
      BY <1>2, <2>1, <3>2, <3>3
    <3>5. Share(l, MaximumSize(oxcf)) = Allocated(d, l, MaximumSize(d))
      BY <1>2, <1>8 DEF Share
    <3>6. QED
      BY <2>2, <3>4, <3>5
  <2>5. QED
    BY <2>3, <2>4
<1>9. CASE ~Layered(d)
  <2> HIDE DEF d, new
  <2>1. \A l : /\ LastRate(l) = rc.last_avg_frame_bandwidth
               /\ LastRate(l)' = rc'.last_avg_frame_bandwidth
               /\ BucketLevel(l) = rc.bits_off_target /\ BucketLevel(l)' = rc'.bits_off_target
    BY <1>2, <1>9 DEF LastRate, BucketLevel
  <2>2. rc'.last_avg_frame_bandwidth = rc.last_avg_frame_bandwidth
    BY <1>4, <1>5, ResetRemembers
  <2>3. \A l \in coded : LastRate(l)' = Rate(l)'
    BY <1>3, <1>7, <2>1, <2>2
  <2>4. ASSUME coded = Indices(oxcf), NEW l \in Indices(oxcf)
        PROVE  BucketLevel(l)' = Least(BucketLevel(l), Share(l, MaximumSize(oxcf)))
    <3>1. Rate(l) = Bandwidth(d) \div Framerate(d) /\ LastRate(l) = Rate(l)
      BY <1>2, <1>3, <1>9, <2>4 DEF Rate
    <3>2. ~RateJumped(r)
      BY <1>4, <2>1, <3>1, SameRateNoJump
    <3>3. rc'.bits_off_target = Least(rc.bits_off_target, MaximumSize(d))
      BY <1>4, <1>5, <3>2
    <3>4. Share(l, MaximumSize(oxcf)) = MaximumSize(d)
      BY <1>2, <1>9 DEF Share
    <3>5. QED
      BY <2>1, <3>3, <3>4
  <2>5. QED
    BY <2>3, <2>4
<1>10. QED
  BY <1>8, <1>9
\* The end of a frame of a layer remembers its rate, and no other's.
LEMMA ChargedRates ==
  ASSUME RepeatInv, phase = "filtered", NEW size \in FrameSizes, PostEncodeUpdate(size)
  PROVE  \A l \in coded \cup {current_layer} : LastRate(l)' = Rate(l)'
<1> DEFINE bits == 8 * size
<1>1. bits \in Nat
  BY ParameterAssumption
<1>2. /\ rc' = ChargedRc(bits) /\ oxcf' = oxcf /\ phase' = "idle"
      /\ layer_context' = IF Layered(oxcf) THEN SavedContexts(bits) ELSE layer_context
  BY DEF PostEncodeUpdate
<1> HIDE DEF bits
<1>3. ClientInv /\ InFrame /\ ~InFrame' /\ phase # "created"
  BY <1>2 DEF RepeatInv, BucketInv, InFrame
<1>4. /\ Usable(oxcf) /\ oxcf \in Config /\ rc \in RateControl
      /\ base_qindex \in 0 .. MaxQ /\ frame_type \in FrameTypes /\ MBs \in Nat
      /\ layer_context \in [Indices(oxcf) -> LayerContext]
      /\ coded \subseteq Indices(oxcf)
  BY <1>3 DEF ClientInv, TypeOK, RangesHold
<1>5. current_layer \in Indices(oxcf)
  <2>1. PICK l \in Indices(oxcf) : TRUE
    BY <1>4, SMTT(30) DEF Usable, Indices, MaxSpatialLayers, MaxTemporalLayers
  <2>2. QED
    BY <1>3, <2>1, BucketTyped
<1>6. /\ rc.avg_frame_bandwidth = Rate(current_layer)
      /\ \A l \in coded : LastRate(l) = Rate(l)
  BY <1>3 DEF RepeatInv, RatesRemembered
<1>7. rc'.last_avg_frame_bandwidth = Rate(current_layer)
  BY <1>1, <1>2, <1>4, <1>6, ChargedRcRemembers
<1>8. \A l : Rate(l)' = Rate(l)
  BY <1>2 DEF Rate
<1>9. CASE Layered(oxcf)
  <2>1. ASSUME NEW l \in coded \cup {current_layer}
        PROVE  layer_context'[l].rc.last_avg_frame_bandwidth = Rate(l)
    <3>1. layer_context'[l] = SavedContexts(bits)[l] /\ l \in Indices(oxcf)
      BY <1>2, <1>4, <1>5, <1>9
    <3>2. layer_context[l] \in LayerContext
      BY <1>4, <3>1
    <3>3. CASE l = current_layer
      <4>1. SavedContexts(bits)[l] = [layer_context[l] EXCEPT !.rc = ChargedRc(bits),
                                                              !.target_bandwidth = target_bandwidth]
        BY <1>4, <3>1, <3>3 DEF SavedContexts
      <4>2. SavedContexts(bits)[l].rc = rc'
        BY <1>2, <3>2, <4>1 DEF LayerContext
      <4>3. QED
        BY <1>7, <3>1, <3>3, <4>2
    <3>4. CASE l # current_layer
      <4>1. SavedContexts(bits)[l] = Touched(layer_context[l], l, bits)
        BY <1>4, <3>1, <3>4 DEF SavedContexts
      <4>2. Touched(layer_context[l], l, bits).rc.last_avg_frame_bandwidth
              = layer_context[l].rc.last_avg_frame_bandwidth
        BY <1>1, <1>4, <3>2, TouchedRemembers
      <4>3. layer_context[l].rc.last_avg_frame_bandwidth = Rate(l)
        BY <1>6, <1>9, <3>4 DEF LastRate
      <4>4. QED
        BY <3>1, <4>1, <4>2, <4>3
    <3>5. QED
      BY <3>3, <3>4
  <2>2. \A l : LastRate(l)' = layer_context'[l].rc.last_avg_frame_bandwidth
    BY <1>2, <1>3, <1>9 DEF LastRate
  <2>3. QED
    BY <1>8, <2>1, <2>2
<1>10. CASE ~Layered(oxcf)
  <2>1. \A l : LastRate(l)' = rc'.last_avg_frame_bandwidth /\ Rate(l) = Rate(current_layer)
    BY <1>2, <1>10 DEF LastRate, Rate
  <2>2. QED
    BY <1>7, <1>8, <2>1
<1>11. QED
  BY <1>9, <1>10

\* The start of a frame takes up the rate of its layer.
LEMMA StartedRates ==
  ASSUME RepeatInv, phase = "idle", NEW ft \in FrameTypes,
         NEW s \in 0 .. oxcf.ss_number_layers - 1, NEW t \in 0 .. oxcf.ts_number_layers - 1,
         ComputeQp(ft, s, t), phase' = "computed"
  PROVE  RatesRemembered'
<1>1. /\ ~Undefined(ft, s, t) /\ spatial_layer_id' = s /\ temporal_layer_id' = t
      /\ Layered(oxcf) => StartLayerFrame(ft, s, t)
      /\ ~Layered(oxcf) => StartFrame(ft)
      /\ UNCHANGED <<oxcf, current_video_frame, coded>>
  <2>1. phase' # phase
    OBVIOUS
  <2>2. QED
    BY <2>1 DEF ComputeQp
<1>2. /\ Usable(oxcf) /\ oxcf \in Config /\ rc \in RateControl
      /\ Layered(oxcf) => LayersHold(oxcf, layer_context)
      /\ ~Layered(oxcf) => rc.avg_frame_bandwidth = Bandwidth(oxcf) \div Framerate(oxcf)
      /\ coded \subseteq Indices(oxcf)
      /\ coded # {} => current_video_frame > 0
      /\ \A l \in coded : LastRate(l) = Rate(l)
  BY DEF RepeatInv, RatesRemembered, BucketInv, ClientInv, TypeOK, RangesHold, SuppliesHold
<1>3. ~InFrame /\ InFrame' /\ current_layer' = Index(oxcf, s, t)
  BY <1>1 DEF InFrame, current_layer
<1>4. \A l : Rate(l)' = Rate(l)
  BY <1>1 DEF Rate
<1>5. Rate(current_layer)' = Rate(Index(oxcf, s, t))
  BY <1>1, <1>3, <1>4 DEF Rate
<1>6. CASE Layered(oxcf)
  <2> DEFINE l == Index(oxcf, s, t)
  <2>1. /\ rc'.last_avg_frame_bandwidth = layer_context[l].rc.last_avg_frame_bandwidth
        /\ rc'.avg_frame_bandwidth
             = PerFrame(oxcf, LayerBandwidth(oxcf, l), oxcf.ts_rate_decimator[t])
        /\ \A m \in Indices(oxcf) : layer_context'[m].rc.last_avg_frame_bandwidth
                                      = layer_context[m].rc.last_avg_frame_bandwidth
    BY <1>1, <1>2, <1>6, StartLayerFrameRemembers
  <2>2. TemporalOf(oxcf, l) = t
    BY <1>2, LayersInArrays
  <2>3. rc'.avg_frame_bandwidth = Rate(l)
    BY <1>6, <2>1, <2>2 DEF Rate
  <2>4. ASSUME NEW m \in coded PROVE LastRate(m)' = Rate(m)'
    <3>1. LastRate(m) = layer_context[m].rc.last_avg_frame_bandwidth
      BY <1>3, <1>6 DEF LastRate
    <3>2. LastRate(m)' = IF m = l THEN rc'.last_avg_frame_bandwidth
                         ELSE layer_context'[m].rc.last_avg_frame_bandwidth
      BY <1>1, <1>3, <1>6 DEF LastRate
    <3>3. QED
      BY <1>2, <1>4, <2>1, <3>1, <3>2
  <2>5. QED
    BY <1>1, <1>2, <1>5, <2>3, <2>4 DEF RatesRemembered
<1>7. CASE ~Layered(oxcf)
  <2>1. rc'.last_avg_frame_bandwidth = rc.last_avg_frame_bandwidth
    BY <1>1, <1>2, <1>7, StartFrameRemembers
  <2>2. rc'.avg_frame_bandwidth = rc.avg_frame_bandwidth
    BY <1>1, <1>2, <1>7, StartFrameBits
  <2>3. rc'.avg_frame_bandwidth = Rate(Index(oxcf, s, t))
    BY <1>2, <1>7, <2>2 DEF Rate
  <2>4. \A l \in coded : LastRate(l)' = Rate(l)'
    BY <1>1, <1>2, <1>4, <1>7, <2>1 DEF LastRate
  <2>5. QED
    BY <1>1, <1>2, <1>5, <2>3, <2>4 DEF RatesRemembered
<1>8. QED
  BY <1>6, <1>7
\* Levels of coded layers stay within their sizes.
LEMMA StartedWithinSizes ==
  ASSUME RepeatInv, phase = "idle", NEW ft \in FrameTypes,
         NEW s \in 0 .. oxcf.ss_number_layers - 1, NEW t \in 0 .. oxcf.ts_number_layers - 1,
         ComputeQp(ft, s, t), phase' = "computed"
  PROVE  CodedWithinSizes'
<1>1. /\ oxcf' = oxcf /\ coded' = coded /\ phase # "created"
  BY DEF ComputeQp
<1>2. /\ ClientInv /\ BucketInv /\ coded \subseteq Indices(oxcf)
  BY <1>1 DEF RepeatInv, BucketInv, ClientInv, TypeOK
<1>3. ASSUME OptimalLevel(oxcf) <= MaximumSize(oxcf), NEW l \in coded
      PROVE  BucketLevel(l)' <= Share(l, MaximumSize(oxcf))
  <2>1. /\ BucketLevel(l) \in Int /\ Share(l, MaximumSize(oxcf)) \in Nat
    BY <1>1, <1>2, BucketTyped
  <2>2. BucketLevel(l) <= Share(l, MaximumSize(oxcf))
    BY <1>1, <1>3 DEF RepeatInv, CodedWithinSizes
  <2>3. Rate(l) \in Nat
    <3>1. oxcf \in Config /\ Usable(oxcf) /\ l \in Indices(oxcf)
      BY <1>1, <1>2 DEF ClientInv, TypeOK, RangesHold
    <3>2. l \in LayerIds /\ TemporalOf(oxcf, l) \in TemporalIds
      BY <3>1, LayersInArrays
    <3>3. LayerBandwidth(oxcf, l) \in Nat /\ oxcf.ts_rate_decimator[TemporalOf(oxcf, l)] \in Nat
      BY <3>1, <3>2, LayerSizesTyped, ConfigTyped
    <3>4. /\ PerFrame(oxcf, LayerBandwidth(oxcf, l), oxcf.ts_rate_decimator[TemporalOf(oxcf, l)])
               \in Nat
          /\ Bandwidth(oxcf) \div Framerate(oxcf) \in Nat
      <4>1. Bandwidth(oxcf) \in Nat /\ Framerate(oxcf) \in Nat \ {0}
        BY <3>1, SizesTyped
      <4>2. QED
        BY <3>1, <3>3, <4>1, PerFrameNat, DivNat
    <3>5. QED
      BY <3>4 DEF Rate
  <2>4. BucketLevel(l)' = IF l \in FromTemporal(oxcf, s, t)
                          THEN Least(BucketLevel(l) + Rate(l), Share(l, MaximumSize(oxcf)))
                          ELSE BucketLevel(l)
    BY <1>2, StartedBuckets
  <2>5. QED
    BY <2>1, <2>2, <2>3, <2>4 DEF Least
<1>4. \A l : Share(l, MaximumSize(oxcf))' = Share(l, MaximumSize(oxcf))
  BY <1>1 DEF Share
<1>5. QED
  BY <1>1, <1>3, <1>4 DEF CodedWithinSizes

LEMMA ChargedWithinSizes ==
  ASSUME RepeatInv, phase = "filtered", NEW size \in FrameSizes, PostEncodeUpdate(size)
  PROVE  CodedWithinSizes'
<1>1. /\ oxcf' = oxcf /\ coded' = coded \cup {current_layer} /\ phase # "created" /\ InFrame
  BY DEF PostEncodeUpdate, InFrame
<1>2. /\ ClientInv /\ BucketInv /\ PaidAhead /\ coded \subseteq Indices(oxcf)
      /\ oxcf \in Config /\ Usable(oxcf)
      /\ spatial_layer_id \in 0 .. oxcf.ss_number_layers - 1
      /\ temporal_layer_id \in 0 .. oxcf.ts_number_layers - 1
  BY <1>1 DEF RepeatInv, BucketInv, ClientInv, TypeOK, RangesHold
<1>3. /\ current_layer \in Indices(oxcf)
      /\ current_layer \in FromTemporal(oxcf, spatial_layer_id, temporal_layer_id)
  <2>1. current_layer \in Indices(oxcf)
    BY <1>2, LayersInArrays DEF current_layer
  <2>2. temporal_layer_id \in temporal_layer_id .. oxcf.ts_number_layers - 1
    BY <1>2, ConfigTyped
  <2>3. QED
    BY <2>1, <2>2 DEF FromTemporal, current_layer
<1>4. ASSUME OptimalLevel(oxcf) <= MaximumSize(oxcf), NEW l \in coded \cup {current_layer}
      PROVE  BucketLevel(l)' <= Share(l, MaximumSize(oxcf))
  <2>1. l \in Indices(oxcf)
    BY <1>2, <1>3
  <2>2. /\ BucketLevel(l) \in Int /\ Share(l, MaximumSize(oxcf)) \in Nat
    BY <1>1, <1>2, <2>1, BucketTyped
  <2>3. l \in coded => BucketLevel(l) <= Share(l, MaximumSize(oxcf))
    BY <1>1, <1>4 DEF RepeatInv, CodedWithinSizes
  <2>4. l = current_layer => BucketLevel(l) <= Share(l, MaximumSize(oxcf))
    BY <1>1, <1>2, <1>3 DEF PaidAhead
  <2>5. BucketLevel(l)'
          = IF l \in FromTemporal(oxcf, spatial_layer_id, temporal_layer_id)
            THEN BucketLevel(l) - 8 * size ELSE BucketLevel(l)
    BY <1>2, <2>1, ChargedBuckets
  <2>6. 8 * size \in Nat
    BY ParameterAssumption
  <2>7. BucketLevel(l) <= Share(l, MaximumSize(oxcf))
    BY <1>4, <2>3, <2>4
  <2>8. QED
    BY <2>2, <2>5, <2>6, <2>7
<1>5. \A l : Share(l, MaximumSize(oxcf))' = Share(l, MaximumSize(oxcf))
  BY <1>1 DEF Share
<1>6. QED
  BY <1>1, <1>4, <1>5 DEF CodedWithinSizes

\* An update that changes the configuration forgets which layers have coded; one
\* that repeats it leaves their rates and, unless the optimal level exceeds the
\* size, their levels within their sizes.
LEMMA UpdatedRepeatInv ==
  ASSUME RepeatInv, phase = "idle", NEW c \in Configs, Validate(c), ReadsInTable(c),
         SameLayers(c), UpdateConfig(c)
  PROVE  RatesRemembered' /\ CodedWithinSizes'
<1>1. /\ Install(Copied(c)) /\ phase' = "idle" /\ current_video_frame' = current_video_frame
      /\ coded' = IF Copied(c) = oxcf THEN coded ELSE {}
      /\ oxcf' = Copied(c)
  BY DEF UpdateConfig, Install
<1>2. ~InFrame'
  BY <1>1 DEF InFrame
<1>3. /\ BucketInv /\ ClientInv /\ coded \subseteq Indices(oxcf) /\ oxcf \in Config
      /\ Usable(oxcf) /\ current_video_frame \in Nat
      /\ coded # {} => current_video_frame > 0
  BY DEF RepeatInv, RatesRemembered, BucketInv, ClientInv, TypeOK, RangesHold
<1>4. CASE Copied(c) # oxcf
  <2>1. coded' = {}
    BY <1>1, <1>4
  <2>2. QED
    BY <1>2, <2>1 DEF RatesRemembered, CodedWithinSizes
<1>5. CASE Copied(c) = oxcf
  <2>1. oxcf' = oxcf /\ coded' = coded
    BY <1>1, <1>5
  <2>2. \A l \in coded : LastRate(l)' = Rate(l)'
    BY <1>1, <1>3, <2>1, RepeatedBuckets
  <2>3. RatesRemembered'
    BY <1>1, <1>2, <1>3, <2>1, <2>2 DEF RatesRemembered
  <2>4. \A l : /\ Share(l, OptimalLevel(oxcf))' = Share(l, OptimalLevel(oxcf))
               /\ Share(l, MaximumSize(oxcf))' = Share(l, MaximumSize(oxcf))
    BY <2>1 DEF Share
  <2>5. ASSUME OptimalLevel(oxcf) <= MaximumSize(oxcf), NEW l \in coded
        PROVE  BucketLevel(l)' <= Share(l, MaximumSize(oxcf))
    <3>1. l \in Indices(oxcf) /\ current_video_frame > 0
      BY <1>3, <2>5
    <3>2. PICK reset \in SUBSET (0 .. oxcf.ss_number_layers - 1) : \A m \in Indices(oxcf) :
            BucketLevel(m)' = IF SpatialOf(oxcf, m) \in reset
                              THEN Share(m, OptimalLevel(oxcf))'
                              ELSE Least(BucketLevel(m), Share(m, MaximumSize(oxcf))')
      BY <1>1, <1>3, <3>1, UpdatedBuckets
    <3>3. Share(l, OptimalLevel(oxcf)) <= Share(l, MaximumSize(oxcf))
      BY <1>3, <2>5, <3>1, SharesOrdered
    <3>4. /\ BucketLevel(l) \in Int /\ Share(l, MaximumSize(oxcf)) \in Nat
          /\ Share(l, OptimalLevel(oxcf)) \in Nat
      BY <1>3, <3>1, BucketTyped
    <3>5. BucketLevel(l)' \in {Share(l, OptimalLevel(oxcf)),
                               Least(BucketLevel(l), Share(l, MaximumSize(oxcf)))}
      BY <2>4, <3>1, <3>2
    <3>6. QED
      BY <3>3, <3>4, <3>5 DEF Least
  <2>6. CodedWithinSizes'
    BY <2>1, <2>4, <2>5 DEF CodedWithinSizes
  <2>7. QED
    BY <2>3, <2>6
<1>6. QED
  BY <1>4, <1>5

LEMMA NextRepeatInv == RepeatInv /\ [Next]_vars => RepeatInv'
<1> SUFFICES ASSUME RepeatInv, [Next]_vars PROVE RepeatInv'
  OBVIOUS
<1>1. BucketInv /\ BucketInv'
  BY NextBucketInv DEF RepeatInv
<1>2. ASSUME UNCHANGED <<phase, engine>> PROVE RatesRemembered' /\ CodedWithinSizes'
  <2>1. UNCHANGED <<phase, oxcf, rc, layer_context, spatial_layer_id, temporal_layer_id,
                    current_video_frame, coded>>
    BY <1>2 DEF engine, stream, frame
  <2>2. \A l : /\ BucketLevel(l)' = BucketLevel(l) /\ LastRate(l)' = LastRate(l)
               /\ Rate(l)' = Rate(l)
               /\ Share(l, MaximumSize(oxcf))' = Share(l, MaximumSize(oxcf))
    BY <2>1 DEF BucketLevel, LastRate, Rate, Share, InFrame, current_layer
  <2>3. current_layer' = current_layer /\ (InFrame' <=> InFrame)
    BY <2>1 DEF current_layer, InFrame
  <2>4. RatesRemembered'
    BY <2>1, <2>2, <2>3 DEF RepeatInv, RatesRemembered, Rate
  <2>5. CodedWithinSizes'
    BY <2>1, <2>2 DEF RepeatInv, CodedWithinSizes
  <2>6. QED
    BY <2>4, <2>5
<1>3. ASSUME NEW c \in Configs, RateControlInit(c) PROVE RatesRemembered' /\ CodedWithinSizes'
  <2>1. CASE phase' = "idle"
    <3>1. coded = {} /\ coded' = coded
      BY <1>1, <1>3, <2>1 DEF RateControlInit, BucketInv, ClientInv, NothingCoded
    <3>2. QED
      BY <2>1, <3>1 DEF RatesRemembered, CodedWithinSizes, InFrame
  <2>2. CASE phase' # "idle"
    BY <1>2, <1>3, <2>2 DEF RateControlInit
  <2>3. QED
    BY <2>1, <2>2
<1>4. ASSUME phase = "idle", NEW c \in Configs, Validate(c), SameLayers(c), UpdateConfig(c)
      PROVE  RatesRemembered' /\ CodedWithinSizes'
  <2>1. CASE ReadsInTable(c)
    BY <1>4, <2>1, UpdatedRepeatInv
  <2>2. CASE ~ReadsInTable(c)
    BY <1>2, <1>4, <2>2 DEF UpdateConfig
  <2>3. QED
    BY <2>1, <2>2
<1>5. ASSUME phase = "idle", NEW ft \in FrameTypes,
             NEW s \in 0 .. oxcf.ss_number_layers - 1,
             NEW t \in 0 .. oxcf.ts_number_layers - 1, ComputeQp(ft, s, t)
      PROVE  RatesRemembered' /\ CodedWithinSizes'
  <2>1. CASE phase' = "computed"
    BY <1>5, <2>1, StartedRates, StartedWithinSizes
  <2>2. CASE phase' # "computed"
    BY <1>2, <1>5, <2>2 DEF ComputeQp
  <2>3. QED
    BY <2>1, <2>2
<1>6. ASSUME phase = "computed", GetLoopFilterLevel PROVE RatesRemembered' /\ CodedWithinSizes'
  <2>1. /\ UNCHANGED <<oxcf, rc, layer_context, spatial_layer_id, temporal_layer_id,
                       current_video_frame, coded>>
        /\ InFrame' /\ InFrame /\ phase # "created"
    BY <1>6 DEF GetLoopFilterLevel, stream, frame, InFrame
  <2>2. \A l : /\ BucketLevel(l)' = BucketLevel(l) /\ LastRate(l)' = LastRate(l)
               /\ Rate(l)' = Rate(l)
               /\ Share(l, MaximumSize(oxcf))' = Share(l, MaximumSize(oxcf))
    BY <2>1 DEF BucketLevel, LastRate, Rate, Share, current_layer
  <2>3. current_layer' = current_layer
    BY <2>1 DEF current_layer
  <2>4. RatesRemembered'
    BY <2>1, <2>2, <2>3 DEF RepeatInv, RatesRemembered, Rate
  <2>5. CodedWithinSizes'
    BY <2>1, <2>2 DEF RepeatInv, CodedWithinSizes
  <2>6. QED
    BY <2>4, <2>5
<1>7. ASSUME phase = "filtered", NEW size \in FrameSizes, PostEncodeUpdate(size)
      PROVE  RatesRemembered' /\ CodedWithinSizes'
  <2>1. /\ phase' = "idle" /\ coded' = coded \cup {current_layer}
        /\ current_video_frame' = current_video_frame + 1 /\ current_video_frame \in Nat
    BY <1>1, <1>7 DEF PostEncodeUpdate, BucketInv, ClientInv, TypeOK
  <2>2. RatesRemembered'
    BY <1>7, <2>1, ChargedRates DEF RatesRemembered, InFrame
  <2>3. QED
    BY <1>7, <2>2, ChargedWithinSizes
<1>8. ASSUME UNCHANGED vars PROVE RatesRemembered' /\ CodedWithinSizes'
  BY <1>2, <1>8 DEF vars, client
<1>9. RatesRemembered' /\ CodedWithinSizes'
  BY <1>3, <1>4, <1>5, <1>6, <1>7, <1>8 DEF Next
<1>10. QED
  BY <1>1, <1>9 DEF RepeatInv

LEMMA RepeatKeeps ==
  RepeatInv /\ [Next]_vars
  => [ /\ phase = "idle" /\ updates' # updates /\ oxcf' = oxcf /\ coded = Indices(oxcf)
       /\ Layered(oxcf) /\ oxcf.ts_number_layers = 1 => oxcf.ts_rate_decimator[0] = 1
       => \A l \in Indices(oxcf) :
            \/ BucketLevel(l)' = BucketLevel(l)
            \/ /\ OptimalLevel(oxcf) > MaximumSize(oxcf)
               /\ BucketLevel(l)' = Share(l, MaximumSize(oxcf)) ]_vars
<1> SUFFICES ASSUME RepeatInv, Next, phase = "idle", updates' # updates, oxcf' = oxcf,
                    coded = Indices(oxcf),
                    Layered(oxcf) /\ oxcf.ts_number_layers = 1
                      => oxcf.ts_rate_decimator[0] = 1,
                    NEW l \in Indices(oxcf)
             PROVE  \/ BucketLevel(l)' = BucketLevel(l)
                    \/ /\ OptimalLevel(oxcf) > MaximumSize(oxcf)
                       /\ BucketLevel(l)' = Share(l, MaximumSize(oxcf))
  OBVIOUS
<1>1. PICK c \in Configs : Validate(c) /\ SameLayers(c) /\ UpdateConfig(c)
  BY DEF Next, RateControlInit, ComputeQp
<1>2. CASE ReadsInTable(c)
  <2>1. Install(Copied(c)) /\ phase' = "idle" /\ current_video_frame' = current_video_frame
    BY <1>1, <1>2 DEF UpdateConfig
  <2>2. BucketLevel(l)' = Least(BucketLevel(l), Share(l, MaximumSize(oxcf)))
    BY <1>1, <1>2, <2>1, RepeatedBuckets
  <2>3. /\ BucketLevel(l) \in Int /\ Share(l, MaximumSize(oxcf)) \in Nat
        /\ OptimalLevel(oxcf) \in Nat /\ MaximumSize(oxcf) \in Nat
    <3>1. ClientInv /\ oxcf \in Config
      BY DEF RepeatInv, BucketInv, ClientInv, TypeOK
    <3>2. QED
      BY <3>1, BucketTyped, SizesTyped
  <2>4. OptimalLevel(oxcf) <= MaximumSize(oxcf)
          => BucketLevel(l) <= Share(l, MaximumSize(oxcf))
    BY DEF RepeatInv, CodedWithinSizes
  <2>5. QED
    BY <2>2, <2>3, <2>4 DEF Least
<1>3. CASE ~ReadsInTable(c)
  <2>1. UNCHANGED <<phase, oxcf, rc, layer_context, spatial_layer_id, temporal_layer_id>>
    BY <1>1, <1>3 DEF UpdateConfig, engine, stream, frame
  <2>2. QED
    BY <2>1 DEF BucketLevel, InFrame, current_layer
<1>4. QED
  BY <1>2, <1>3

\* For every configuration, an update that repeats it resets no bucket once every
\* layer has coded a frame under it, because every layer remembers the rate it is
\* configured for, and cuts none unless the optimal level exceeds the size.
THEOREM RepeatedUpdatesKeepBuckets == Spec => RepeatedUpdateKeepsBuckets
<1>1. Init => RepeatInv
  <2> SUFFICES ASSUME Init PROVE RepeatInv
    OBVIOUS
  <2>1. ClientInv
    BY InitClientInv
  <2>2. SuppliesHold /\ PaidAhead /\ RatesRemembered /\ CodedWithinSizes
    BY DEF Init, SuppliesHold, PaidAhead, InFrame, RatesRemembered, CodedWithinSizes
  <2>3. QED
    BY <2>1, <2>2 DEF RepeatInv, BucketInv
<1>2. QED
  BY <1>1, NextRepeatInv, RepeatKeeps, PTL DEF Spec, RepeatedUpdateKeepsBuckets
=============================================================================
