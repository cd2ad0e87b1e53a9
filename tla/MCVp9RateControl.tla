-------------------------- MODULE MCVp9RateControl --------------------------
(***************************************************************************)
(* Instances of Vp9RateControl for TLC: the tables of the code and small   *)
(* videos at 16 kbps with one layer, two temporal layers, two spatial      *)
(* layers, and two of each.                                                *)
(***************************************************************************)
EXTENDS Vp9RateControl, Vp9Tables

\* The array of a configuration that starts with the entries of a tuple.
Array(ids, entries) == [i \in ids |-> IF i < Len(entries) THEN entries[i + 1] ELSE 0]

Single == [rc_mode |-> "cbr", width |-> 64, height |-> 64,
           max_quantizer |-> 56, min_quantizer |-> 4,
           target_bandwidth |-> 16,
           buf_initial_sz |-> 250, buf_optimal_sz |-> 200, buf_sz |-> 400,
           undershoot_pct |-> 50, overshoot_pct |-> 50,
           max_intra_bitrate_pct |-> 0, framerate |-> 10,
           ss_number_layers |-> 1, ts_number_layers |-> 1,
           max_quantizers |-> Array(LayerIds, <<>>),
           min_quantizers |-> Array(LayerIds, <<>>),
           scaling_factor_num |-> Array(SpatialIds, <<1>>),
           scaling_factor_den |-> Array(SpatialIds, <<1>>),
           layer_target_bitrate |-> Array(LayerIds, <<16>>),
           ts_rate_decimator |-> Array(TemporalIds, <<1>>)]

\* A single quantizer, twice the rate, default buffers and an initial level
\* above the maximum.
Pinned == [Single EXCEPT !.max_quantizer = 20, !.min_quantizer = 20,
                         !.target_bandwidth = 32, !.buf_initial_sz = 300,
                         !.buf_optimal_sz = 0, !.buf_sz = 0,
                         !.max_intra_bitrate_pct = 150]

\* The coarsest quantizers only, and hardly any room above the optimal level.
Tight == [Single EXCEPT !.min_quantizer = 60, !.max_quantizer = 63,
                        !.buf_optimal_sz = 399, !.buf_initial_sz = 100,
                        !.undershoot_pct = 100, !.overshoot_pct = 100]

Rejected == [Single EXCEPT !.rc_mode = "other"]
Negative == [Single EXCEPT !.min_quantizer = -1]

\* Every other frame is in the upper of two temporal layers.
Temporal == [Single EXCEPT !.ts_number_layers = 2,
                           !.layer_target_bitrate = Array(LayerIds, <<10, 16>>),
                           !.ts_rate_decimator = Array(TemporalIds, <<2, 1>>)]
TemporalFaster == [Temporal EXCEPT !.target_bandwidth = 32, !.buf_sz = 250,
                                   !.layer_target_bitrate = Array(LayerIds, <<20, 32>>)]

\* A half-size layer under the full size.
Spatial == [Single EXCEPT !.ss_number_layers = 2,
                          !.max_quantizers = Array(LayerIds, <<56, 40>>),
                          !.layer_target_bitrate = Array(LayerIds, <<5, 11>>),
                          !.scaling_factor_num = Array(SpatialIds, <<1, 1>>),
                          !.scaling_factor_den = Array(SpatialIds, <<2, 1>>)]
SpatialSlower == [Spatial EXCEPT !.target_bandwidth = 8, !.max_quantizer = 40,
                                 !.layer_target_bitrate = Array(LayerIds, <<2, 6>>)]
Unscaled == [Spatial EXCEPT !.scaling_factor_num = Array(SpatialIds, <<0, 1>>)]

Both == [Spatial EXCEPT !.ts_number_layers = 2,
                        !.layer_target_bitrate = Array(LayerIds, <<3, 5, 7, 11>>),
                        !.ts_rate_decimator = Array(TemporalIds, <<2, 1>>)]

\* As many temporal layers as validation admits, of which none is installed.
FiveLayers == [Temporal EXCEPT !.ts_number_layers = 5,
                 !.ts_rate_decimator = Array(TemporalIds, <<16, 8, 4, 2, 1>>)]

CoreConfigs == {Single, Pinned, Tight, Rejected, Negative, Temporal, TemporalFaster,
                Spatial, SpatialSlower, Unscaled, Both, FiveLayers}
LayerConfigs == {Spatial}
=============================================================================
