-------------------------- MODULE MCAv1RateControl --------------------------
(***************************************************************************)
(* Instances of Av1RateControl for TLC: the tables of the code and small   *)
(* videos at 16 to 32 kbps.                                                *)
(***************************************************************************)
EXTENDS Av1RateControl, Av1Tables

Steady == [rc_mode |-> "cbr", width |-> 64, height |-> 64,
           max_quantizer |-> 56, min_quantizer |-> 4, target_bandwidth |-> 16,
           buf_initial_sz |-> 400, buf_optimal_sz |-> 200, buf_sz |-> 400,
           undershoot_pct |-> 50, overshoot_pct |-> 50,
           max_intra_bitrate_pct |-> 0, max_inter_bitrate_pct |-> 0,
           framerate |-> 10,
           ss_number_layers |-> 1, ts_number_layers |-> 1,
           layer_target_bitrate |-> [l \in 0 .. MaxLayers - 1 |-> 16],
           ts_rate_decimator |-> [t \in 0 .. MaxTemporalLayers - 1 |-> 1]]

\* The coarsest quantizers only, twice the rate, both percentages, and default
\* sizes with a starting level at the maximum.
Coarse == [Steady EXCEPT !.min_quantizer = 60, !.max_quantizer = 63,
                         !.target_bandwidth = 32, !.buf_initial_sz = 125,
                         !.buf_optimal_sz = 0, !.buf_sz = 0,
                         !.max_intra_bitrate_pct = 150, !.max_inter_bitrate_pct = 90]

\* A starting level far above the maximum, a frame rate over 180, and two
\* layers of each kind.
Overfull == [Steady EXCEPT !.buf_initial_sz = 1000, !.buf_optimal_sz = 100,
                           !.buf_sz = 200, !.framerate = 200,
                           !.ss_number_layers = 2, !.ts_number_layers = 2,
                           !.ts_rate_decimator = [t \in 0 .. MaxTemporalLayers - 1 |->
                                                    IF t = 0 THEN 2 ELSE 1]]

Rejected == [Steady EXCEPT !.rc_mode = "other"]
Negative == [Steady EXCEPT !.min_quantizer = -1]

CoreConfigs  == {Steady, Coarse, Overfull, Rejected, Negative}
LeakyConfigs == {Steady}
=============================================================================
