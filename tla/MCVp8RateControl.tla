-------------------------- MODULE MCVp8RateControl --------------------------
(***************************************************************************)
(* Instances of Vp8RateControl for TLC: the tables of the code, a damping  *)
(* period of one frame, and small videos at 16 kbps, where the average     *)
(* frame is 1600 bits and a megabit buffer is a few thousand.              *)
(***************************************************************************)
EXTENDS Vp8RateControl, Vp8Tables

MCMinQ == [key |-> kf_high_motion_minq, inter |-> inter_minq]

Base == [rc_mode |-> "cbr", width |-> 64, height |-> 64,
         max_quantizer |-> 56, min_quantizer |-> 4,
         undershoot_pct |-> 50, overshoot_pct |-> 50,
         ss_number_layers |-> 1, ts_number_layers |-> 1,
         max_inter_bitrate_pct |-> 0, max_intra_bitrate_pct |-> 0,
         target_bandwidth |-> 16, framerate |-> 10,
         buf_initial_sz |-> 250, buf_optimal_sz |-> 200, buf_sz |-> 400]

\* A single quantizer, twice the rate, default buffers and an initial level
\* above the maximum.
Pinned == [Base EXCEPT !.max_quantizer = 20, !.min_quantizer = 20,
                       !.target_bandwidth = 32, !.buf_initial_sz = 300,
                       !.buf_optimal_sz = 0, !.buf_sz = 0]

\* A buffer with hardly any room above its optimal level, and a limit on key
\* frames, which the engine passes over.
Tight == [Base EXCEPT !.min_quantizer = 0, !.max_quantizer = 63,
                      !.undershoot_pct = 100, !.overshoot_pct = 100,
                      !.max_intra_bitrate_pct = 100,
                      !.buf_optimal_sz = 399, !.buf_initial_sz = 100]

Rejected == [Base EXCEPT !.rc_mode = "other"]
Inverted == [Base EXCEPT !.max_quantizer = 4, !.min_quantizer = 56]
Larger   == [Base EXCEPT !.width = 128]
Tiny     == [Base EXCEPT !.width = 15, !.buf_optimal_sz = 0]

CoreConfigs == {Base, Pinned, Tight, Larger, Tiny}
AnyConfigs  == {Base, Rejected, Inverted, Pinned}
OneConfig   == {Base}
=============================================================================
