----------------------------- MODULE Av1Tables -----------------------------
(***************************************************************************)
(* The lookup tables of the AV1 controller at 8 bits.  Entry for entry     *)
(* they are those of VP9; the minq table comes from the same polynomial.   *)
(***************************************************************************)
EXTENDS Vp9Tables

av1_quantizer_to_qindex == quantizer_to_qindex
ac_qlookup_QTX          == ac_qlookup
rtc_minq_8              == rtc_minq
=============================================================================
