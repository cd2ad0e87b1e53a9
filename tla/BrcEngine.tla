----------------------------- MODULE BrcEngine -----------------------------
(***************************************************************************)
(* What a rate-control engine promises to a client that follows the loop   *)
(* documented in libmebo.h: once it accepted a configuration, every frame  *)
(* gets a quantizer within the range configured last, whatever sizes the   *)
(* encoded frames had and however often the configuration changed between  *)
(* frames.  An engine may stop for good between frames instead of          *)
(* answering; it never stops half way through a frame.                     *)
(*                                                                         *)
(* Vp8RateControl implements this module, and LibMebo drives engines that  *)
(* are known only by it.                                                   *)
(***************************************************************************)
EXTENDS Integers

CONSTANT Quantizers        (* the numbers that name a quantizer             *)

VARIABLES
  status,                  \* "none", "ready", "computed" or "stopped"
  range,                   \* <<finest, coarsest>> quantizer configured last
  qp                       \* the quantizer computed last

vars == <<status, range, qp>>

Ranges == {r \in Quantizers \X Quantizers : r[1] <= r[2]}

Init == status = "none"

\* An accepted configuration creates the engine; a rejected one changes nothing.
Create == status = "none" /\ status' = "ready" /\ range' \in Ranges

Update == status = "ready" /\ status' = "ready" /\ range' \in Ranges /\ qp' = qp

Compute ==
  /\ status = "ready" /\ status' = "computed"
  /\ qp' \in range[1] .. range[2]
  /\ range' = range

PostEncode ==
  status = "computed" /\ status' = "ready" /\ UNCHANGED <<range, qp>>

Stop == status \in {"none", "ready"} /\ status' = "stopped" /\ UNCHANGED <<range, qp>>

Release == status = "ready" /\ status' = "none"

Next == Create \/ Update \/ Compute \/ PostEncode \/ Stop \/ Release

Spec == Init /\ [][Next]_vars
=============================================================================
