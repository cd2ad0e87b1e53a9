---------------------------- MODULE FrameBudget ----------------------------
(***************************************************************************)
(* A budget of bits that is granted whole and only spent: every frame      *)
(* takes its cost from it, what is left never exceeds a limit after a      *)
(* frame, and nothing but a new grant raises it.                           *)
(*                                                                         *)
(* Av1RateControl implements this module with the level of its buffer; see *)
(* Budget there.                                                           *)
(***************************************************************************)
EXTENDS Arithmetic

VARIABLES
  left,                    \* bits left, negative when overdrawn
  grant, limit,            \* what a grant gives, and the limit
  cost                     \* bits of the frame coded last

vars == <<left, grant, limit, cost>>

Init == left = 0

Grant == left' = grant' /\ cost' = cost

Spend ==
  /\ cost' >= 0
  /\ left' = Least(left - cost', limit)
  /\ UNCHANGED <<grant, limit>>

Next == Grant \/ Spend

Spec == Init /\ [][Next]_vars
=============================================================================
