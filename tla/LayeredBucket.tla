--------------------------- MODULE LayeredBucket ---------------------------
(***************************************************************************)
(* What the buffer levels of a layered stream are: one leaky bucket per    *)
(* layer, a layer being a pair of a spatial and a temporal id.  The bucket *)
(* of a layer stands for a decoder of that spatial layer and of all        *)
(* temporal layers up to its own, so a frame fills, and is paid for by,    *)
(* its layer and the temporal layers above it.                             *)
(*                                                                         *)
(* Vp9RateControl implements this module, although it keeps the level of   *)
(* the layer of the current frame in a copy; see Buckets there.            *)
(***************************************************************************)
EXTENDS Arithmetic

VARIABLES
  level,                   \* layer -> bits in its bucket
  supply,                  \* layer -> bits of an average frame
  optimum, capacity,       \* layer -> the level aimed at and the most it holds
  current,                 \* the layers whose buckets pay for the frame being coded
  started                  \* whether a frame was coded

sizes == <<supply, optimum, capacity>>
vars  == <<level, sizes, current, started>>

Layers == DOMAIN level

Init == level = <<>> /\ current = {} /\ ~started

Open ==
  /\ level = <<>>
  /\ DOMAIN level' = DOMAIN capacity'
  /\ UNCHANGED <<current, started>>

\* The layers that a frame of layer l concerns.
Upward(l) == {m \in Layers : m[1] = l[1] /\ m[2] >= l[2]}

StartFrame(l) ==
  /\ current = {} /\ current' = Upward(l)
  /\ level' = [m \in Layers |->
                 IF m \in Upward(l) THEN Least(level[m] + supply[m], capacity[m])
                 ELSE level[m]]
  /\ UNCHANGED <<sizes, started>>

\* The frame is paid exactly, whatever it cost.
EndFrame ==
  /\ current # {} /\ current' = {} /\ started'
  /\ \E l \in current : \A m \in Layers :
       level'[m] = IF m \in current THEN level[m] + (level'[l] - level[l]) ELSE level[m]
  /\ DOMAIN level' = Layers
  /\ UNCHANGED sizes

\* New rates and sizes between frames.  A level is cut to the new capacity, or
\* brought to the new optimum in all temporal layers of a spatial layer;
\* before the first frame it may also start over.
Reconfigure ==
  /\ current = {}
  /\ DOMAIN level' = Layers /\ DOMAIN capacity' = Layers
  /\ \/ started /\ \E reset \in SUBSET {l[1] : l \in Layers} :
          level' = [l \in Layers |->
                      IF l[1] \in reset THEN optimum'[l] ELSE Least(level[l], capacity'[l])]
     \/ ~started /\ \A l \in Layers : level'[l] <= capacity'[l]
  /\ UNCHANGED <<current, started>>

Next ==
  \/ Open
  \/ \E l \in Layers : StartFrame(l)
  \/ EndFrame
  \/ Reconfigure

Spec == Init /\ [][Next]_vars
=============================================================================
