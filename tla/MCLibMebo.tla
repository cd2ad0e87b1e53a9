------------------------------ MODULE MCLibMebo ------------------------------
(***************************************************************************)
(* Instances of LibMebo for TLC: two controllers, so that they can share or *)
(* take each other's engine, and one engine more than controllers.          *)
(***************************************************************************)
EXTENDS LibMebo, TLC

Low      == [range |-> <<0, 1>>, layers |-> 1]
High     == [range |-> <<2, 2>>, layers |-> 1]
Layered  == [range |-> <<1, 2>>, layers |-> 2]
Inverted == [range |-> <<2, 1>>, layers |-> 1]

LoopConfigs == {Low, High, Layered, Inverted}
AnyConfigs  == {[range |-> <<0, 0>>, layers |-> n] : n \in 1 .. 2}

\* Two scales, like 0..127 and 0..255, that meet at the finest index only.
LoopMaxQ   == [VP8 |-> 3, VP9 |-> 5]
LoopQindex == [VP8 |-> [q \in 0 .. 2 |-> (3 * q) \div 2],
               VP9 |-> [q \in 0 .. 2 |-> (5 * q) \div 2]]
AnyMaxQ    == [VP8 |-> 0, VP9 |-> 1]
AnyQindex  == [VP8 |-> [q \in {0} |-> 0], VP9 |-> [q \in {0} |-> 1]]

Symmetric == Permutations(Controllers) \cup Permutations(Engines)
=============================================================================
