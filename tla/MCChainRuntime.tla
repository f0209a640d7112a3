---------------------------- MODULE MCChainRuntime ----------------------------
(* Instances of ChainRuntime for TLC.                                       *)
EXTENDS ChainRuntime

CONSTANT Ahead  \* the nodes whose clock runs one unit ahead

MCOffset == [n \in Node |-> IF n \in Ahead THEN 1 ELSE 0]

\* Every trustee when the ceiling allows it; otherwise a window of K trustees
\* that the parent and the height move around.
MCDraw(prev, height) ==
  {((prev.cutoff + height + i) % NumTrustees) + 1 : i \in 0..(K - 1)}

UpTo[m \in 0..MaxHeight] ==
  IF m = 0 THEN {Genesis}
  ELSE UpTo[m - 1] \cup
       [height : {m}, prev : UpTo[m - 1], cutoff : 0..(MaxTime + (IF Ahead = {} THEN 0 ELSE 1)), view : SUBSET Proof]

MCBlock == {b \in UpTo[MaxHeight] : b.height > 0}
=============================================================================
