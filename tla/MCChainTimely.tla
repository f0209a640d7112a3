---------------------------- MODULE MCChainTimely ----------------------------
(* Instances of ChainTimely for TLC.                                        *)
EXTENDS ChainTimely

MCOffset == [n \in Node |-> 0]

MCDraw(prev, height) ==
  {((height + i) % NumTrustees) + 1 : i \in 0..(K - 1)}

UpTo[m \in 0..MaxHeight] ==
  IF m = 0 THEN {Genesis}
  ELSE UpTo[m - 1] \cup
       [height : {m}, prev : UpTo[m - 1], cutoff : 0..MaxTime, view : SUBSET Proof]

MCBlock == {b \in UpTo[MaxHeight] : b.height > 0}
=============================================================================
