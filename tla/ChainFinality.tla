---------------------------- MODULE ChainFinality ----------------------------
(***************************************************************************)
(* What the L2 block-production runtime promises the rest of the client:   *)
(* a growing set of final blocks in which every block extends an earlier   *)
(* final one, at a later height and a later cutoff, and no slot - a parent *)
(* and a height - is filled twice.  The set is a tree, not a chain: a      *)
(* skipped attempt lets two final blocks at different heights share a      *)
(* parent (reputation/chain/include/ants_chain_runtime.h, "Skip" and       *)
(* "Adoption").                                                            *)
(***************************************************************************)
EXTENDS Naturals

CONSTANTS Block,     \* every block that can be composed
          Genesis,   \* the genesis head, height 0
          BlockTime  \* least distance between a block's cutoff and its parent's

VARIABLE final       \* the blocks that are final

\* b may follow its parent: a higher block, composed at least a block time later.
Follows(b) ==
  /\ b.height > b.prev.height
  /\ b.cutoff >= b.prev.cutoff + BlockTime

\* The slot a block competes for.
SameSlot(b, c) == b.prev = c.prev /\ b.height = c.height

Init == final = {Genesis}

Finalise(b) ==
  /\ b.prev \in final
  /\ Follows(b)
  /\ \A c \in final \ {Genesis} : ~SameSlot(b, c)
  /\ final' = final \cup {b}

Next == \E b \in Block : Finalise(b)

Spec == Init /\ [][Next]_final
=============================================================================
