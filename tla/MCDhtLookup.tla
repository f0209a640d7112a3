----------------------------- MODULE MCDhtLookup -----------------------------
(* Instances of DhtLookup for TLC.                                          *)
EXTENDS DhtLookup, TLC

\* The buckets hold the peers in another order than their distance to the target.
MCTableOrder == [i \in 1..NumPeers |-> NumPeers + 1 - i]

\* Empty responses and responses that name one peer.
MCResponse == {<<>>} \cup {<<p>> : p \in Peer}

\* Handles are told apart only by the buffer they name.
HandleSymmetry == Permutations(Handle)
=============================================================================
