----------------------------- MODULE ChainTimely -----------------------------
(***************************************************************************)
(* ChainRuntime under the schedule the daemon's loop gives it: every node  *)
(* runs its tick, and the frames in flight arrive, before the clock moves  *)
(* on (cmd/antsd/run.c steps the transport and calls antsd_chain_tick many *)
(* times a second; the runtime counts whole seconds).  Frames from one     *)
(* sender to one peer travel in order on one stream, and a sender sends    *)
(* its attestation before the block.  A number of frames may be lost.      *)
(***************************************************************************)
EXTENDS ChainRuntime

CONSTANT MaxLosses   \* bound: frames the network may lose

ASSUME LossesAssumption == MaxLosses \in Nat

VARIABLES
  losses,   \* frames lost so far
  ticked    \* the nodes whose tick ran at this second

timelyVars == <<vars, losses, ticked>>

TimelyInit == Init /\ losses = 0 /\ ticked = {}

\* A tick, or a tick with nothing to do.
TimelyTick(n) ==
  /\ n \notin ticked
  /\ \/ Tick(n)
     \/ /\ ~ProposalDue(n, Skipped(n)) /\ Clock(n) < rt[n].start + Timeout
        /\ rt[n].cur # None => Clock(n) < rt[n].lastEmit + Rebroadcast
        /\ UNCHANGED vars
     \/ /\ ProposalDue(n, Skipped(n)) /\ Skipped(n).h > MaxHeight
        /\ UNCHANGED vars
  /\ ticked' = ticked \cup {n}
  /\ UNCHANGED losses

\* A sender puts its attestation of a block on the stream before the block, so
\* the copy that arrives follows the attestation of one of the block's signers.
InOrder(n, b) == \E m \in Online : b \in signed[m] /\ ~InFlight(n, AttestFrame(m, b))

TimelyDeliver(n) ==
  /\ \E x \in net :
       /\ x.to = n
       /\ \/ /\ x.frame.type = "BLOCK"
             /\ InOrder(n, x.frame.block)
             /\ OnProposal(n, x.frame.block)
          \/ x.frame.type = "ATTEST" /\ OnAttestation(n, x.frame)
  /\ UNCHANGED <<losses, ticked>>

TimelyAdvance ==
  /\ net = {} /\ Online \subseteq ticked
  /\ AdvanceTime
  /\ ticked' = {}
  /\ UNCHANGED losses

\* A frame is dropped: no connection to the peer, or a full queue.
Lose ==
  /\ losses < MaxLosses
  /\ \E x \in net : net' = net \ {x}
  /\ losses' = losses + 1
  /\ UNCHANGED <<now, rt, view, signed, restarted, ticked>>

TimelyNext ==
  \/ \E n \in Online : TimelyTick(n) \/ TimelyDeliver(n)
  \/ TimelyAdvance
  \/ Lose

\* The loop runs forever and the network delivers what it does not lose.
TimelySpec ==
  /\ TimelyInit /\ [][TimelyNext]_timelyVars
  /\ \A n \in Online : WF_timelyVars(TimelyTick(n)) /\ WF_timelyVars(TimelyDeliver(n))
  /\ WF_timelyVars(TimelyAdvance)

\* With a quorum running, equal views and no loss every running node gets a new
\* head, though the first proposer may be down and its attempt be skipped.
Progress == <>(\A n \in Online : rt[n].head.height >= 1)

\* The heights with two more blocks above them.  MaxHeight ends the instance; a
\* node left at an old head may propose the next height on it in vain, and the
\* block of the height after that is the one that brings it along.
Followed == 1..(MaxHeight - 2)

\* "a node that fell behind or joined late catches up on finality"
\* (ants_chain_runtime.h:55): when a running node has a head of height h or more,
\* every running node comes to have one.
CatchUp ==
  \A h \in Followed :
    (\E m \in Online : rt[m].head.height >= h)
      ~> (\A n \in Online : rt[n].head.height >= h)
=============================================================================
