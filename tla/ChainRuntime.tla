----------------------------- MODULE ChainRuntime -----------------------------
(***************************************************************************)
(* The L2 block-production runtime (reputation/chain/src/chain_runtime.c)  *)
(* of every node of a small network, with the frames between them.         *)
(*                                                                         *)
(* A block stands for its hash: blocks are records that embed their parent *)
(* so equality of blocks is equality of hashes.  Time is a global clock    *)
(* that node n reads with a constant offset; genesis is time 0.  The frames*)
(* in flight are a set of (destination, frame) pairs; any of them may be   *)
(* delivered in any order, or never, which is how a frame is lost.  The    *)
(* constants say whether a delivered frame may come again, and whether a   *)
(* node may be sent its own.                                               *)
(***************************************************************************)
EXTENDS Naturals, FiniteSets

CONSTANTS
  NumNodes,       \* nodes are 1..NumNodes, in ascending order of peer-id
  NumTrustees,    \* the trustees are the nodes 1..NumTrustees, the rest observe
  KPhase,         \* k_phase, the committee ceiling
  Online,         \* the nodes that run; the rest of the trustees are down
  Draw(_, _),     \* Draw(prev, height): the committee drawn for that slot
  Block,          \* the blocks that can be composed within the bounds
  Proof,          \* fault proofs a Layer-1 view may hold
  None,           \* "no proposal of ours" (cur < 0)
  Offset,         \* Offset[n]: how far n's clock runs ahead
  DrandFloor,     \* ANTS_CHAIN_RT_DRAND_FLOOR_S
  BlockTime,      \* ANTS_CHAIN_BLOCK_TIME_S
  ClockSkew,      \* ANTS_CHAIN_RT_CLOCK_SKEW_S
  Timeout,        \* ANTS_CHAIN_FINALITY_TIMEOUT_S
  Rebroadcast,    \* ANTS_CHAIN_RT_REBROADCAST_S
  MaxProps,       \* RT_MAX_PROPOSALS
  MaxAtts,        \* RT_MAX_ATTESTATIONS
  MaxViewProofs,  \* proofs a view can carry before the view callback fails
  SignMayFail,    \* TRUE: the signing callback may report an error
  Duplicates,     \* TRUE: a delivered frame may be delivered again
  Relayback,      \* TRUE: relays may bring a node its own frames back, as they do
                  \* past the dedup window or a restart, which empties it
  Restartable,    \* bound: the nodes that may restart, once each
  MaxTime,        \* bound: the global clock
  MaxHeight       \* bound: the highest height anyone proposes at

Node    == 1..NumNodes
Trustee == 1..NumTrustees
Genesis == [height |-> 0, cutoff |-> 0, view |-> {}]
Head    == Block \cup {Genesis}

\* k = min(n_trustees, k_phase).
K == IF NumTrustees < KPhase THEN NumTrustees ELSE KPhase

ASSUME NodesAssumption ==
  /\ NumNodes \in Nat /\ NumTrustees \in 1..NumNodes /\ KPhase \in Nat \ {0}
  /\ \A n \in Node : Offset[n] \in Nat
  /\ Online \subseteq Node /\ Restartable \subseteq Online

ASSUME TimesAssumption ==
  /\ {DrandFloor, BlockTime, ClockSkew, Timeout, Rebroadcast} \subseteq Nat
  /\ {MaxTime, MaxHeight} \subseteq Nat
  /\ MaxProps \in Nat /\ MaxProps >= 2 /\ MaxAtts \in Nat \ {0}
  /\ MaxViewProofs \in Nat
  /\ {SignMayFail, Duplicates, Relayback} \subseteq BOOLEAN

\* A committee is K distinct trustees (ants_chain_committee_select).
ASSUME DrawAssumption ==
  \A b \in Block : /\ Draw(b.prev, b.height) \subseteq Trustee
                   /\ Cardinality(Draw(b.prev, b.height)) = K

ASSUME BlockAssumption ==
  /\ None \notin Block
  /\ Genesis \notin Block
  /\ \A b \in Block : /\ b.height \in Nat \ {0}
                      /\ b.cutoff \in Nat
                      /\ b.prev \in Head
  /\ \A height \in 1..MaxHeight, prev \in Head, n \in Node, v \in SUBSET Proof :
       \A cutoff \in 0..(MaxTime + Offset[n]) :
         height > prev.height =>
           [height |-> height, prev |-> prev, cutoff |-> cutoff, view |-> v] \in Block

VARIABLES
  now,        \* the global clock
  rt,         \* rt[n]: struct rt_state of node n
  view,       \* view[n]: the fault proofs n's Layer-1 view shows
  net,        \* frames in flight
  signed,     \* history: signed[n] is every block n ever put its signature on
  restarted   \* history: the nodes that restarted

vars == <<now, rt, view, net, signed, restarted>>

Clock(n) == now + Offset[n]

-----------------------------------------------------------------------------
(* Helpers of chain_runtime.c, as functions of one node's state s.          *)

\* ants_chain_proposer: position height mod k of the ascending committee.
Proposer(C, height) ==
  CHOOSE c \in C : Cardinality({d \in C : d < c}) = height % Cardinality(C)

\* Seeded fault: the threshold rounds down.
ThresholdFloor(k) == (2 * k) \div 3

\* ants_chain_finality_verify: ceil(2k/3).
Threshold(k) == (2 * k + 2) \div 3

\* The members of b's own committee whose attestation of b is in A.
Signers(A, b) ==
  {m \in Draw(b.prev, b.height) : \E a \in A : a.hash = b /\ a.signer = m}

\* Seeded fault: one attestation short of the threshold is enough.
IsFinalLax(s, p) ==
  Cardinality(Signers(s.atts, p)) + 1 >= Threshold(Cardinality(Draw(p.prev, p.height)))

IsFinal(s, p) ==
  Cardinality(Signers(s.atts, p)) >= Threshold(Cardinality(Draw(p.prev, p.height)))

\* att_find: (block_hash, signer) is an attestation's identity.
AttKnown(A, hash, signer) == \E a \in A : a.hash = hash /\ a.signer = signer

\* Seeded fault: the free-slot test is off by one.
AttFileOverrun(A, att) ==
  IF AttKnown(A, att.hash, att.signer) THEN {A}
  ELSE IF Cardinality(A) <= MaxAtts THEN {A \cup {att}}
  ELSE {(A \ {a}) \cup {att} : a \in A}

\* att_file: a known attestation is dropped; a full file gives one up (the code
\* the oldest; which one is left open here).
AttFile(A, att) ==
  IF AttKnown(A, att.hash, att.signer) THEN {A}
  ELSE IF Cardinality(A) < MaxAtts THEN {A \cup {att}}
  ELSE {(A \ {a}) \cup {att} : a \in A}

\* Seeded fault: eviction does not spare the current attempt's slot.
VictimsAny(s) == {v \in s.props : \A p \in s.props : v.height <= p.height}

\* prop_alloc: what the other slots may hold once one slot is free.  A full
\* table gives up a lowest proposal that is not the current attempt's.  A
\* proposal whose signing failed is composed again into a slot of its own, so
\* with failing signatures fewer distinct blocks may fill the table.
Victims(s) == {v \in s.props \ {s.cur} :
                 \A p \in s.props \ {s.cur} : v.height <= p.height}

PropAlloc(s) ==
  (IF Cardinality(s.props) < MaxProps THEN {s.props} ELSE {})
    \cup (IF Cardinality(s.props) < MaxProps /\ ~SignMayFail THEN {}
          ELSE {s.props \ {v} : v \in Victims(s)})

\* start_attempt with purge_below_head.
StartAttempt(s, height, t) ==
  [s EXCEPT !.h = height, !.start = t, !.cur = None, !.lastEmit = 0,
            !.props = {p \in @ : p.height > s.head.height},
            !.atts = {a \in @ : a.height > s.head.height}]

\* try_finalize: adopt a highest final proposal above the head, if any (the
\* code takes the one in the lowest slot; which one is left open here).
Finals(s) == {p \in s.props : p.height > s.head.height /\ IsFinal(s, p)}

TryFinalize(s, t) ==
  IF Finals(s) = {} THEN {s}
  ELSE {StartAttempt([s EXCEPT !.head = best], best.height + 1, t) :
          best \in {p \in Finals(s) : \A q \in Finals(s) : q.height <= p.height}}

\* ants_chain_rt_init.
RtInit(t) ==
  [head |-> Genesis, h |-> 1, start |-> t, cur |-> None, lastEmit |-> 0,
   lastSigned |-> 0, props |-> {}, atts |-> {}]

\* member: a trustee of the committee drawn for the attempt in progress.
Member(n, s) == n \in Draw(s.head, s.h)

\* compose: the view callback fails past its capacity; the block is a
\* function of the slot, the cutoff and the proofs seen.
Composable(n) == Cardinality(view[n]) <= MaxViewProofs
Compose(n, height, prev, cutoff) ==
  [height |-> height, prev |-> prev, cutoff |-> cutoff, view |-> view[n]]

AttestFrame(n, b) == [type |-> "ATTEST", height |-> b.height, hash |-> b, signer |-> n]
BlockFrame(b)     == [type |-> "BLOCK", block |-> b]

\* Seeded fault: the signed height is not recorded.
SignAndForget(n, s, p, t) ==
  {[s EXCEPT !.cur = p, !.lastEmit = t, !.atts = A] :
     A \in AttFile(s.atts, AttestFrame(n, p))}

\* sign_and_emit on the node's state; the frames it sends are Broadcast below.
SignAndEmit(n, s, p, t) ==
  {[s EXCEPT !.lastSigned = p.height, !.cur = p, !.lastEmit = t, !.atts = A] :
     A \in AttFile(s.atts, AttestFrame(n, p))}

\* ants_gossip_broadcast_chain: the frames reach every other running node, by the
\* fan-out or by a relay of handle_chain, which may also carry them back to n.
Broadcast(n, frames) ==
  {[to |-> m, frame |-> f] : m \in IF Relayback THEN Online ELSE Online \ {n}, f \in frames}

\* The runtime of n ends up in s, after the try_finalize that closes a handler.
Settle(n, s) == \E x \in TryFinalize(s, Clock(n)) : rt' = [rt EXCEPT ![n] = x]

-----------------------------------------------------------------------------
Init ==
  /\ now = 0
  /\ rt = [n \in Node |-> RtInit(Clock(n))]
  /\ view = [n \in Node |-> {}]
  /\ net = {}
  /\ signed = [n \in Node |-> {}]
  /\ restarted = {}

(* ants_chain_rt_tick.                                                      *)

\* Seeded fault: a timed-out attempt is never given up.
NeverSkipped(n) == rt[n]

\* The state after the skip test that opens every tick: a timed-out attempt
\* moves to the next height on the same head.
Skipped(n) ==
  IF Clock(n) >= rt[n].start + Timeout
  THEN StartAttempt(rt[n], rt[n].h + 1, Clock(n)) ELSE rt[n]

\* Seeded fault: the distance to the parent is not enforced.
CutoffAnytime(s, cutoff) == cutoff >= s.head.cutoff

\* A block lies at least a block time after its parent (proposer and signer
\* both test it).
CutoffDue(s, cutoff) == cutoff >= s.head.cutoff + BlockTime

\* Seeded fault: the proposer trusts `cur` alone and forgets what it signed.
ProposalDueAgain(n, s) ==
  /\ Member(n, s) /\ n = Proposer(Draw(s.head, s.h), s.h)
  /\ s.cur = None
  /\ Clock(n) >= s.start + DrandFloor /\ CutoffDue(s, Clock(n))

ProposalDue(n, s) ==
  /\ Member(n, s) /\ n = Proposer(Draw(s.head, s.h), s.h)
  /\ s.cur = None /\ s.lastSigned < s.h
  /\ Clock(n) >= s.start + DrandFloor /\ CutoffDue(s, Clock(n))

\* The proposer composes with cutoff = now, files, signs and broadcasts.
TickPropose(n) ==
  LET s == Skipped(n)
      b == Compose(n, s.h, s.head, Clock(n))
  IN  /\ ProposalDue(n, s) /\ s.h <= MaxHeight /\ Composable(n)
      /\ \E ps \in PropAlloc(s) :
           LET filed == [s EXCEPT !.props = ps \cup {b}]
           IN  \/ /\ \E x \in SignAndEmit(n, filed, b, Clock(n)) : Settle(n, x)
                  /\ signed' = [signed EXCEPT ![n] = @ \cup {b}]
                  /\ net' = net \cup Broadcast(n, {AttestFrame(n, b), BlockFrame(b)})
               \/ /\ SignMayFail
                  /\ Settle(n, filed)
                  /\ UNCHANGED <<signed, net>>
      /\ UNCHANGED <<now, view, restarted>>

\* No view to compose from: the slot taken for the proposal is cleared again.
TickAbstain(n) ==
  LET s == Skipped(n)
  IN  /\ ProposalDue(n, s) /\ ~Composable(n)
      /\ \E ps \in PropAlloc(s) : rt' = [rt EXCEPT ![n] = [s EXCEPT !.props = ps]]
      /\ UNCHANGED <<now, view, net, signed, restarted>>

\* Re-broadcast our attestation, if it is still on file, and the proposal.
TickRebroadcast(n) ==
  LET s == Skipped(n)
  IN  /\ ~ProposalDue(n, s) /\ s.cur # None /\ Clock(n) >= s.lastEmit + Rebroadcast
      /\ rt' = [rt EXCEPT ![n] = [s EXCEPT !.lastEmit = Clock(n)]]
      /\ net' = net \cup Broadcast(n,
           {BlockFrame(s.cur)} \cup
           {AttestFrame(n, s.cur) : a \in {a \in s.atts : a.hash = s.cur /\ a.signer = n}})
      /\ UNCHANGED <<now, view, signed, restarted>>

\* A skip and nothing more.
TickSkip(n) ==
  LET s == Skipped(n)
  IN  /\ Clock(n) >= rt[n].start + Timeout /\ ~ProposalDue(n, s)
      /\ rt' = [rt EXCEPT ![n] = s]
      /\ UNCHANGED <<now, view, net, signed, restarted>>

Tick(n) == TickPropose(n) \/ TickAbstain(n) \/ TickRebroadcast(n) \/ TickSkip(n)

(* Frames off the wire (ants_gossip on_chain_frame to the two handlers).    *)

InFlight(n, f) == [to |-> n, frame |-> f] \in net
Consumed(n, f) == IF Duplicates THEN net ELSE net \ {[to |-> n, frame |-> f]}

\* The runtime's own recomputation agrees with b and nothing forbids signing.
MaySign(n, s, b) ==
  /\ Member(n, s) /\ b.height = s.h /\ s.lastSigned < s.h /\ b.prev = s.head
  /\ CutoffDue(s, b.cutoff) /\ b.cutoff <= Clock(n) + ClockSkew
  /\ Composable(n) /\ Compose(n, s.h, s.head, b.cutoff) = b

\* Seeded fault: only blocks on the node's own head are filed.
FileableOnHead(s, b) ==
  /\ b.height > s.head.height /\ b.prev = s.head
  /\ b \in s.props \/ \E a \in s.atts : a.hash = b

\* A block is filed only once an attestation of it is on file.
Fileable(s, b) ==
  b.height > s.head.height /\ (b \in s.props \/ \E a \in s.atts : a.hash = b)

\* ants_chain_rt_on_proposal.
OnProposal(n, b) ==
  LET s == rt[n]
      f == BlockFrame(b)
  IN  /\ InFlight(n, f)
      /\ \/ /\ ~Fileable(s, b)
            /\ net' = Consumed(n, f) /\ UNCHANGED <<rt, signed>>
         \/ /\ Fileable(s, b)
            /\ \E ps \in (IF b \in s.props THEN {s.props} ELSE PropAlloc(s)) :
                 LET filed == [s EXCEPT !.props = ps \cup {b}]
                 IN  \/ /\ MaySign(n, s, b)
                        /\ \E x \in SignAndEmit(n, filed, b, Clock(n)) : Settle(n, x)
                        /\ signed' = [signed EXCEPT ![n] = @ \cup {b}]
                        /\ net' = Consumed(n, f) \cup Broadcast(n, {AttestFrame(n, b)})
                     \/ /\ MaySign(n, s, b) => SignMayFail
                        /\ Settle(n, filed)
                        /\ net' = Consumed(n, f) /\ UNCHANGED signed
      /\ UNCHANGED <<now, view, restarted>>

\* Seeded fault: finality is only tried when a block arrives.
OnAttestationOnlyFiles(n, a) ==
  LET s == rt[n]
  IN  /\ InFlight(n, a)
      /\ net' = Consumed(n, a)
      /\ IF AttKnown(s.atts, a.hash, a.signer) \/ a.height <= s.head.height
         THEN UNCHANGED rt
         ELSE \E A \in AttFile(s.atts, a) : rt' = [rt EXCEPT ![n].atts = A]
      /\ UNCHANGED <<now, view, signed, restarted>>

\* ants_chain_rt_on_attestation: known or stale attestations change nothing.
OnAttestation(n, a) ==
  LET s == rt[n]
  IN  /\ InFlight(n, a)
      /\ net' = Consumed(n, a)
      /\ IF a.signer \notin Trustee \/ AttKnown(s.atts, a.hash, a.signer)
              \/ a.height <= s.head.height
         THEN UNCHANGED rt
         ELSE \E A \in AttFile(s.atts, a) : Settle(n, [s EXCEPT !.atts = A])
      /\ UNCHANGED <<now, view, signed, restarted>>

Deliver(n) ==
  \E x \in net : /\ x.to = n
                 /\ \/ x.frame.type = "BLOCK" /\ OnProposal(n, x.frame.block)
                    \/ x.frame.type = "ATTEST" /\ OnAttestation(n, x.frame)

(* The environment.                                                         *)

AdvanceTime ==
  /\ now < MaxTime
  /\ now' = now + 1
  /\ UNCHANGED <<rt, view, net, signed, restarted>>

\* Gossip brings a fault proof into n's Layer-1 view.
LearnProof(n) ==
  \E p \in Proof \ view[n] :
    /\ view' = [view EXCEPT ![n] = @ \cup {p}]
    /\ UNCHANGED <<now, rt, net, signed, restarted>>

\* The daemon restarts: antsd keeps nothing of the runtime on disk, so
\* chain_begin initialises it from genesis again.
Restart(n) ==
  /\ n \in Restartable \ restarted
  /\ rt' = [rt EXCEPT ![n] = RtInit(Clock(n))]
  /\ restarted' = restarted \cup {n}
  /\ UNCHANGED <<now, view, net, signed>>

Next ==
  \/ \E n \in Online : Tick(n) \/ Deliver(n) \/ LearnProof(n) \/ Restart(n)
  \/ AdvanceTime

Spec == Init /\ [][Next]_vars

-----------------------------------------------------------------------------
(* Properties.                                                              *)

Attestation == [type : {"ATTEST"}, height : Nat, hash : Block, signer : Node]
RtState     == [head : Head, h : Nat, start : Nat, cur : Block \cup {None},
                lastEmit : Nat, lastSigned : Nat, props : SUBSET Block,
                atts : SUBSET Attestation]
Frame       == Attestation \cup [type : {"BLOCK"}, block : Block]

\* Every variable has its type, and the two fixed-size tables (props and atts of
\* struct rt_state) never hold more than they have slots.
TypeOK ==
  /\ now \in 0..MaxTime
  /\ rt \in [Node -> RtState]
  /\ view \in [Node -> SUBSET Proof]
  /\ net \subseteq [to : Node, frame : Frame]
  /\ signed \in [Node -> SUBSET Block]
  /\ restarted \subseteq Node
  /\ \A n \in Node : /\ Cardinality(rt[n].props) <= MaxProps
                     /\ Cardinality(rt[n].atts) <= MaxAtts

\* The committee members whose signature on b is in the history S, and whether
\* they are the ceil(2k/3) that make b final at any node that gets their
\* attestations and b (is_final).
Voters(S, b)    == {m \in Draw(b.prev, b.height) : b \in S[m]}
Certifies(S, b) == Cardinality(Voters(S, b)) >= Threshold(Cardinality(Draw(b.prev, b.height)))
Certified(b)    == Certifies(signed, b)

CertifiedBlocks == {b \in UNION {signed[n] : n \in Node} : Certified(b)}

\* Fewer than a third of b's committee has lost its equivocation guard.
Sound(b) == 3 * Cardinality(Draw(b.prev, b.height) \cap restarted)
              < Cardinality(Draw(b.prev, b.height))

\* A node that never restarted has signed at most one block per height
\* (last_signed_height, chain_runtime.c:319), whatever it skipped, adopted or
\* fell back to in between.
SignOncePerHeight ==
  \A n \in Node \ restarted : \A b, c \in signed[n] : b.height = c.height => b = c

\* "A member signs at most one block per height, ever" (ants_chain_runtime.h:37),
\* whether or not its daemon restarted.
SignOncePerHeightEver ==
  \A n \in Node : \A b, c \in signed[n] : b.height = c.height => b = c

\* Two certified blocks at one height with the same committee are one block, as
\* long as fewer than a third of that committee restarted: the quorums of
\* is_final meet in a member that kept its guard.
Agreement ==
  \A b, c \in CertifiedBlocks :
    /\ b.height = c.height /\ Sound(b)
    /\ Draw(b.prev, b.height) = Draw(c.prev, c.height)
    => b = c

\* A head is genesis or carries a real quorum: no sequence of adoptions,
\* evictions and purges lets try_finalize adopt less.
HeadsCertified == \A n \in Node : rt[n].head = Genesis \/ Certified(rt[n].head)

\* Finality has no gap: a certified block's parent is certified too, it lies a
\* block time after it and at a greater height.
CertifiedAncestry ==
  \A b \in CertifiedBlocks :
    /\ b.prev = Genesis \/ b.prev \in CertifiedBlocks
    /\ b.height > b.prev.height
    /\ b.cutoff >= b.prev.cutoff + BlockTime

\* No handler returns with a provably final proposal left on file: finality is
\* decided by whichever of the block and its attestations arrives last.
NoPendingFinality == \A n \in Node : Finals(rt[n]) = {}

\* The slot `cur` points at (re-broadcast unchecked by rt_tick) still holds the
\* block this node signed in this attempt: eviction, purge and adoption never
\* leave it dangling.
CurIsOurs ==
  \A n \in Node : rt[n].cur # None =>
    /\ rt[n].cur \in rt[n].props \cap signed[n]
    /\ rt[n].cur.height = rt[n].h /\ rt[n].cur.prev = rt[n].head
    /\ rt[n].cur.height = rt[n].lastSigned

\* A signature only lands on the node's own attempt: on its head, above
\* everything it signed in this life, even when it falls back to a height it
\* skipped past because a late certificate moved its head.
SignaturesRise ==
  [][\A n \in Node : \A b \in signed'[n] \ signed[n] :
       /\ b.prev = rt[n].head /\ b.height > rt[n].lastSigned
       /\ rt'[n].lastSigned = b.height]_vars

\* Final blocks form the tree of ChainFinality.
Tree == INSTANCE ChainFinality WITH final <- CertifiedBlocks \cup {Genesis}
Refinement == Tree!Spec
=============================================================================
