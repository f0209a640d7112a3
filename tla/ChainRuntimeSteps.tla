--------------------------- MODULE ChainRuntimeSteps --------------------------
(***************************************************************************)
(* The inductive invariant of ChainRuntime, and the one shape that every step *)
(* of a node other than a restart has.                                     *)
(***************************************************************************)
EXTENDS ChainRuntimeLemmas

-----------------------------------------------------------------------------
(* The inductive invariant.                                                 *)

LocalInvs == \A n \in Node : LocalInv(rt[n])

\* The block a node re-broadcasts is one it signed.
CurSigned == \A n \in Node : rt[n].cur # None => rt[n].cur \in signed[n]

\* Attestations on file and on the wire carry a signature their signer made.
AttsGenuine == \A n \in Node : \A a \in rt[n].atts : a.hash \in signed[a.signer]
NetGenuine  == \A x \in net : x.frame.type = "ATTEST" => x.frame.hash \in signed[x.frame.signer]

\* Whatever is signed extends a certified block, later and higher.
Grounded(b) ==
  /\ b.prev = Genesis \/ Certified(b.prev)
  /\ b.height > b.prev.height
  /\ b.cutoff >= b.prev.cutoff + BlockTime

SignedGrounded == \A n \in Node : \A b \in signed[n] : Grounded(b)

\* last_signed_height bounds what a node that never restarted has signed.
SignedBelow ==
  \A n \in Node \ restarted : \A b \in signed[n] : b.height <= rt[n].lastSigned

Types ==
  /\ now \in 0..MaxTime
  /\ rt \in [Node -> RtState]
  /\ view \in [Node -> SUBSET Proof]
  /\ net \subseteq [to : Node, frame : Frame]
  /\ signed \in [Node -> SUBSET Block]
  /\ restarted \subseteq Node

IInv ==
  /\ Types
  /\ LocalInvs
  /\ CurSigned
  /\ AttsGenuine
  /\ NetGenuine
  /\ HeadsCertified
  /\ SignedGrounded
  /\ SignedBelow
  /\ SignOncePerHeight
  /\ NoPendingFinality
  /\ restarted \subseteq Restartable

\* A node reads its clock within the bounds of the model.
LEMMA ClockType ==
  ASSUME Types, NEW n \in Node
  PROVE  Clock(n) \in Nat /\ Clock(n) \in 0..(MaxTime + Offset[n])
BY NodesAssumption, TimesAssumption DEF Types, Clock

\* The skip that opens a tick.
LEMMA SkippedLocal ==
  ASSUME Types, LocalInvs, NEW n \in Node
  PROVE  LET s == Skipped(n)
         IN  /\ LocalInv(s) /\ s.head = rt[n].head /\ s.lastSigned = rt[n].lastSigned
             /\ s.props \subseteq rt[n].props /\ s.atts \subseteq rt[n].atts
             /\ s.cur # None => s = rt[n]
<1>1. LocalInv(rt[n]) /\ Clock(n) \in Nat
  BY ClockType DEF LocalInvs
<1>2. rt[n].h + 1 \in Nat /\ rt[n].h + 1 > rt[n].head.height /\ rt[n] \in RtState
  BY <1>1, HeadType DEF LocalInv, RtState
<1>3. CASE Clock(n) >= rt[n].start + Timeout
  <2>1. Skipped(n) = StartAttempt(rt[n], rt[n].h + 1, Clock(n))
    BY <1>3 DEF Skipped
  <2> QED
    BY <1>1, <1>2, <2>1, StartAttemptLocal DEF LocalInv
<1>4. CASE ~(Clock(n) >= rt[n].start + Timeout)
  <2>1. Skipped(n) = rt[n]
    BY <1>4 DEF Skipped
  <2> QED
    BY <1>1, <2>1
<1> QED
  BY <1>3, <1>4

\* With the same head and fewer entries on file nothing new is final.
LEMMA FinalsShrink ==
  ASSUME NEW s, LocalInv(s), NEW y, y.head = s.head,
         y.props \subseteq s.props, y.atts \subseteq s.atts
  PROVE  Finals(y) \subseteq Finals(s)
<1> SUFFICES ASSUME NEW p \in Finals(y) PROVE p \in Finals(s)
  OBVIOUS
<1>1. p \in s.props /\ p.height > s.head.height /\ IsFinal(y, p)
  BY DEF Finals
<1>2. p \in Block
  BY <1>1 DEF LocalInv, RtState
<1>3. /\ Cardinality(Signers(y.atts, p)) <= Cardinality(Signers(s.atts, p))
      /\ Cardinality(Signers(y.atts, p)) \in Nat /\ Cardinality(Signers(s.atts, p)) \in Nat
  BY <1>2, SignersMonotone
<1>4. Threshold(Cardinality(Draw(p.prev, p.height))) \in Nat
  BY <1>2, CommitteeFinite, ThresholdBounds
<1> QED
  BY <1>1, <1>3, <1>4 DEF Finals, IsFinal

-----------------------------------------------------------------------------
(* Every step of a node other than a restart has one shape: it ends in a well  *)
(* formed state y and signs at most one block, on its own head, above all it   *)
(* signed before; the attestations it uses are on file, on the wire or its own.*)

Sourced(n, new, a) ==
  \/ a \in rt[n].atts
  \/ [to |-> n, frame |-> a] \in net
  \/ a.signer = n /\ a.hash \in new

Signable(n, y, b) ==
  /\ b \in Block /\ b.prev = rt[n].head
  /\ b.height > b.prev.height /\ b.cutoff >= b.prev.cutoff + BlockTime
  /\ b.height > rt[n].lastSigned /\ y.lastSigned = b.height

\* The new head, if any, has a quorum of sourced attestations.
Adopts(n, y, new) ==
  /\ y.head \in Block
  /\ \E A : /\ \A a \in A : a \in Attestation /\ Sourced(n, new, a)
            /\ Cardinality(Signers(A, y.head))
                 >= Threshold(Cardinality(Draw(y.head.prev, y.head.height)))

Sends(n, new) ==
  \A x \in net' : \/ x \in net
                  \/ /\ x \in [to : Node, frame : Frame]
                     /\ x.frame.type = "ATTEST" =>
                          x.frame.signer = n /\ x.frame.hash \in signed[n] \cup new

\* What a state on the way from rt[n] holds is old, received or the node's own.
Kept(n, y, new) ==
  /\ y.cur # None => y.cur = rt[n].cur \/ y.cur \in new
  /\ \A a \in y.atts : Sourced(n, new, a)

Ready(n, z, new) == LocalInv(z) /\ z.head = rt[n].head /\ Kept(n, z, new)

Settled(n, y, new) ==
  /\ LocalInv(y) /\ Finals(y) = {} /\ Kept(n, y, new)
  /\ rt' = [rt EXCEPT ![n] = y]
  /\ y.head = rt[n].head \/ Adopts(n, y, new)

NodeStep(n, y, new) ==
  /\ Settled(n, y, new)
  /\ signed' = [signed EXCEPT ![n] = @ \cup new]
  /\ \/ new = {} /\ y.lastSigned = rt[n].lastSigned
     \/ \E b : new = {b} /\ Signable(n, y, b)
  /\ Sends(n, new)
  /\ UNCHANGED <<now, view, restarted>>

\* The try_finalize that closes a handler, from a well formed state z.
LEMMA SettleStep ==
  ASSUME Types, NEW n \in Node, NEW z, NEW new, Ready(n, z, new), Settle(n, z)
  PROVE  \E y : Settled(n, y, new) /\ y.lastSigned = z.lastSigned
<1>0. /\ LocalInv(z) /\ z.head = rt[n].head
      /\ z.cur # None => z.cur = rt[n].cur \/ z.cur \in new
      /\ \A a \in z.atts : Sourced(n, new, a)
  BY DEF Ready, Kept
<1>1. PICK y \in TryFinalize(z, Clock(n)) : rt' = [rt EXCEPT ![n] = y]
  BY Zenon DEF Settle
<1>2. Clock(n) \in Nat
  BY ClockType
<1>3. /\ LocalInv(y) /\ y.lastSigned = z.lastSigned
      /\ y.props \subseteq z.props /\ y.atts \subseteq z.atts
      /\ \/ y = z
         \/ y.cur = None /\ y.head \in z.props /\ IsFinal(z, y.head)
      /\ Finals(y) = {}
  BY <1>0, <1>1, <1>2, TryFinalizeLocal
<1>4. y.head = rt[n].head \/ Adopts(n, y, new)
  <2>1. CASE y = z
    BY <1>0, <2>1
  <2>2. CASE y.head \in z.props /\ IsFinal(z, y.head)
    <3>1. y.head \in Block
      BY <1>0, <2>2 DEF LocalInv, RtState
    <3>2. \A a \in z.atts : a \in Attestation
      BY <1>0 DEF LocalInv, RtState
    <3> QED
      BY <1>0, <2>2, <3>1, <3>2 DEF Adopts, IsFinal
  <2> QED
    BY <1>3, <2>1, <2>2
<1>5. Kept(n, y, new)
  BY <1>0, <1>3 DEF Kept
<1>6. Settled(n, y, new)
  BY <1>1, <1>3, <1>4, <1>5 DEF Settled
<1> QED
  BY <1>3, <1>6

\* What a node broadcasts: the block, and its own attestation of it.
LEMMA FramesSent ==
  ASSUME NEW n \in Node, NEW b \in Block, NEW x,
         x \in Broadcast(n, {AttestFrame(n, b), BlockFrame(b)})
  PROVE  /\ x \in [to : Node, frame : Frame]
         /\ x.frame.type = "ATTEST" => x.frame.signer = n /\ x.frame.hash = b
<1>1. PICK m \in Online, f \in {AttestFrame(n, b), BlockFrame(b)} : x = [to |-> m, frame |-> f]
  BY DEF Broadcast
<1>2. m \in Node
  BY NodesAssumption
<1>3. AttestFrame(n, b) \in Frame /\ BlockFrame(b) \in Frame
  BY BlockAssumption DEF AttestFrame, BlockFrame, Frame, Attestation
<1>4. f.type = "ATTEST" => f.signer = n /\ f.hash = b
  BY DEF AttestFrame, BlockFrame
<1> QED
  BY <1>1, <1>2, <1>3, <1>4

\* A composed block is a block of the model.
LEMMA ComposedBlock ==
  ASSUME Types, NEW n \in Node, NEW s, LocalInv(s), s.h <= MaxHeight,
         NEW b, b = Compose(n, s.h, s.head, Clock(n))
  PROVE  /\ b \in Block /\ b.height = s.h /\ b.prev = s.head /\ b.cutoff = Clock(n)
<1>1. s.h \in Nat /\ s.head \in Head /\ s.head.height \in Nat /\ s.h > s.head.height
  BY HeadType DEF LocalInv, RtState
<1>2. s.h \in 1..MaxHeight
  BY <1>1, TimesAssumption
<1>3. view[n] \in SUBSET Proof /\ Clock(n) \in 0..(MaxTime + Offset[n])
  BY ClockType DEF Types
<1>4. b = [height |-> s.h, prev |-> s.head, cutoff |-> Clock(n), view |-> view[n]]
  BY DEF Compose
<1> QED
  BY <1>1, <1>2, <1>3, <1>4, BlockAssumption

\* rt_tick composing, filing and signing (or failing to sign) a proposal.
LEMMA TickProposeStep ==
  ASSUME IInv, NEW n \in Node, TickPropose(n)
  PROVE  \E y, new : NodeStep(n, y, new)
<1> DEFINE s == Skipped(n)
           b == Compose(n, s.h, s.head, Clock(n))
<1>1. /\ LocalInv(s) /\ s.head = rt[n].head /\ s.lastSigned = rt[n].lastSigned
      /\ s.atts \subseteq rt[n].atts
  BY SkippedLocal DEF IInv
<1>2. ProposalDue(n, s) /\ s.h <= MaxHeight
  BY DEF TickPropose
<1>3. /\ s.cur = None /\ s.lastSigned < s.h /\ Clock(n) >= s.head.cutoff + BlockTime
  BY <1>2 DEF ProposalDue, CutoffDue
<1>4. PICK ps \in PropAlloc(s) :
        \/ /\ \E x \in SignAndEmit(n, [s EXCEPT !.props = ps \cup {b}], b, Clock(n)) : Settle(n, x)
           /\ signed' = [signed EXCEPT ![n] = @ \cup {b}]
           /\ net' = net \cup Broadcast(n, {AttestFrame(n, b), BlockFrame(b)})
        \/ /\ Settle(n, [s EXCEPT !.props = ps \cup {b}])
           /\ UNCHANGED <<signed, net>>
  BY Zenon DEF TickPropose
<1>5. UNCHANGED <<now, view, restarted>>
  BY DEF TickPropose
<1>6. Types /\ signed[n] \subseteq Block /\ n \in DOMAIN signed /\ Clock(n) \in Nat
  BY ClockType DEF IInv, Types
<1> HIDE DEF s
<1>7. b \in Block /\ b.height = s.h /\ b.prev = s.head /\ b.cutoff = Clock(n)
  BY <1>1, <1>2, <1>6, ComposedBlock
<1> HIDE DEF b
<1> DEFINE z == [s EXCEPT !.props = ps \cup {b}]
<1>8. /\ LocalInv(z) /\ b \in z.props /\ z.head = s.head /\ z.h = s.h /\ z.cur = s.cur
      /\ z.lastSigned = s.lastSigned /\ z.atts = s.atts
  BY <1>1, <1>7, FileLocal
<1> HIDE DEF z
<1>9. CASE /\ \E x \in SignAndEmit(n, z, b, Clock(n)) : Settle(n, x)
           /\ signed' = [signed EXCEPT ![n] = @ \cup {b}]
           /\ net' = net \cup Broadcast(n, {AttestFrame(n, b), BlockFrame(b)})
  <2>1. PICK x \in SignAndEmit(n, z, b, Clock(n)) : Settle(n, x)
    BY <1>9
  <2>2. /\ LocalInv(x) /\ x.head = z.head /\ x.cur = b /\ x.lastSigned = b.height
        /\ x.atts \subseteq z.atts \cup {AttestFrame(n, b)}
    BY <1>6, <1>7, <1>8, SignLocal
  <2>3. Ready(n, x, {b})
    BY <1>1, <1>8, <2>2 DEF Ready, Kept, Sourced, AttestFrame
  <2>4. PICK y : Settled(n, y, {b}) /\ y.lastSigned = x.lastSigned
    BY <1>6, <2>1, <2>3, SettleStep
  <2>5. Signable(n, y, b)
    BY <1>1, <1>3, <1>7, <2>2, <2>4 DEF Signable, LocalInv
  <2>6. Sends(n, {b})
    BY <1>7, <1>9, FramesSent DEF Sends
  <2> QED
    BY <1>5, <1>9, <2>4, <2>5, <2>6, Zenon DEF NodeStep
<1>10. CASE Settle(n, z) /\ UNCHANGED <<signed, net>>
  <2>1. Ready(n, z, {})
    BY <1>1, <1>3, <1>8 DEF Ready, Kept, Sourced
  <2>2. PICK y : Settled(n, y, {}) /\ y.lastSigned = z.lastSigned
    BY <1>6, <1>10, <2>1, SettleStep
  <2>3. signed' = [signed EXCEPT ![n] = @ \cup {}] /\ Sends(n, {})
    BY <1>6, <1>10 DEF Sends, Types
  <2> QED
    BY <1>1, <1>5, <1>8, <2>2, <2>3, Zenon DEF NodeStep
<1> QED
  BY <1>4, <1>9, <1>10, Zenon DEF z

\* A step that only drops entries, keeps the head and sends nothing.
LEMMA QuietStep ==
  ASSUME IInv, NEW n \in Node, NEW y, LocalInv(y),
         rt' = [rt EXCEPT ![n] = y],
         y.head = rt[n].head, y.lastSigned = rt[n].lastSigned,
         y.props \subseteq rt[n].props, y.atts \subseteq rt[n].atts,
         y.cur # None => y.cur = rt[n].cur,
         signed' = signed, Sends(n, {}), UNCHANGED <<now, view, restarted>>
  PROVE  NodeStep(n, y, {})
<1>1. Finals(y) \subseteq Finals(rt[n]) /\ Finals(rt[n]) = {}
  BY FinalsShrink DEF IInv, LocalInvs, NoPendingFinality
<1>2. signed' = [signed EXCEPT ![n] = @ \cup {}]
  BY DEF IInv, Types
<1>3. Settled(n, y, {})
  BY <1>1 DEF Settled, Kept, Sourced
<1> QED
  BY <1>2, <1>3, Zenon DEF NodeStep

\* rt_tick taking a proposal slot and clearing it again for want of a view.
LEMMA TickAbstainStep ==
  ASSUME IInv, NEW n \in Node, TickAbstain(n)
  PROVE  \E y, new : NodeStep(n, y, new)
<1> DEFINE s == Skipped(n)
<1>1. /\ LocalInv(s) /\ s.head = rt[n].head /\ s.lastSigned = rt[n].lastSigned
      /\ s.props \subseteq rt[n].props /\ s.atts \subseteq rt[n].atts
  BY SkippedLocal DEF IInv
<1>2. /\ s.cur = None
      /\ \E ps \in PropAlloc(s) : rt' = [rt EXCEPT ![n] = [s EXCEPT !.props = ps]]
      /\ UNCHANGED <<now, view, net, signed, restarted>>
  BY Zenon DEF TickAbstain, ProposalDue
<1> HIDE DEF s
<1>3. PICK ps \in PropAlloc(s) : rt' = [rt EXCEPT ![n] = [s EXCEPT !.props = ps]]
  BY <1>2, Zenon
<1> DEFINE y == [s EXCEPT !.props = ps]
<1>4. ps \subseteq s.props /\ IsFiniteSet(ps) /\ Cardinality(ps) <= MaxProps
  BY <1>1, PropAllocFits, TimesAssumption
<1>5. /\ y \in RtState /\ y.props = ps /\ y.head = s.head /\ y.h = s.h /\ y.cur = None
      /\ y.lastSigned = s.lastSigned /\ y.atts = s.atts
  BY <1>1, <1>2, <1>4 DEF LocalInv, RtState
<1>6. rt' = [rt EXCEPT ![n] = y]
  BY <1>3
<1> HIDE DEF y
<1>7. LocalInv(y)
  BY <1>1, <1>4, <1>5 DEF LocalInv
<1>8. Sends(n, {})
  BY <1>2 DEF Sends
<1>9. NodeStep(n, y, {})
  BY <1>1, <1>2, <1>4, <1>5, <1>6, <1>7, <1>8, QuietStep, Zenon
<1> QED
  BY <1>9

\* rt_tick giving up a timed-out attempt.
LEMMA TickSkipStep ==
  ASSUME IInv, NEW n \in Node, TickSkip(n)
  PROVE  \E y, new : NodeStep(n, y, new)
<1> DEFINE s == Skipped(n)
<1>1. /\ LocalInv(s) /\ s.head = rt[n].head /\ s.lastSigned = rt[n].lastSigned
      /\ s.props \subseteq rt[n].props /\ s.atts \subseteq rt[n].atts
      /\ s.cur # None => s = rt[n]
  BY SkippedLocal DEF IInv
<1>2. /\ rt' = [rt EXCEPT ![n] = s]
      /\ UNCHANGED <<now, view, net, signed, restarted>>
  BY DEF TickSkip
<1> HIDE DEF s
<1>3. Sends(n, {})
  BY <1>2 DEF Sends
<1>4. NodeStep(n, s, {})
  BY <1>1, <1>2, <1>3, QuietStep, Zenon
<1> QED
  BY <1>4

\* The block a node re-broadcasts is signed by it, so is its attestation.
LEMMA TickRebroadcastStep ==
  ASSUME IInv, NEW n \in Node, TickRebroadcast(n)
  PROVE  \E y, new : NodeStep(n, y, new)
<1> DEFINE s == Skipped(n)
           frames == {BlockFrame(s.cur)} \cup
             {AttestFrame(n, s.cur) : a \in {a \in s.atts : a.hash = s.cur /\ a.signer = n}}
<1>1. /\ LocalInv(s) /\ s.head = rt[n].head /\ s.lastSigned = rt[n].lastSigned
      /\ s.props \subseteq rt[n].props /\ s.atts \subseteq rt[n].atts
      /\ s.cur # None => s = rt[n]
  BY SkippedLocal DEF IInv
<1>2. /\ s.cur # None
      /\ rt' = [rt EXCEPT ![n] = [s EXCEPT !.lastEmit = Clock(n)]]
      /\ net' = net \cup Broadcast(n, frames)
      /\ UNCHANGED <<now, view, signed, restarted>>
  BY DEF TickRebroadcast
<1>3. Clock(n) \in Nat
  BY ClockType DEF IInv
<1> HIDE DEF s
<1>4. s.cur \in Block /\ s.cur \in signed[n]
  BY <1>1, <1>2 DEF IInv, CurSigned, LocalInv, RtState
<1> DEFINE y == [s EXCEPT !.lastEmit = Clock(n)]
<1>5. /\ y \in RtState /\ y.props = s.props /\ y.head = s.head /\ y.h = s.h /\ y.cur = s.cur
      /\ y.lastSigned = s.lastSigned /\ y.atts = s.atts
  BY <1>1, <1>3 DEF LocalInv, RtState
<1>6. rt' = [rt EXCEPT ![n] = y]
  BY <1>2
<1>7. Sends(n, {})
  <2> SUFFICES ASSUME NEW x \in net', x \notin net
               PROVE  /\ x \in [to : Node, frame : Frame]
                      /\ x.frame.type = "ATTEST" =>
                           x.frame.signer = n /\ x.frame.hash \in signed[n] \cup {}
    BY DEF Sends
  <2>1. x \in Broadcast(n, frames)
    BY <1>2
  <2>2. frames \subseteq {AttestFrame(n, s.cur), BlockFrame(s.cur)}
    OBVIOUS
  <2>3. x \in Broadcast(n, {AttestFrame(n, s.cur), BlockFrame(s.cur)})
    BY <2>1, <2>2 DEF Broadcast
  <2> QED
    BY <1>4, <2>3, FramesSent
<1> HIDE DEF y
<1>8. LocalInv(y)
  BY <1>1, <1>5 DEF LocalInv
<1>9. NodeStep(n, y, {})
  BY <1>1, <1>2, <1>5, <1>6, <1>7, <1>8, QuietStep, Zenon
<1> QED
  BY <1>9

\* A handler that consumes a frame and leaves the runtime alone.
LEMMA IgnoreStep ==
  ASSUME IInv, NEW n \in Node, NEW f, net' = Consumed(n, f),
         UNCHANGED <<rt, signed, now, view, restarted>>
  PROVE  \E y, new : NodeStep(n, y, new)
<1>1. LocalInv(rt[n]) /\ rt' = [rt EXCEPT ![n] = rt[n]]
  BY DEF IInv, LocalInvs, Types
<1>2. Sends(n, {})
  BY DEF Sends, Consumed
<1>3. NodeStep(n, rt[n], {})
  BY <1>1, <1>2, QuietStep, Zenon
<1> QED
  BY <1>3

\* on_proposal filing a block, and signing it when nothing forbids it.
LEMMA OnProposalStep ==
  ASSUME IInv, NEW n \in Node, NEW b \in Block, OnProposal(n, b)
  PROVE  \E y, new : NodeStep(n, y, new)
<1> DEFINE s == rt[n]
           f == BlockFrame(b)
<1>1. UNCHANGED <<now, view, restarted>>
  BY DEF OnProposal
<1>2. LocalInv(s) /\ Types /\ Clock(n) \in Nat
  BY ClockType DEF IInv, LocalInvs
<1>3. CASE ~Fileable(s, b)
  <2>1. net' = Consumed(n, f) /\ UNCHANGED <<rt, signed>>
    BY <1>3 DEF OnProposal
  <2> QED
    BY <1>1, <2>1, IgnoreStep
<1>4. CASE Fileable(s, b)
  <2>1. PICK ps \in (IF b \in s.props THEN {s.props} ELSE PropAlloc(s)) :
          \/ /\ MaySign(n, s, b)
             /\ \E x \in SignAndEmit(n, [s EXCEPT !.props = ps \cup {b}], b, Clock(n)) : Settle(n, x)
             /\ signed' = [signed EXCEPT ![n] = @ \cup {b}]
             /\ net' = Consumed(n, f) \cup Broadcast(n, {AttestFrame(n, b)})
          \/ /\ Settle(n, [s EXCEPT !.props = ps \cup {b}])
             /\ net' = Consumed(n, f) /\ UNCHANGED signed
    BY <1>4, Zenon DEF OnProposal
  <2> DEFINE z == [s EXCEPT !.props = ps \cup {b}]
  <2>2. (b \in s.props /\ ps = s.props) \/ ps \in PropAlloc(s)
    BY <2>1
  <2>3. /\ LocalInv(z) /\ b \in z.props /\ z.head = s.head /\ z.h = s.h /\ z.cur = s.cur
        /\ z.lastSigned = s.lastSigned /\ z.atts = s.atts
    BY <1>2, <2>2, FileLocal
  <2> HIDE DEF z
  <2>4. CASE /\ MaySign(n, s, b)
             /\ \E x \in SignAndEmit(n, z, b, Clock(n)) : Settle(n, x)
             /\ signed' = [signed EXCEPT ![n] = @ \cup {b}]
             /\ net' = Consumed(n, f) \cup Broadcast(n, {AttestFrame(n, b)})
    <3>1. /\ b.height = s.h /\ b.prev = s.head /\ s.lastSigned < s.h
          /\ b.cutoff >= s.head.cutoff + BlockTime
      BY <2>4 DEF MaySign, CutoffDue
    <3>2. PICK x \in SignAndEmit(n, z, b, Clock(n)) : Settle(n, x)
      BY <2>4
    <3>3. /\ LocalInv(x) /\ x.head = z.head /\ x.cur = b /\ x.lastSigned = b.height
          /\ x.atts \subseteq z.atts \cup {AttestFrame(n, b)}
      BY <1>2, <2>3, <3>1, SignLocal
    <3>4. Ready(n, x, {b})
      BY <2>3, <3>3 DEF Ready, Kept, Sourced, AttestFrame
    <3>5. PICK y : Settled(n, y, {b}) /\ y.lastSigned = x.lastSigned
      BY <1>2, <3>2, <3>4, SettleStep, SMTT(20)
    <3>6. Signable(n, y, b)
      BY <1>2, <3>1, <3>3, <3>5, SMTT(20) DEF Signable, LocalInv
    <3>7. Sends(n, {b})
      <4> SUFFICES ASSUME NEW g \in net', g \notin net
                   PROVE  /\ g \in [to : Node, frame : Frame]
                          /\ g.frame.type = "ATTEST" =>
                               g.frame.signer = n /\ g.frame.hash \in signed[n] \cup {b}
        BY DEF Sends
      <4>1. g \in Broadcast(n, {AttestFrame(n, b), BlockFrame(b)})
        BY <2>4, SMTT(20) DEF Consumed, Broadcast
      <4> QED
        BY <4>1, FramesSent
    <3>8. NodeStep(n, y, {b})
      BY <1>1, <2>4, <3>5, <3>6, <3>7 DEF NodeStep
    <3> QED
      BY <3>8
  <2>5. CASE Settle(n, z) /\ net' = Consumed(n, f) /\ UNCHANGED signed
    <3>1. Ready(n, z, {})
      BY <2>3 DEF Ready, Kept, Sourced
    <3>2. PICK y : Settled(n, y, {}) /\ y.lastSigned = z.lastSigned
      BY <1>2, <2>5, <3>1, SettleStep, SMTT(20)
    <3>3. signed' = [signed EXCEPT ![n] = @ \cup {}] /\ Sends(n, {})
      BY <1>2, <2>5 DEF Sends, Types, Consumed
    <3>4. NodeStep(n, y, {})
      BY <1>1, <2>3, <3>2, <3>3 DEF NodeStep
    <3> QED
      BY <3>4
  <2> QED
    BY <2>1, <2>4, <2>5, Zenon DEF z
<1> QED
  BY <1>3, <1>4

\* on_attestation filing an attestation.
LEMMA OnAttestationStep ==
  ASSUME IInv, NEW n \in Node, NEW a \in Attestation, OnAttestation(n, a)
  PROVE  \E y, new : NodeStep(n, y, new)
<1>1. /\ UNCHANGED <<now, view, signed, restarted>>
      /\ net' = Consumed(n, a) /\ [to |-> n, frame |-> a] \in net
  BY DEF OnAttestation, InFlight
<1>2. LocalInv(rt[n]) /\ Types
  BY DEF IInv, LocalInvs
<1>3. CASE UNCHANGED rt
  BY <1>1, <1>3, IgnoreStep
<1>4. CASE \E A \in AttFile(rt[n].atts, a) : Settle(n, [rt[n] EXCEPT !.atts = A])
  <2>1. PICK A \in AttFile(rt[n].atts, a) : Settle(n, [rt[n] EXCEPT !.atts = A])
    BY <1>4
  <2> DEFINE z == [rt[n] EXCEPT !.atts = A]
  <2> HIDE DEF z
  <2>2. /\ LocalInv(z) /\ z.head = rt[n].head /\ z.cur = rt[n].cur
        /\ z.lastSigned = rt[n].lastSigned /\ z.atts \subseteq rt[n].atts \cup {a}
    <3>1. z = WithAtts(rt[n], A)
      BY DEF z, WithAtts
    <3> QED
      BY <1>2, <3>1, FileAttLocal
  <2>3. Ready(n, z, {})
    BY <1>1, <2>2 DEF Ready, Kept, Sourced
  <2>4. Settle(n, z)
    BY <2>1 DEF z
  <2>5. PICK y : Settled(n, y, {}) /\ y.lastSigned = z.lastSigned
    BY <1>2, <2>3, <2>4, SettleStep, SMTT(20)
  <2>6. signed' = [signed EXCEPT ![n] = @ \cup {}] /\ Sends(n, {})
    BY <1>1, <1>2 DEF Sends, Types, Consumed
  <2>7. NodeStep(n, y, {})
    BY <1>1, <2>2, <2>5, <2>6, Zenon DEF NodeStep
  <2> QED
    BY <2>7
<1> QED
  BY <1>3, <1>4 DEF OnAttestation
=============================================================================
