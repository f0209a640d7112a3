-------------------------- MODULE ChainRuntimeProofs --------------------------
(***************************************************************************)
(* The safety properties of ChainRuntime, for every number of nodes, every *)
(* committee draw, every bound and every pattern of loss, duplication,     *)
(* reordering, failing signatures and restarts the module allows.          *)
(***************************************************************************)
EXTENDS ChainRuntimeSteps

-----------------------------------------------------------------------------
(* A step of that shape preserves the invariant.                            *)

\* The signatures after a step.
LEMMA NodeStepSigned ==
  ASSUME IInv, NEW n \in Node, NEW y, NEW new, NodeStep(n, y, new)
  PROVE  /\ new \subseteq Block
         /\ signed' \in [Node -> SUBSET Block]
         /\ \A m \in Node : signed'[m] = IF m = n THEN signed[n] \cup new ELSE signed[m]
         /\ \A m \in Node : rt'[m] = IF m = n THEN y ELSE rt[m]
         /\ \A m \in Node : signed[m] \subseteq signed'[m]
         /\ \A a \in Attestation : Sourced(n, new, a) => a.hash \in signed'[a.signer]
<1>1. new \subseteq Block
  BY DEF NodeStep, Signable
<1>2. signed \in [Node -> SUBSET Block] /\ rt \in [Node -> RtState]
  BY DEF IInv, Types
<1>3. /\ \A m \in Node : signed'[m] = IF m = n THEN signed[n] \cup new ELSE signed[m]
      /\ \A m \in Node : rt'[m] = IF m = n THEN y ELSE rt[m]
      /\ signed' \in [Node -> SUBSET Block]
  BY <1>1, <1>2 DEF NodeStep, Settled
<1>4. \A m \in Node : signed[m] \subseteq signed'[m]
  BY <1>3
<1>5. ASSUME NEW a \in Attestation, Sourced(n, new, a)
      PROVE  a.hash \in signed'[a.signer]
  <2>1. a.signer \in Node /\ a.type = "ATTEST"
    BY DEF Attestation
  <2>2. CASE a \in rt[n].atts
    BY <1>4, <2>1, <2>2 DEF IInv, AttsGenuine
  <2>3. CASE [to |-> n, frame |-> a] \in net
    BY <1>4, <2>1, <2>3 DEF IInv, NetGenuine
  <2>4. CASE a.signer = n /\ a.hash \in new
    BY <1>3, <2>4
  <2> QED
    BY <1>5, <2>2, <2>3, <2>4 DEF Sourced
<1> QED
  BY <1>1, <1>3, <1>4, <1>5

\* Whatever handler ran, a step of that shape preserves the invariant.
LEMMA NodeStepInv ==
  ASSUME IInv, NEW n \in Node, NEW y, NEW new, NodeStep(n, y, new)
  PROVE  IInv'
<1>1. /\ new \subseteq Block
      /\ signed' \in [Node -> SUBSET Block]
      /\ \A m \in Node : signed'[m] = IF m = n THEN signed[n] \cup new ELSE signed[m]
      /\ \A m \in Node : rt'[m] = IF m = n THEN y ELSE rt[m]
      /\ \A m \in Node : signed[m] \subseteq signed'[m]
      /\ \A a \in Attestation : Sourced(n, new, a) => a.hash \in signed'[a.signer]
  BY NodeStepSigned, Zenon
<1>2. /\ LocalInv(y) /\ Finals(y) = {} /\ UNCHANGED <<now, view, restarted>>
      /\ y.cur # None => y.cur = rt[n].cur \/ y.cur \in new
      /\ \A a \in y.atts : Sourced(n, new, a)
      /\ y.head = rt[n].head \/ Adopts(n, y, new)
  BY DEF NodeStep, Settled, Kept
<1>3. Types'
  <2>1. rt' \in [Node -> RtState]
    BY <1>2 DEF NodeStep, Settled, IInv, Types, LocalInv
  <2>2. net' \subseteq [to : Node, frame : Frame]
    BY DEF NodeStep, Sends, IInv, Types
  <2> QED
    BY <1>1, <1>2, <2>1, <2>2 DEF IInv, Types
<1>4. LocalInvs'
  BY <1>1, <1>2 DEF IInv, LocalInvs
<1>5. CurSigned'
  BY <1>1, <1>2 DEF IInv, CurSigned
<1>6. AttsGenuine'
  <2> SUFFICES ASSUME NEW m \in Node, NEW a \in rt'[m].atts PROVE a.hash \in signed'[a.signer]
    BY DEF AttsGenuine
  <2>1. CASE m = n
    <3>1. a \in Attestation /\ Sourced(n, new, a)
      BY <1>1, <1>2, <2>1 DEF LocalInv, RtState
    <3> QED
      BY <1>1, <3>1
  <2>2. CASE m # n
    <3>1. a \in rt[m].atts /\ a \in Attestation
      BY <1>1, <2>2 DEF IInv, LocalInvs, LocalInv, RtState
    <3>2. a.signer \in Node
      BY <3>1 DEF Attestation
    <3> QED
      BY <1>1, <3>1, <3>2 DEF IInv, AttsGenuine
  <2> QED
    BY <2>1, <2>2
<1>7. NetGenuine'
  <2> SUFFICES ASSUME NEW x \in net', x.frame.type = "ATTEST"
               PROVE  x.frame.hash \in signed'[x.frame.signer]
    BY DEF NetGenuine
  <2>1. CASE x \in net
    <3>1. x.frame \in Frame
      BY <2>1 DEF IInv, Types
    <3>2. x.frame.signer \in Node
      BY <3>1 DEF Frame, Attestation
    <3> QED
      BY <1>1, <2>1, <3>2 DEF IInv, NetGenuine
  <2>2. CASE x \notin net
    BY <1>1, <2>2 DEF NodeStep, Sends
  <2> QED
    BY <2>1, <2>2
<1>8. HeadsCertified'
  <2> SUFFICES ASSUME NEW m \in Node, rt'[m].head # Genesis
               PROVE  Certifies(signed', rt'[m].head)
    BY DEF HeadsCertified, Certified
  <2>1. CASE rt'[m].head = rt[m].head
    <3>1. rt[m].head \in Block /\ Certifies(signed, rt[m].head)
      BY <2>1 DEF IInv, HeadsCertified, Certified, Types, RtState, Head
    <3> QED
      BY <1>1, <2>1, <3>1, CertificatesStay
  <2>2. CASE m = n /\ Adopts(n, y, new)
    <3>1. PICK A : /\ \A a \in A : a \in Attestation /\ Sourced(n, new, a)
                   /\ Cardinality(Signers(A, y.head))
                        >= Threshold(Cardinality(Draw(y.head.prev, y.head.height)))
      BY <2>2 DEF Adopts
    <3>2. y.head \in Block
      BY <2>2 DEF Adopts
    <3>3. Certifies(signed', y.head)
      BY <1>1, <3>1, <3>2, GenuineQuorum
    <3> QED
      BY <1>1, <2>2, <3>3
  <2> QED
    BY <1>1, <1>2, <2>1, <2>2
<1>9. SignedGrounded'
  <2> SUFFICES ASSUME NEW m \in Node, NEW b \in signed'[m]
               PROVE  /\ b.prev = Genesis \/ Certifies(signed', b.prev)
                      /\ b.height > b.prev.height /\ b.cutoff >= b.prev.cutoff + BlockTime
    BY DEF SignedGrounded, Grounded, Certified
  <2>1. /\ b.prev = Genesis \/ Certifies(signed, b.prev)
        /\ b.height > b.prev.height /\ b.cutoff >= b.prev.cutoff + BlockTime
    <3>1. CASE b \in signed[m]
      BY <3>1 DEF IInv, SignedGrounded, Grounded, Certified
    <3>2. CASE b \in new
      BY <3>2 DEF NodeStep, Signable, IInv, HeadsCertified, Certified
    <3> QED
      BY <1>1, <3>1, <3>2
  <2>2. b.prev \in Head
    BY <1>1, BlockAssumption
  <2> QED
    BY <1>1, <2>1, <2>2, CertificatesStay DEF Head
<1>10. SignedBelow' /\ SignOncePerHeight'
  <2>1. \A b \in signed[n] : b.height \in Nat
    BY BlockAssumption DEF IInv, Types
  <2>2. CASE new = {} /\ y.lastSigned = rt[n].lastSigned
    BY <1>1, <1>2, <2>2 DEF IInv, SignedBelow, SignOncePerHeight
  <2>3. CASE \E b : new = {b} /\ Signable(n, y, b)
    <3>1. PICK b : new = {b} /\ Signable(n, y, b)
      BY <2>3
    <3>2. b.height > rt[n].lastSigned /\ y.lastSigned = b.height /\ b.height \in Nat
      BY <3>1, BlockAssumption DEF Signable
    <3>3. rt[n].lastSigned \in Nat
      BY DEF IInv, Types, RtState
    <3>4. n \notin restarted => \A c \in signed[n] : c.height < b.height
      BY <2>1, <3>2, <3>3 DEF IInv, SignedBelow
    <3>5. SignedBelow'
      BY <1>1, <1>2, <2>1, <3>1, <3>2, <3>4 DEF IInv, SignedBelow
    <3>6. ASSUME NEW m \in Node \ restarted, NEW c \in signed'[m], NEW d \in signed'[m],
                 c.height = d.height
          PROVE  c = d
      <4>1. CASE c \in signed[m] /\ d \in signed[m]
        BY <3>6, <4>1 DEF IInv, SignOncePerHeight
      <4>2. CASE m = n /\ (c = b \/ d = b)
        BY <1>1, <2>1, <3>1, <3>2, <3>4, <3>6, <4>2, SMTT(20)
      <4> QED
        BY <1>1, <3>1, <4>1, <4>2
    <3> QED
      BY <1>2, <3>5, <3>6 DEF SignOncePerHeight
  <2> QED
    BY <2>2, <2>3 DEF NodeStep
<1>11. NoPendingFinality'
  BY <1>1, <1>2 DEF IInv, NoPendingFinality
<1> QED
  BY <1>2, <1>3, <1>4, <1>5, <1>6, <1>7, <1>8, <1>9, <1>10, <1>11 DEF IInv

-----------------------------------------------------------------------------
(* Every step preserves the invariant.                                      *)

\* rt_init leaves a well formed state with nothing to finalise.
LEMMA RtInitLocal ==
  ASSUME NEW t \in Nat
  PROVE  LocalInv(RtInit(t)) /\ Finals(RtInit(t)) = {}
<1> DEFINE s == RtInit(t)
<1>1. /\ s \in RtState /\ s.props = {} /\ s.atts = {} /\ s.h = 1 /\ s.head = Genesis /\ s.cur = None
  BY DEF RtInit, RtState, Head
<1>2. IsFiniteSet({}) /\ Cardinality({}) = 0 /\ Genesis.height = 0
  BY FS_EmptySet DEF Genesis
<1> HIDE DEF s
<1>3. LocalInv(s)
  BY <1>1, <1>2, TimesAssumption DEF LocalInv
<1>4. Finals(s) = {}
  BY <1>1 DEF Finals
<1> QED
  BY <1>3, <1>4 DEF s

\* The invariant holds initially.
LEMMA InitInv == Init => IInv
<1> SUFFICES ASSUME Init PROVE IInv
  OBVIOUS
<1>1. \A n \in Node : Clock(n) \in Nat
  BY NodesAssumption DEF Init, Clock
<1>2. \A n \in Node : LocalInv(rt[n]) /\ Finals(rt[n]) = {}
  BY <1>1, RtInitLocal DEF Init
<1>3. \A n \in Node : /\ rt[n].head = Genesis /\ rt[n].cur = None /\ rt[n].atts = {}
                      /\ signed[n] = {}
  BY DEF Init, RtInit
<1>4. Types
  <2>1. rt \in [Node -> RtState]
    BY <1>2 DEF Init, LocalInv
  <2> QED
    BY <2>1, TimesAssumption DEF Init, Types
<1>5. LocalInvs /\ NoPendingFinality
  BY <1>2 DEF LocalInvs, NoPendingFinality
<1>6. CurSigned /\ AttsGenuine /\ HeadsCertified
  BY <1>3 DEF CurSigned, AttsGenuine, HeadsCertified
<1>7. NetGenuine
  BY DEF Init, NetGenuine
<1>8. SignedGrounded /\ SignedBelow /\ SignOncePerHeight
  BY <1>3 DEF SignedGrounded, SignedBelow, SignOncePerHeight
<1> QED
  BY <1>4, <1>5, <1>6, <1>7, <1>8 DEF IInv, Init

\* A handler run by a node has the shape of NodeStep.
LEMMA TickStep ==
  ASSUME IInv, NEW n \in Node, Tick(n)
  PROVE  \E y, new : NodeStep(n, y, new)
BY TickProposeStep, TickAbstainStep, TickRebroadcastStep, TickSkipStep DEF Tick

\* Delivering a frame is a step of that shape.
LEMMA DeliverStep ==
  ASSUME IInv, NEW n \in Node, Deliver(n)
  PROVE  \E y, new : NodeStep(n, y, new)
<1>1. PICK x \in net : /\ x.to = n
                       /\ \/ x.frame.type = "BLOCK" /\ OnProposal(n, x.frame.block)
                          \/ x.frame.type = "ATTEST" /\ OnAttestation(n, x.frame)
  BY DEF Deliver
<1>2. x.frame \in Frame
  BY DEF IInv, Types
<1>3. CASE x.frame.type = "BLOCK" /\ OnProposal(n, x.frame.block)
  <2>1. x.frame.block \in Block
    BY <1>2, <1>3 DEF Frame, Attestation
  <2> QED
    BY <1>3, <2>1, OnProposalStep
<1>4. CASE x.frame.type = "ATTEST" /\ OnAttestation(n, x.frame)
  <2>1. x.frame \in Attestation
    BY <1>2, <1>4 DEF Frame, Attestation
  <2> QED
    BY <1>4, <2>1, OnAttestationStep
<1> QED
  BY <1>1, <1>3, <1>4

\* The environment signs nothing; a restart forgets last_signed_height and is
\* remembered in `restarted`.
LEMMA EnvironmentInv ==
  ASSUME IInv,
         \/ AdvanceTime \/ UNCHANGED vars
         \/ \E n \in Online : LearnProof(n) \/ Restart(n)
  PROVE  IInv' /\ signed' = signed
<1> USE DEF IInv
<1>1. CASE UNCHANGED <<rt, net, signed, restarted>> /\ Types'
  <2>1. Types' /\ LocalInvs' /\ CurSigned' /\ AttsGenuine' /\ NetGenuine'
    BY <1>1 DEF LocalInvs, CurSigned, AttsGenuine, NetGenuine
  <2>2. HeadsCertified' /\ SignedGrounded' /\ SignedBelow' /\ SignOncePerHeight'
    BY <1>1 DEF HeadsCertified, SignedGrounded, SignedBelow, SignOncePerHeight, Grounded, Certified
  <2> QED
    BY <1>1, <2>1, <2>2 DEF NoPendingFinality
<1>2. CASE AdvanceTime
  <2>1. Types' /\ UNCHANGED <<rt, net, signed, restarted>>
    BY <1>2, TimesAssumption DEF AdvanceTime, Types
  <2> QED
    BY <1>1, <2>1
<1>3. CASE UNCHANGED vars
  <2>1. Types' /\ UNCHANGED <<rt, net, signed, restarted>>
    BY <1>3 DEF vars, Types
  <2> QED
    BY <1>1, <2>1
<1>4. CASE \E n \in Online : LearnProof(n)
  <2>1. PICK n \in Node : LearnProof(n)
    BY <1>4, NodesAssumption
  <2>2. Types' /\ UNCHANGED <<rt, net, signed, restarted>>
    BY <2>1 DEF LearnProof, Types
  <2> QED
    BY <1>1, <2>2
<1>5. CASE \E n \in Online : Restart(n)
  <2>1. PICK n \in Node : Restart(n) /\ n \in Restartable
    BY <1>5, NodesAssumption, Zenon DEF Restart
  <2> DEFINE s == RtInit(Clock(n))
  <2>2. LocalInv(s) /\ Finals(s) = {} /\ s.head = Genesis /\ s.cur = None /\ s.atts = {}
    BY ClockType, RtInitLocal DEF RtInit
  <2>3. /\ rt' = [rt EXCEPT ![n] = s] /\ restarted' = restarted \cup {n}
        /\ UNCHANGED <<now, view, net, signed>>
    BY <2>1 DEF Restart
  <2> HIDE DEF s
  <2>4. \A m \in Node : rt'[m] = IF m = n THEN s ELSE rt[m]
    BY <2>3 DEF Types
  <2>5. Types'
    BY <2>1, <2>2, <2>3, SMTT(20) DEF Types, LocalInv
  <2>6. LocalInvs' /\ CurSigned' /\ AttsGenuine' /\ NetGenuine'
    <3>1. LocalInvs' /\ CurSigned'
      BY <2>2, <2>3, <2>4 DEF LocalInvs, CurSigned
    <3>2. AttsGenuine' /\ NetGenuine'
      BY <2>2, <2>3, <2>4, SMTT(20) DEF AttsGenuine, NetGenuine
    <3> QED
      BY <3>1, <3>2
  <2>7. HeadsCertified' /\ SignedGrounded'
    BY <2>2, <2>3, <2>4, SMTT(20) DEF HeadsCertified, SignedGrounded, Grounded, Certified
  <2>8. SignedBelow' /\ SignOncePerHeight' /\ NoPendingFinality'
    BY <2>2, <2>3, <2>4 DEF SignedBelow, SignOncePerHeight, NoPendingFinality
  <2> QED
    BY <2>1, <2>3, <2>5, <2>6, <2>7, <2>8
<1> QED
  BY <1>2, <1>3, <1>4, <1>5

\* Every step is a step of one node, of the shape above, or the environment's.
LEMMA NextStep ==
  ASSUME IInv, [Next]_vars
  PROVE  \/ \E n \in Node : \E y, new : NodeStep(n, y, new)
         \/ IInv' /\ signed' = signed
<1>1. Online \subseteq Node
  BY NodesAssumption
<1>2. CASE \E n \in Online : Tick(n) \/ Deliver(n)
  BY <1>1, <1>2, TickStep, DeliverStep
<1>3. CASE \/ AdvanceTime \/ UNCHANGED vars
           \/ \E n \in Online : LearnProof(n) \/ Restart(n)
  BY <1>3, EnvironmentInv
<1> QED
  BY <1>2, <1>3 DEF Next

\* Every step preserves the invariant.
LEMMA NextInv == IInv /\ [Next]_vars => IInv'
BY NextStep, NodeStepInv

\* The inductive invariant holds of every behaviour.
THEOREM Invariance == Spec => []IInv
<1>1. Init => IInv
  BY InitInv
<1>2. IInv /\ [Next]_vars => IInv'
  BY NextInv
<1> QED
  BY <1>1, <1>2, PTL DEF Spec

-----------------------------------------------------------------------------
(* What follows from it.                                                    *)

\* The types, and the tables of struct rt_state never overrun.
THEOREM TypeCorrect == Spec => []TypeOK
<1>1. IInv => TypeOK
  BY DEF IInv, Types, TypeOK, LocalInvs, LocalInv
<1> QED
  BY <1>1, Invariance, PTL

\* No member that kept its guard signs twice at a height.
THEOREM SignsOncePerHeight == Spec => []SignOncePerHeight
<1>1. IInv => SignOncePerHeight
  BY DEF IInv
<1> QED
  BY <1>1, Invariance, PTL

\* Every head of every node is backed by a quorum of real signatures.
THEOREM HeadsAreCertified == Spec => []HeadsCertified
<1>1. IInv => HeadsCertified
  BY DEF IInv
<1> QED
  BY <1>1, Invariance, PTL

\* No handler leaves a final proposal unadopted.
THEOREM FinalityIsTaken == Spec => []NoPendingFinality
<1>1. IInv => NoPendingFinality
  BY DEF IInv
<1> QED
  BY <1>1, Invariance, PTL

\* The re-broadcast slot always holds the block signed in this attempt.
THEOREM CurIsAlwaysOurs == Spec => []CurIsOurs
<1>1. IInv => CurIsOurs
  BY DEF IInv, LocalInvs, LocalInv, CurSigned, CurIsOurs
<1> QED
  BY <1>1, Invariance, PTL

\* A certificate names at least one signer.
LEMMA CertifiedIsSigned ==
  ASSUME NEW S, NEW b \in Block, Certifies(S, b)
  PROVE  \E m \in Node : b \in S[m]
<1>1. /\ IsFiniteSet(Draw(b.prev, b.height)) /\ Draw(b.prev, b.height) \subseteq Node
      /\ Threshold(Cardinality(Draw(b.prev, b.height))) \in Nat
      /\ Threshold(Cardinality(Draw(b.prev, b.height))) >= 1
  BY CommitteeFinite, ThresholdBounds
<1>2. Voters(S, b) # {}
  <2> SUFFICES ASSUME Voters(S, b) = {} PROVE FALSE
    OBVIOUS
  <2>1. Cardinality(Voters(S, b)) = 0
    BY FS_EmptySet
  <2> QED
    BY <1>1, <2>1 DEF Certifies
<1> QED
  BY <1>1, <1>2 DEF Voters

\* Finality has no gap, and block times are kept along it.
THEOREM AncestryHolds == Spec => []CertifiedAncestry
<1>1. IInv => CertifiedAncestry
  <2> SUFFICES ASSUME IInv, NEW b \in CertifiedBlocks
               PROVE  /\ b.prev = Genesis \/ b.prev \in CertifiedBlocks
                      /\ b.height > b.prev.height
                      /\ b.cutoff >= b.prev.cutoff + BlockTime
    BY DEF CertifiedAncestry
  <2>1. PICK n \in Node : b \in signed[n]
    BY DEF CertifiedBlocks
  <2>2. Grounded(b) /\ b \in Block
    BY <2>1 DEF IInv, SignedGrounded, Types
  <2>3. b.prev \in Head
    BY <2>2, BlockAssumption
  <2>4. CASE b.prev \in Block /\ Certified(b.prev)
    <3>1. b.prev \in CertifiedBlocks
      BY <2>4, CertifiedIsSigned DEF CertifiedBlocks, Certified
    <3> QED
      BY <2>2, <3>1 DEF Grounded
  <2> QED
    BY <2>2, <2>3, <2>4 DEF Grounded, Head
<1> QED
  BY <1>1, Invariance, PTL

\* Quorums of one committee meet in a member that kept its guard.
LEMMA InvAgreement == IInv => Agreement
<1> SUFFICES ASSUME IInv, NEW b \in CertifiedBlocks, NEW c \in CertifiedBlocks,
                    b.height = c.height, Sound(b),
                    Draw(b.prev, b.height) = Draw(c.prev, c.height)
             PROVE  b = c
  BY DEF Agreement
<1> DEFINE C == Draw(b.prev, b.height)
<1>1. b \in Block /\ c \in Block
  BY DEF CertifiedBlocks, IInv, Types
<1>2. IsFiniteSet(C) /\ Cardinality(C) > 0 /\ C \subseteq Node
  BY <1>1, CommitteeFinite
<1>3. /\ Cardinality(Voters(signed, b)) >= Threshold(Cardinality(C))
      /\ Cardinality(Voters(signed, c)) >= Threshold(Cardinality(C))
  BY DEF CertifiedBlocks, Certified, Certifies
<1>4. Voters(signed, b) \in SUBSET C /\ Voters(signed, c) \in SUBSET C
  BY DEF Voters
<1>5. 3 * Cardinality(C \cap restarted) < Cardinality(C)
  BY DEF Sound
<1>6. PICK m \in Voters(signed, b) \cap Voters(signed, c) : m \notin restarted
  BY <1>2, <1>3, <1>4, <1>5, QuorumsMeet, SMTT(20)
<1>7. m \in Node /\ b \in signed[m] /\ c \in signed[m]
  BY <1>2, <1>4, <1>6 DEF Voters
<1> QED
  BY <1>6, <1>7 DEF IInv, SignOncePerHeight

\* No two blocks are final at one height with one committee, while fewer than a
\* third of that committee restarted.
THEOREM AgreementHolds == Spec => []Agreement
BY InvAgreement, Invariance, PTL

\* The block signed in a step of a node lies on its head, above what it signed.
LEMMA NodeStepRises ==
  ASSUME IInv, NEW m \in Node, NEW y, NEW new, NodeStep(m, y, new),
         NEW n \in Node, NEW b \in signed'[n] \ signed[n]
  PROVE  /\ b.prev = rt[n].head /\ b.height > rt[n].lastSigned
         /\ rt'[n].lastSigned = b.height
<1>1. /\ \A k \in Node : signed'[k] = IF k = m THEN signed[m] \cup new ELSE signed[k]
      /\ \A k \in Node : rt'[k] = IF k = m THEN y ELSE rt[k]
  BY NodeStepSigned, Zenon
<1>2. n = m /\ b \in new /\ rt'[n] = y
  BY <1>1
<1> QED
  BY <1>2 DEF NodeStep, Signable

\* A node signs on its own head and above all it signed before.
THEOREM SignaturesAlwaysRise == Spec => SignaturesRise
<1>1. ASSUME IInv, [Next]_vars, NEW n \in Node, NEW b \in signed'[n] \ signed[n]
      PROVE  /\ b.prev = rt[n].head /\ b.height > rt[n].lastSigned
             /\ rt'[n].lastSigned = b.height
  BY <1>1, NextStep, NodeStepRises
<1>2. IInv /\ [Next]_vars =>
        [\A n \in Node : \A b \in signed'[n] \ signed[n] :
           /\ b.prev = rt[n].head /\ b.height > rt[n].lastSigned
           /\ rt'[n].lastSigned = b.height]_vars
  BY <1>1
<1> QED
  BY <1>2, Invariance, PTL DEF Spec, SignaturesRise
=============================================================================
