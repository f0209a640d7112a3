------------------------- MODULE ChainRefinementProofs ------------------------
(***************************************************************************)
(* ChainRuntime implements ChainFinality.                                  *)
(***************************************************************************)
EXTENDS ChainRuntimeProofs

-----------------------------------------------------------------------------
(* The runtime implements ChainFinality.                                    *)

\* With few enough restartable nodes every committee stays sound.
LEMMA FewRestarts ==
  ASSUME 3 * Cardinality(Restartable) < K, NEW b \in Block, NEW R \in SUBSET Restartable
  PROVE  3 * Cardinality(Draw(b.prev, b.height) \cap R) < Cardinality(Draw(b.prev, b.height))
<1> DEFINE C == Draw(b.prev, b.height)
<1>1. Cardinality(C) = K /\ K \in Nat
  BY CommitteeFinite, DrawAssumption
<1>2. IsFiniteSet(Node) /\ Restartable \subseteq Node
  BY NodesAssumption, FS_Interval DEF Node
<1>3. IsFiniteSet(Restartable)
  BY <1>2, FS_Subset
<1>4. IsFiniteSet(C \cap R) /\ Cardinality(C \cap R) <= Cardinality(Restartable)
  BY <1>3, FS_Subset
<1>5. Cardinality(C \cap R) \in Nat /\ Cardinality(Restartable) \in Nat
  BY <1>3, <1>4, FS_CardinalityType
<1> QED
  BY <1>1, <1>4, <1>5

\* Membership in CertifiedBlocks, before and after a step.
LEMMA CertifiedMember ==
  /\ \A c : c \in CertifiedBlocks <=> (\E m \in Node : c \in signed[m]) /\ Certifies(signed, c)
  /\ \A c : c \in CertifiedBlocks' <=> (\E m \in Node : c \in signed'[m]) /\ Certifies(signed', c)
BY DEF CertifiedBlocks, Certified

\* A signature certifies at most the block it is on.
LEMMA OneAtATime ==
  ASSUME IInv, NEW n \in Node, NEW y, NEW new, NodeStep(n, y, new), NEW c, c \notin new
  PROVE  c \in CertifiedBlocks' <=> c \in CertifiedBlocks
<1>1. \A m \in Node : signed'[m] = IF m = n THEN signed[n] \cup new ELSE signed[m]
  BY NodeStepSigned, Zenon
<1>2. \A m \in Node : c \in signed'[m] <=> c \in signed[m]
  BY <1>1
<1>3. ASSUME NEW m \in Node, c \in signed[m]
      PROVE  Certifies(signed', c) <=> Certifies(signed, c)
  <2>1. c \in Block
    BY <1>3 DEF IInv, Types
  <2>2. Draw(c.prev, c.height) \subseteq Node
    BY <2>1, CommitteeFinite
  <2>3. Voters(signed', c) = Voters(signed, c)
    BY <1>2, <2>2 DEF Voters
  <2> QED
    BY <2>3 DEF Certifies
<1> QED
  BY <1>2, <1>3, CertifiedMember

\* A newly certified block extends the tree in a free slot.
LEMMA NewlyCertified ==
  ASSUME 3 * Cardinality(Restartable) < K, IInv, IInv',
         NEW n \in Node, NEW y, NEW b, NodeStep(n, y, {b}), Signable(n, y, b),
         b \in CertifiedBlocks', b \notin CertifiedBlocks
  PROVE  Tree!Finalise(b) /\ b \in Block
<1>1. b \in Block
  BY DEF Signable
<1>2. CertifiedBlocks' = CertifiedBlocks \cup {b}
  BY OneAtATime
<1>3. Genesis \notin CertifiedBlocks /\ b # Genesis
  BY <1>1, BlockAssumption DEF CertifiedBlocks, IInv, Types
<1>4. b.prev \in CertifiedBlocks \cup {Genesis}
  <2>1. b.prev = rt[n].head /\ b.prev \in Head
    BY <1>1, BlockAssumption DEF Signable
  <2>2. CASE b.prev # Genesis
    <3>1. Certifies(signed, b.prev) /\ b.prev \in Block
      BY <2>1, <2>2 DEF IInv, HeadsCertified, Certified, Head
    <3> QED
      BY <3>1, CertifiedIsSigned, CertifiedMember
  <2> QED
    BY <2>2
<1>5. b.height > b.prev.height /\ b.cutoff >= b.prev.cutoff + BlockTime
  BY DEF Signable
<1>6. ASSUME NEW c \in CertifiedBlocks, b.prev = c.prev, b.height = c.height
      PROVE  FALSE
  <2>1. c \in CertifiedBlocks' /\ b \in CertifiedBlocks'
    BY <1>2
  <2>2. Agreement'
    BY InvAgreement, PTL
  <2>3. Sound(b)'
    <3>1. restarted' \in SUBSET Restartable
      BY DEF IInv
    <3> QED
      BY <1>1, <3>1, FewRestarts DEF Sound
  <2>4. b = c
    BY <1>6, <2>1, <2>2, <2>3 DEF Agreement
  <2> QED
    BY <1>6, <2>4
<1> QED
  BY <1>1, <1>2, <1>3, <1>4, <1>5, <1>6
     DEF Tree!Finalise, Tree!Follows, Tree!SameSlot

\* The blocks the runtime makes final form the tree that ChainFinality promises,
\* as long as fewer than a third of a committee's size may restart.
THEOREM ImplementsChainFinality ==
  ASSUME 3 * Cardinality(Restartable) < K
  PROVE  Spec => Refinement
<1> DEFINE final == CertifiedBlocks \cup {Genesis}
<1>1. Init => Tree!Init
  BY DEF Init, Tree!Init, CertifiedBlocks
<1>2. ASSUME IInv, IInv', [Next]_vars
      PROVE  [Tree!Next]_final
  <2>1. CASE signed' = signed
    BY <2>1, CertifiedMember
  <2>2. CASE \E n \in Node : \E y, new : NodeStep(n, y, new)
    <3>1. PICK n \in Node : \E y, new : NodeStep(n, y, new)
      BY <2>2
    <3>2. PICK y, new : NodeStep(n, y, new)
      BY <3>1
    <3>3. CASE new = {}
      BY <1>2, <3>2, <3>3, OneAtATime
    <3>4. CASE \E b : new = {b} /\ Signable(n, y, b)
      <4>1. PICK b : new = {b} /\ Signable(n, y, b)
        BY <3>4
      <4>2. \A c : c # b => (c \in CertifiedBlocks' <=> c \in CertifiedBlocks)
        BY <1>2, <3>2, <4>1, OneAtATime
      <4>3. CASE b \in CertifiedBlocks' /\ b \notin CertifiedBlocks
        BY <1>2, <3>2, <4>1, <4>3, NewlyCertified DEF Tree!Next
      <4>4. b \in CertifiedBlocks => b \in CertifiedBlocks'
        <5> SUFFICES ASSUME b \in CertifiedBlocks PROVE b \in CertifiedBlocks'
          OBVIOUS
        <5>1. b \in Block
          BY <4>1 DEF Signable
        <5>2. \A m \in Node : signed[m] \subseteq signed'[m]
          BY <1>2, <3>2, NodeStepSigned, Zenon
        <5> QED
          BY <5>1, <5>2, CertificatesStay, CertifiedMember
      <4>5. CASE b \in CertifiedBlocks' <=> b \in CertifiedBlocks
        <5>1. CertifiedBlocks' = CertifiedBlocks
          BY <4>2, <4>5
        <5> QED
          BY <5>1
      <4> QED
        BY <4>3, <4>4, <4>5
    <3> QED
      BY <3>2, <3>3, <3>4 DEF NodeStep
  <2> QED
    BY <1>2, <2>1, <2>2, NextStep
<1> QED
  BY <1>1, <1>2, Invariance, PTL DEF Spec, Refinement, Tree!Spec
=============================================================================
