-------------------------- MODULE ChainRuntimeLemmas --------------------------
(***************************************************************************)
(* Lemmas about the operators ChainRuntime is built from: how quorums meet, *)
(* and what the helpers of chain_runtime.c do to one node's state.         *)
(***************************************************************************)
EXTENDS ChainRuntime, FiniteSetTheorems, TLAPS

-----------------------------------------------------------------------------
(* Quorums.                                                                 *)

\* ceil(2k/3) is at least two thirds of k, positive and no more than k.
LEMMA ThresholdBounds ==
  ASSUME NEW k \in Nat, k > 0
  PROVE  /\ Threshold(k) \in Nat /\ Threshold(k) >= 1
         /\ 3 * Threshold(k) >= 2 * k
BY DEF Threshold

\* Two quorums of one committee share a member outside any set that holds less
\* than a third of the committee (ants_chain_finality_verify's threshold).
LEMMA QuorumsMeet ==
  ASSUME NEW C, IsFiniteSet(C), Cardinality(C) > 0,
         NEW Q \in SUBSET C, NEW R \in SUBSET C, NEW Bad,
         Cardinality(Q) >= Threshold(Cardinality(C)),
         Cardinality(R) >= Threshold(Cardinality(C)),
         3 * Cardinality(C \cap Bad) < Cardinality(C)
  PROVE  \E m \in Q \cap R : m \notin Bad
<1> DEFINE k == Cardinality(C)
<1>1. k \in Nat /\ k > 0
  BY FS_CardinalityType
<1>2. /\ IsFiniteSet(Q) /\ IsFiniteSet(R) /\ IsFiniteSet(Q \cap R)
      /\ IsFiniteSet(Q \cup R) /\ IsFiniteSet(C \cap Bad)
  <2>1. \A S : S \subseteq C => IsFiniteSet(S)
    BY FS_Subset
  <2>2. Q \cap R \subseteq C /\ Q \cup R \subseteq C /\ C \cap Bad \subseteq C
    OBVIOUS
  <2> QED
    BY <2>1, <2>2
<1>3. /\ Cardinality(Q) \in Nat /\ Cardinality(R) \in Nat
      /\ Cardinality(Q \cap R) \in Nat /\ Cardinality(Q \cup R) \in Nat
      /\ Cardinality(C \cap Bad) \in Nat
  BY <1>2, FS_CardinalityType
<1>4. Cardinality(Q \cup R) <= k
  BY FS_Subset
<1>5. Cardinality(Q \cup R) = Cardinality(Q) + Cardinality(R) - Cardinality(Q \cap R)
  BY <1>2, FS_Union
<1>6. 3 * Threshold(k) >= 2 * k /\ Threshold(k) \in Nat
  BY <1>1, ThresholdBounds
<1>7. 3 * Cardinality(Q \cap R) >= k
  <2> HIDE DEF k
  <2>1. Cardinality(Q) >= Threshold(k) /\ Cardinality(R) >= Threshold(k)
    BY DEF k
  <2> QED
    BY <1>1, <1>3, <1>4, <1>5, <1>6, <2>1
<1>8. Cardinality(Q \cap R) > Cardinality(C \cap Bad)
  BY <1>1, <1>3, <1>7
<1>9. SUFFICES ASSUME Q \cap R \subseteq Bad PROVE FALSE
  OBVIOUS
<1>10. Q \cap R \subseteq C \cap Bad
  BY <1>9
<1>11. Cardinality(Q \cap R) <= Cardinality(C \cap Bad)
  BY <1>2, <1>10, FS_Subset
<1> QED
  BY <1>3, <1>8, <1>11

-----------------------------------------------------------------------------
(* One node's state.                                                        *)

\* What every struct rt_state satisfies between two handlers: its tables fit,
\* the attempt is above the head, and `cur` points at a filed block of this
\* attempt, signed last.
LocalInv(s) ==
  /\ s \in RtState
  /\ IsFiniteSet(s.props) /\ Cardinality(s.props) <= MaxProps
  /\ IsFiniteSet(s.atts) /\ Cardinality(s.atts) <= MaxAtts
  /\ s.h > s.head.height
  /\ s.cur # None => /\ s.cur \in s.props /\ s.cur.prev = s.head
                     /\ s.cur.height = s.h /\ s.cur.height = s.lastSigned

\* Heads have natural heights and cutoffs.
LEMMA HeadType ==
  ASSUME NEW b \in Head
  PROVE  b.height \in Nat /\ b.cutoff \in Nat
BY BlockAssumption DEF Head, Genesis

\* A subset of a finite table is finite and no larger.
LEMMA Shrinks ==
  ASSUME NEW S, IsFiniteSet(S), NEW T \in SUBSET S, NEW m \in Nat, Cardinality(S) <= m
  PROVE  IsFiniteSet(T) /\ Cardinality(T) <= m
<1>1. IsFiniteSet(T) /\ Cardinality(T) <= Cardinality(S)
  BY FS_Subset
<1>2. Cardinality(S) \in Nat /\ Cardinality(T) \in Nat
  BY <1>1, FS_CardinalityType
<1> QED
  BY <1>1, <1>2

\* start_attempt keeps a state well formed when it moves above the head.
LEMMA StartAttemptLocal ==
  ASSUME NEW s \in RtState,
         IsFiniteSet(s.props), Cardinality(s.props) <= MaxProps,
         IsFiniteSet(s.atts), Cardinality(s.atts) <= MaxAtts,
         NEW height \in Nat, height > s.head.height, NEW t \in Nat
  PROVE  LET y == StartAttempt(s, height, t)
         IN  /\ LocalInv(y)
             /\ y.head = s.head /\ y.h = height /\ y.cur = None
             /\ y.lastSigned = s.lastSigned
             /\ y.props \subseteq s.props /\ y.atts \subseteq s.atts
<1> DEFINE y == StartAttempt(s, height, t)
<1>1. /\ y.props = {p \in s.props : p.height > s.head.height}
      /\ y.atts = {a \in s.atts : a.height > s.head.height}
      /\ y.head = s.head /\ y.h = height /\ y.cur = None /\ y.lastSigned = s.lastSigned
  BY DEF StartAttempt, RtState
<1>2. y \in RtState
  BY Zenon DEF StartAttempt, RtState
<1>3. MaxProps \in Nat /\ MaxAtts \in Nat
  BY TimesAssumption
<1>4. IsFiniteSet(y.props) /\ Cardinality(y.props) <= MaxProps
  <2>1. y.props \in SUBSET s.props
    BY <1>1
  <2> QED
    BY <2>1, <1>3, Shrinks
<1>5. IsFiniteSet(y.atts) /\ Cardinality(y.atts) <= MaxAtts
  <2>1. y.atts \in SUBSET s.atts
    BY <1>1
  <2> QED
    BY <2>1, <1>3, Shrinks
<1> HIDE DEF y
<1>6. LocalInv(y)
  BY <1>1, <1>2, <1>4, <1>5 DEF LocalInv
<1>7. y.props \subseteq s.props /\ y.atts \subseteq s.atts
  BY <1>1
<1> QED
  BY <1>1, <1>6, <1>7 DEF y

\* The committee of a block is finite and not empty.
LEMMA CommitteeFinite ==
  ASSUME NEW b \in Block
  PROVE  /\ IsFiniteSet(Draw(b.prev, b.height))
         /\ Cardinality(Draw(b.prev, b.height)) \in Nat \ {0}
         /\ Draw(b.prev, b.height) \subseteq Node
<1>1. IsFiniteSet(Trustee) /\ Trustee \subseteq Node
  BY NodesAssumption, FS_Interval DEF Trustee, Node
<1>2. Draw(b.prev, b.height) \subseteq Trustee /\ Cardinality(Draw(b.prev, b.height)) = K
  BY DrawAssumption
<1>3. K \in Nat \ {0}
  BY NodesAssumption DEF K
<1> QED
  BY <1>1, <1>2, <1>3, FS_Subset

\* More attestations make a block no less final.
LEMMA SignersMonotone ==
  ASSUME NEW b \in Block, NEW A, NEW B, A \subseteq B
  PROVE  /\ Cardinality(Signers(A, b)) \in Nat /\ Cardinality(Signers(B, b)) \in Nat
         /\ Cardinality(Signers(A, b)) <= Cardinality(Signers(B, b))
<1>1. Signers(A, b) \subseteq Signers(B, b) /\ Signers(B, b) \subseteq Draw(b.prev, b.height)
  BY DEF Signers
<1>2. IsFiniteSet(Signers(B, b))
  BY <1>1, CommitteeFinite, FS_Subset
<1>3. IsFiniteSet(Signers(A, b))
  BY <1>1, <1>2, FS_Subset
<1> QED
  BY <1>1, <1>2, <1>3, FS_Subset, FS_CardinalityType

\* try_finalize either changes nothing or adopts a filed, final block; it leaves
\* no final proposal behind.
LEMMA TryFinalizeLocal ==
  ASSUME NEW s, LocalInv(s), NEW t \in Nat, NEW y \in TryFinalize(s, t)
  PROVE  /\ LocalInv(y)
         /\ y.lastSigned = s.lastSigned
         /\ y.props \subseteq s.props /\ y.atts \subseteq s.atts
         /\ \/ y = s
            \/ /\ y.cur = None /\ y.head \in s.props /\ IsFinal(s, y.head)
               /\ y.head.height > s.head.height
         /\ Finals(y) = {}
<1>1. CASE Finals(s) = {}
  BY <1>1 DEF TryFinalize
<1>2. CASE Finals(s) # {}
  <2>1. PICK best \in Finals(s) :
          /\ \A q \in Finals(s) : q.height <= best.height
          /\ y = StartAttempt([s EXCEPT !.head = best], best.height + 1, t)
    BY <1>2, Zenon DEF TryFinalize
  <2>2. best \in s.props /\ IsFinal(s, best) /\ best.height > s.head.height
    BY <2>1 DEF Finals
  <2>3. best \in Block /\ best \in Head /\ best.height \in Nat
    BY <2>2, BlockAssumption DEF LocalInv, RtState, Head
  <2> DEFINE z == [s EXCEPT !.head = best]
  <2>4. /\ z \in RtState /\ z.head = best /\ z.props = s.props /\ z.atts = s.atts
        /\ z.lastSigned = s.lastSigned
    BY <2>3 DEF LocalInv, RtState
  <2> HIDE DEF z
  <2>5. y = StartAttempt(z, best.height + 1, t)
    BY <2>1 DEF z
  <2>6. best.height + 1 \in Nat /\ best.height + 1 > z.head.height
    BY <2>3, <2>4
  <2>7. /\ LocalInv(y) /\ y.head = best /\ y.cur = None /\ y.lastSigned = s.lastSigned
        /\ y.props \subseteq s.props /\ y.atts \subseteq s.atts
    BY <2>4, <2>5, <2>6, StartAttemptLocal DEF LocalInv
  <2>8. Finals(y) = {}
    <3> SUFFICES ASSUME NEW p \in Finals(y) PROVE FALSE
      OBVIOUS
    <3>1. p \in s.props /\ p.height > best.height /\ IsFinal(y, p)
      BY <2>7 DEF Finals
    <3>2. p \in Block /\ p.height \in Nat /\ s.head.height \in Nat
      BY <3>1, BlockAssumption, HeadType DEF LocalInv, RtState
    <3>3. IsFinal(s, p)
      <4>1. Cardinality(Signers(y.atts, p)) <= Cardinality(Signers(s.atts, p))
        BY <2>7, <3>2, SignersMonotone
      <4>2. /\ Cardinality(Signers(y.atts, p)) \in Nat
            /\ Cardinality(Signers(s.atts, p)) \in Nat
        BY <2>7, <3>2, SignersMonotone
      <4>3. Threshold(Cardinality(Draw(p.prev, p.height))) \in Nat
        BY <3>2, CommitteeFinite, ThresholdBounds
      <4> QED
        BY <3>1, <4>1, <4>2, <4>3 DEF IsFinal
    <3>4. p \in Finals(s)
      BY <2>2, <2>3, <3>1, <3>2, <3>3 DEF Finals
    <3> QED
      BY <2>1, <2>3, <3>1, <3>2, <3>4
  <2> QED
    BY <2>2, <2>7, <2>8
<1> QED
  BY <1>1, <1>2

\* prop_alloc frees a slot and never takes the current attempt's.
LEMMA PropAllocFits ==
  ASSUME NEW s, LocalInv(s), NEW ps \in PropAlloc(s)
  PROVE  /\ ps \subseteq s.props /\ IsFiniteSet(ps)
         /\ Cardinality(ps) \in Nat /\ Cardinality(ps) < MaxProps
         /\ s.cur \in s.props => s.cur \in ps
<1>1. /\ IsFiniteSet(s.props) /\ Cardinality(s.props) \in Nat
      /\ Cardinality(s.props) <= MaxProps /\ MaxProps \in Nat
  BY TimesAssumption, FS_CardinalityType DEF LocalInv
<1>2. CASE ps = s.props /\ Cardinality(s.props) < MaxProps
  BY <1>1, <1>2
<1>3. CASE \E v \in Victims(s) : ps = s.props \ {v}
  <2>1. PICK v \in s.props \ {s.cur} : ps = s.props \ {v}
    BY <1>3 DEF Victims
  <2>2. IsFiniteSet(ps) /\ Cardinality(ps) = Cardinality(s.props) - 1
    BY <1>1, <2>1, FS_RemoveElement
  <2>3. Cardinality(ps) \in Nat
    BY <2>2, FS_CardinalityType
  <2>4. Cardinality(ps) < MaxProps
    BY <1>1, <2>2, <2>3
  <2> QED
    BY <2>1, <2>2, <2>3, <2>4
<1>4. \/ ps = s.props /\ Cardinality(s.props) < MaxProps
      \/ \E v \in Victims(s) : ps = s.props \ {v}
  BY Zenon DEF PropAlloc
<1> QED
  BY <1>2, <1>3, <1>4

\* Filing a block in the slot prop_alloc freed.
LEMMA FileLocal ==
  ASSUME NEW s, LocalInv(s), NEW b \in Block,
         NEW ps, (b \in s.props /\ ps = s.props) \/ ps \in PropAlloc(s),
         NEW z, z = [s EXCEPT !.props = ps \cup {b}]
  PROVE  /\ LocalInv(z) /\ b \in z.props /\ z.props \subseteq s.props \cup {b}
         /\ z.head = s.head /\ z.h = s.h /\ z.cur = s.cur
         /\ z.lastSigned = s.lastSigned /\ z.atts = s.atts
<1>1. /\ z.props = ps \cup {b} /\ z.head = s.head /\ z.h = s.h /\ z.cur = s.cur
      /\ z.lastSigned = s.lastSigned /\ z.atts = s.atts
  BY DEF LocalInv, RtState
<1>2. /\ ps \subseteq s.props /\ IsFiniteSet(ps \cup {b})
      /\ Cardinality(ps \cup {b}) <= MaxProps
      /\ s.cur \in s.props => s.cur \in ps
  <2>1. CASE b \in s.props /\ ps = s.props
    <3>1. ps \cup {b} = s.props
      BY <2>1
    <3> QED
      BY <2>1, <3>1, Zenon DEF LocalInv
  <2>2. CASE ps \in PropAlloc(s)
    <3>1. /\ IsFiniteSet(ps) /\ Cardinality(ps) \in Nat /\ Cardinality(ps) < MaxProps
          /\ ps \subseteq s.props /\ (s.cur \in s.props => s.cur \in ps)
      BY <2>2, PropAllocFits
    <3>2. /\ IsFiniteSet(ps \cup {b})
          /\ Cardinality(ps \cup {b}) = Cardinality(ps) \/ Cardinality(ps \cup {b}) = Cardinality(ps) + 1
      BY <3>1, FS_AddElement
    <3>3. MaxProps \in Nat
      BY TimesAssumption
    <3> QED
      BY <3>1, <3>2, <3>3
  <2> QED
    BY <2>1, <2>2
<1>3. z \in RtState
  BY <1>2 DEF LocalInv, RtState
<1>4. LocalInv(z)
  BY <1>1, <1>2, <1>3 DEF LocalInv
<1> QED
  BY <1>1, <1>2, <1>4

\* att_file adds at most the new attestation and never overruns the table.
LEMMA AttFileFits ==
  ASSUME NEW A, IsFiniteSet(A), Cardinality(A) <= MaxAtts, NEW att, NEW B \in AttFile(A, att)
  PROVE  /\ B \subseteq A \cup {att} /\ IsFiniteSet(B) /\ Cardinality(B) <= MaxAtts
<1>1. Cardinality(A) \in Nat /\ MaxAtts \in Nat
  BY TimesAssumption, FS_CardinalityType
<1>2. CASE B = A
  BY <1>2
<1>3. CASE B = A \cup {att} /\ Cardinality(A) < MaxAtts
  <2>1. /\ IsFiniteSet(B)
        /\ Cardinality(B) = Cardinality(A) \/ Cardinality(B) = Cardinality(A) + 1
    BY <1>3, FS_AddElement
  <2> QED
    BY <1>1, <1>3, <2>1
<1>4. CASE \E a \in A : B = (A \ {a}) \cup {att}
  <2>1. PICK a \in A : B = (A \ {a}) \cup {att}
    BY <1>4
  <2>2. IsFiniteSet(A \ {a}) /\ Cardinality(A \ {a}) = Cardinality(A) - 1
    BY FS_RemoveElement
  <2>3. /\ IsFiniteSet(B)
        /\ Cardinality(B) = Cardinality(A \ {a}) \/ Cardinality(B) = Cardinality(A \ {a}) + 1
    BY <2>1, <2>2, FS_AddElement
  <2> QED
    BY <1>1, <2>1, <2>2, <2>3
<1>5. \/ B = A
      \/ B = A \cup {att} /\ Cardinality(A) < MaxAtts
      \/ \E a \in A : B = (A \ {a}) \cup {att}
  BY Zenon DEF AttFile
<1> QED
  BY <1>2, <1>3, <1>4, <1>5

\* sign_and_emit on a filed block of the current attempt.
LEMMA SignLocal ==
  ASSUME NEW s, LocalInv(s), NEW n \in Node, NEW b \in Block, NEW t \in Nat,
         b \in s.props, b.prev = s.head, b.height = s.h,
         NEW x \in SignAndEmit(n, s, b, t)
  PROVE  /\ LocalInv(x) /\ x.head = s.head /\ x.h = s.h /\ x.cur = b
         /\ x.props = s.props /\ x.lastSigned = b.height
         /\ x.atts \subseteq s.atts \cup {AttestFrame(n, b)}
<1>1. PICK A \in AttFile(s.atts, AttestFrame(n, b)) :
        x = [s EXCEPT !.lastSigned = b.height, !.cur = b, !.lastEmit = t, !.atts = A]
  BY Zenon DEF SignAndEmit
<1>2. A \subseteq s.atts \cup {AttestFrame(n, b)} /\ IsFiniteSet(A) /\ Cardinality(A) <= MaxAtts
  BY AttFileFits DEF LocalInv
<1>3. AttestFrame(n, b) \in Attestation
  BY BlockAssumption DEF AttestFrame, Attestation
<1>4. A \subseteq Attestation
  BY <1>2, <1>3 DEF LocalInv, RtState
<1>5. x \in RtState
  BY <1>1, <1>4, BlockAssumption, Zenon DEF LocalInv, RtState
<1>6. /\ x.head = s.head /\ x.h = s.h /\ x.cur = b /\ x.props = s.props
      /\ x.lastSigned = b.height /\ x.atts = A
  BY <1>1 DEF LocalInv, RtState
<1>7. LocalInv(x)
  BY <1>2, <1>5, <1>6 DEF LocalInv
<1> QED
  BY <1>2, <1>6, <1>7

\* Filing an attestation.
WithAtts(s, A) == [s EXCEPT !.atts = A]

\* Filing an attestation (att_file) keeps a node well formed.
LEMMA FileAttLocal ==
  ASSUME NEW s, LocalInv(s), NEW a \in Attestation, NEW A \in AttFile(s.atts, a),
         NEW z, z = WithAtts(s, A)
  PROVE  /\ LocalInv(z) /\ z.head = s.head /\ z.h = s.h /\ z.cur = s.cur
         /\ z.props = s.props /\ z.lastSigned = s.lastSigned
         /\ z.atts \subseteq s.atts \cup {a}
<1>1. A \subseteq s.atts \cup {a} /\ IsFiniteSet(A) /\ Cardinality(A) <= MaxAtts
  BY AttFileFits DEF LocalInv
<1>2. z \in RtState
  BY <1>1 DEF LocalInv, RtState, WithAtts
<1>3. /\ z.head = s.head /\ z.h = s.h /\ z.cur = s.cur /\ z.props = s.props
      /\ z.lastSigned = s.lastSigned /\ z.atts = A
  BY DEF LocalInv, RtState, WithAtts
<1>4. LocalInv(z)
  BY <1>1, <1>2, <1>3 DEF LocalInv
<1> QED
  BY <1>1, <1>3, <1>4

\* Signatures are never withdrawn, so neither is a certificate.
LEMMA CertificatesStay ==
  ASSUME NEW S, NEW T, \A m \in Node : S[m] \subseteq T[m], NEW b \in Block, Certifies(S, b)
  PROVE  Certifies(T, b)
<1>1. /\ IsFiniteSet(Draw(b.prev, b.height)) /\ Draw(b.prev, b.height) \subseteq Node
      /\ Threshold(Cardinality(Draw(b.prev, b.height))) \in Nat
  BY CommitteeFinite, ThresholdBounds
<1>2. Voters(S, b) \subseteq Voters(T, b) /\ Voters(T, b) \subseteq Draw(b.prev, b.height)
  BY <1>1 DEF Voters
<1>3. IsFiniteSet(Voters(T, b))
  BY <1>1, <1>2, FS_Subset
<1>4. IsFiniteSet(Voters(S, b)) /\ Cardinality(Voters(S, b)) <= Cardinality(Voters(T, b))
  BY <1>2, <1>3, FS_Subset
<1>5. Cardinality(Voters(S, b)) \in Nat /\ Cardinality(Voters(T, b)) \in Nat
  BY <1>3, <1>4, FS_CardinalityType
<1> QED
  BY <1>1, <1>4, <1>5 DEF Certifies

\* A quorum of attestations that carry real signatures is a certificate.
LEMMA GenuineQuorum ==
  ASSUME NEW S, NEW A, \A a \in A : a.hash \in S[a.signer], NEW b \in Block,
         Cardinality(Signers(A, b)) >= Threshold(Cardinality(Draw(b.prev, b.height)))
  PROVE  Certifies(S, b)
<1>1. /\ IsFiniteSet(Draw(b.prev, b.height))
      /\ Threshold(Cardinality(Draw(b.prev, b.height))) \in Nat
  BY CommitteeFinite, ThresholdBounds
<1>2. Signers(A, b) \subseteq Voters(S, b) /\ Voters(S, b) \subseteq Draw(b.prev, b.height)
  BY DEF Voters, Signers
<1>3. IsFiniteSet(Voters(S, b))
  BY <1>1, <1>2, FS_Subset
<1>4. IsFiniteSet(Signers(A, b)) /\ Cardinality(Signers(A, b)) <= Cardinality(Voters(S, b))
  BY <1>2, <1>3, FS_Subset
<1>5. Cardinality(Voters(S, b)) \in Nat /\ Cardinality(Signers(A, b)) \in Nat
  BY <1>3, <1>4, FS_CardinalityType
<1> QED
  BY <1>1, <1>4, <1>5 DEF Certifies
=============================================================================
