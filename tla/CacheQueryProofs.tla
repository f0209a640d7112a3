--------------------------- MODULE CacheQueryProofs ---------------------------
(***************************************************************************)
(* A distributed query counts every slot once and completes exactly when   *)
(* the last one ends, for every fan-out and every order of the transport's *)
(* events.                                                                 *)
(***************************************************************************)
EXTENDS CacheQuery, FiniteSetTheorems, TLAPS

\* The connection and the stream agree with the slot's status, as long as the
\* query listens.
Linked(s) ==
  /\ s.st = "EMPTY" => s.conn = "none" /\ s.stream = "none"
  /\ s.st = "DIALING" <=> s.conn = "dialing"
  /\ s.st = "AWAITING" => s.stream = "open"
  /\ s.stream = "open" => s.conn = "up"

\* The phase follows from the counters.
PhaseCounts ==
  /\ phase = "LOOKUP" => DOMAIN slots = {}
  /\ phase = "DELIVER" => responded + failed < Cardinality(DOMAIN slots)
  /\ phase = "DONE" => responded + failed >= Cardinality(DOMAIN slots)

\* The inductive invariant.
IInv ==
  /\ TypeOK
  /\ CountsExact
  /\ PhaseCounts
  /\ phase = "DELIVER" => \A i \in DOMAIN slots : Linked(slots[i])

-----------------------------------------------------------------------------
\* The slots and the subsets of them by status are finite.
LEMMA SlotsFinite ==
  ASSUME TypeOK
  PROVE  /\ IsFiniteSet(DOMAIN slots) /\ Cardinality(DOMAIN slots) \in Nat
         /\ \A st : /\ IsFiniteSet(In(slots, st))
                    /\ Cardinality(In(slots, st)) \in Nat
                    /\ In(slots, st) \subseteq DOMAIN slots
<1>1. PICK n \in 0..Fanout : slots \in [1..n -> Slot]
  BY DEF TypeOK
<1>2. DOMAIN slots = 1..n /\ n \in Nat
  BY <1>1, FanoutAssumption
<1>3. IsFiniteSet(DOMAIN slots) /\ Cardinality(DOMAIN slots) \in Nat
  BY <1>2, FS_Interval, FS_CardinalityType
<1>4. ASSUME NEW st
      PROVE  /\ IsFiniteSet(In(slots, st))
             /\ Cardinality(In(slots, st)) \in Nat
             /\ In(slots, st) \subseteq DOMAIN slots
  BY <1>3, FS_Subset, FS_CardinalityType DEF In
<1>5. QED
  BY <1>3, <1>4

\* Replacing one slot moves only that slot between the status sets.
LEMMA OneSlotMoves ==
  ASSUME TypeOK, NEW i \in DOMAIN slots, NEW s \in Slot, NEW st,
         slots' = [slots EXCEPT ![i] = s]
  PROVE  /\ DOMAIN slots' = DOMAIN slots
         /\ \A j \in DOMAIN slots : slots'[j] = IF j = i THEN s ELSE slots[j]
         /\ \E n \in 0..Fanout : slots' \in [1..n -> Slot]
         /\ Cardinality(In(slots', st))
              = Cardinality(In(slots, st)) + (IF s.st = st /\ slots[i].st # st THEN 1 ELSE 0)
                                           - (IF s.st # st /\ slots[i].st = st THEN 1 ELSE 0)
<1>1. PICK n \in 0..Fanout : slots \in [1..n -> Slot]
  BY DEF TypeOK
<1>2. /\ DOMAIN slots' = DOMAIN slots
      /\ \A j \in DOMAIN slots : slots'[j] = IF j = i THEN s ELSE slots[j]
      /\ slots' \in [1..n -> Slot]
  BY <1>1
<1>3. IsFiniteSet(In(slots, st)) /\ Cardinality(In(slots, st)) \in Nat
  BY SlotsFinite
<1>4. CASE s.st = st /\ slots[i].st # st
  <2>1. In(slots', st) = In(slots, st) \cup {i} /\ i \notin In(slots, st)
    BY <1>2, <1>4 DEF In
  <2>2. Cardinality(In(slots', st)) = Cardinality(In(slots, st)) + 1
    BY <1>3, <2>1, FS_AddElement
  <2>3. QED
    BY <1>2, <1>3, <1>4, <2>2
<1>5. CASE s.st # st /\ slots[i].st = st
  <2>1. In(slots', st) = In(slots, st) \ {i} /\ i \in In(slots, st)
    BY <1>2, <1>5 DEF In
  <2>2. Cardinality(In(slots', st)) = Cardinality(In(slots, st)) - 1
    BY <1>3, <2>1, FS_RemoveElement
  <2>3. QED
    BY <1>2, <1>3, <1>5, <2>2
<1>6. CASE s.st = st <=> slots[i].st = st
  <2>1. In(slots', st) = In(slots, st)
    BY <1>2, <1>6 DEF In
  <2>2. QED
    BY <1>2, <1>3, <1>6, <2>1
<1>7. QED
  BY <1>4, <1>5, <1>6

\* A handler that ends at most the slot it runs for, counts it as it ends it,
\* and leaves it linked, preserves the invariant.
LEMMA HandledPreserves ==
  ASSUME IInv, phase = "DELIVER",
         NEW i \in DOMAIN slots, NEW s \in Slot, NEW what \in Ended \cup {"none"},
         Handled(i, s, what), Linked(s),
         what = "none" => s.st = slots[i].st \/ (s.st \notin Ended /\ slots[i].st \notin Ended),
         what \in Ended => s.st = what /\ slots[i].st \notin Ended
  PROVE  IInv'
<1> USE DEF IInv, Handled, Ended
<1>1. /\ DOMAIN slots' = DOMAIN slots
      /\ \A j \in DOMAIN slots : slots'[j] = IF j = i THEN s ELSE slots[j]
      /\ \E n \in 0..Fanout : slots' \in [1..n -> Slot]
  BY OneSlotMoves
<1>2. Cardinality(In(slots', "RESPONDED"))
        = Cardinality(In(slots, "RESPONDED")) + (IF what = "RESPONDED" THEN 1 ELSE 0)
  <2>1. Cardinality(In(slots', "RESPONDED"))
          = Cardinality(In(slots, "RESPONDED"))
              + (IF s.st = "RESPONDED" /\ slots[i].st # "RESPONDED" THEN 1 ELSE 0)
              - (IF s.st # "RESPONDED" /\ slots[i].st = "RESPONDED" THEN 1 ELSE 0)
    BY OneSlotMoves
  <2>2. QED
    BY <2>1, SlotsFinite
<1>3. Cardinality(In(slots', "FAILED"))
        = Cardinality(In(slots, "FAILED")) + (IF what = "FAILED" THEN 1 ELSE 0)
  <2>1. Cardinality(In(slots', "FAILED"))
          = Cardinality(In(slots, "FAILED"))
              + (IF s.st = "FAILED" /\ slots[i].st # "FAILED" THEN 1 ELSE 0)
              - (IF s.st # "FAILED" /\ slots[i].st = "FAILED" THEN 1 ELSE 0)
    BY OneSlotMoves
  <2>2. QED
    BY <2>1, SlotsFinite
<1>4. CountsExact'
  BY <1>2, <1>3 DEF CountsExact
<1>5. TypeOK'
  BY <1>1 DEF TypeOK, MaybeComplete
<1>6. PhaseCounts'
  <2>1. Cardinality(DOMAIN slots) \in Nat /\ responded' \in Nat /\ failed' \in Nat
    BY SlotsFinite, <1>5 DEF TypeOK
  <2>2. QED
    BY <1>1, <2>1 DEF PhaseCounts, MaybeComplete
<1>7. \A j \in DOMAIN slots' : Linked(slots'[j])
  BY <1>1 DEF Linked
<1>8. QED
  BY <1>4, <1>5, <1>6, <1>7 DEF Linked

\* After the query is done its slots' statuses no longer change, whatever the
\* transport does to their connections and streams.
LEMMA IgnoredPreserves ==
  ASSUME IInv, NEW i \in DOMAIN slots, NEW s \in Slot,
         Ignored(i, s), s.st = slots[i].st
  PROVE  IInv'
<1> USE DEF IInv, Ignored
<1>1. /\ DOMAIN slots' = DOMAIN slots
      /\ \E n \in 0..Fanout : slots' \in [1..n -> Slot]
  BY OneSlotMoves
<1>2. In(slots', "RESPONDED") = In(slots, "RESPONDED") /\ In(slots', "FAILED") = In(slots, "FAILED")
  <2>1. \A j \in DOMAIN slots : slots'[j] = IF j = i THEN s ELSE slots[j]
    BY OneSlotMoves
  <2>2. QED
    BY <1>1, <2>1 DEF In
<1>3. CountsExact'
  BY <1>2 DEF CountsExact
<1>4. TypeOK' /\ PhaseCounts'
  BY <1>1 DEF TypeOK, PhaseCounts
<1>5. QED
  BY <1>3, <1>4

-----------------------------------------------------------------------------
\* The initial state satisfies the invariant.
LEMMA InitEstablishes == Init => IInv
<1> SUFFICES ASSUME Init PROVE IInv
  OBVIOUS
<1>1. slots \in [1..0 -> Slot] /\ DOMAIN slots = {}
  BY DEF Init
<1>2. TypeOK
  BY <1>1, FanoutAssumption DEF TypeOK, Init
<1>3. In(slots, "RESPONDED") = {} /\ In(slots, "FAILED") = {}
  BY <1>1 DEF In
<1>4. QED
  BY <1>1, <1>2, <1>3, FS_EmptySet DEF IInv, CountsExact, PhaseCounts, Init

\* Destroying the query releases every slot.
LEMMA DestroyPreserves ==
  ASSUME IInv, Destroy
  PROVE  IInv'
<1>1. slots' \in [1..0 -> Slot] /\ DOMAIN slots' = {}
  BY DEF Destroy
<1>2. In(slots', "RESPONDED") = {} /\ In(slots', "FAILED") = {}
  BY <1>1 DEF In
<1>3. phase' = "DEAD" /\ responded' = 0 /\ failed' = 0
  BY DEF Destroy
<1>4. \E n \in 0..Fanout : slots' \in [1..n -> Slot]
  BY <1>1, FanoutAssumption
<1>5. TypeOK'
  BY <1>3, <1>4 DEF TypeOK
<1>6. QED
  BY <1>1, <1>2, <1>3, <1>5, FS_EmptySet DEF IInv, CountsExact, PhaseCounts

\* The end of the lookup creates the slots, none of them ended.
LEMMA DhtEventPreserves ==
  ASSUME IInv, NEW n \in 0..MaxFound, HandleDhtEvent(n)
  PROVE  IInv'
<1> DEFINE m == IF n > Fanout THEN Fanout ELSE n
<1>1. m \in 0..Fanout /\ m \in Nat
  BY FanoutAssumption
<1>2. slots' = [i \in 1..m |-> Empty] /\ Empty \in Slot
  BY DEF HandleDhtEvent, Empty, Slot, Ended
<1>3. slots' \in [1..m -> Slot] /\ DOMAIN slots' = 1..m
  BY <1>2
<1>4. In(slots', "RESPONDED") = {} /\ In(slots', "FAILED") = {}
  BY <1>2 DEF In, Empty
<1>5. responded = 0 /\ failed = 0
  <2>1. In(slots, "RESPONDED") = {} /\ In(slots, "FAILED") = {}
    BY DEF IInv, PhaseCounts, HandleDhtEvent, In
  <2>2. QED
    BY <2>1, FS_EmptySet DEF IInv, CountsExact
<1>6. TypeOK'
  BY <1>1, <1>3 DEF IInv, TypeOK, HandleDhtEvent, MaybeComplete
<1>7. CountsExact'
  BY <1>4, <1>5, FS_EmptySet DEF CountsExact, HandleDhtEvent
<1>8. PhaseCounts'
  <2>1. Cardinality(DOMAIN slots') = m
    BY <1>1, <1>3, FS_Interval
  <2>2. QED
    BY <1>1, <1>5, <2>1 DEF PhaseCounts, HandleDhtEvent, MaybeComplete
<1>9. \A i \in DOMAIN slots' : Linked(slots'[i])
  BY <1>2 DEF Linked, Empty
<1>10. QED
  BY <1>6, <1>7, <1>8, <1>9 DEF IInv, Linked

\* A tick dials the empty slots and counts the dials that failed.
LEMMA TickPreserves ==
  ASSUME IInv, NEW lost, Tick(lost)
  PROVE  IInv'
<1> USE DEF IInv
<1>1. PICK n \in 0..Fanout : slots \in [1..n -> Slot]
  BY DEF TypeOK
<1>2. lost \subseteq In(slots, "EMPTY") /\ lost \subseteq DOMAIN slots /\ phase = "DELIVER"
  BY DEF Tick, In
<1>3. DOMAIN slots' = DOMAIN slots /\ DOMAIN slots = 1..n
  BY <1>1 DEF Tick
<1>4. ASSUME NEW i \in DOMAIN slots
      PROVE  /\ slots[i] \in Slot
             /\ slots'[i] \in Slot
             /\ slots'[i].st = IF i \in lost THEN "FAILED"
                               ELSE IF slots[i].st = "EMPTY" THEN "DIALING" ELSE slots[i].st
             /\ Linked(slots'[i])
  <2>1. slots[i] \in Slot /\ Linked(slots[i])
    BY <1>1, <1>2, <1>3
  <2>2. CASE i \in lost
    <3>1. slots'[i] = [slots[i] EXCEPT !.st = "FAILED"] /\ slots[i].st = "EMPTY"
      BY <1>2, <2>2 DEF Tick, In
    <3>2. QED
      BY <2>1, <2>2, <3>1 DEF Slot, Linked, Ended
  <2>3. CASE i \notin lost /\ slots[i].st = "EMPTY"
    <3>1. slots'[i] = [slots[i] EXCEPT !.st = "DIALING", !.conn = "dialing"]
      BY <2>3 DEF Tick
    <3>2. QED
      BY <2>1, <2>3, <3>1 DEF Slot, Linked, Ended
  <2>4. CASE i \notin lost /\ slots[i].st # "EMPTY"
    BY <2>1, <2>4 DEF Tick
  <2>5. QED
    BY <2>2, <2>3, <2>4
<1>5. slots' \in [1..n -> Slot]
  BY <1>1, <1>3, <1>4 DEF Tick
<1>6. In(slots', "RESPONDED") = In(slots, "RESPONDED")
  BY <1>2, <1>3, <1>4 DEF In
<1>7. In(slots', "FAILED") = In(slots, "FAILED") \cup lost /\ In(slots, "FAILED") \cap lost = {}
  BY <1>2, <1>3, <1>4 DEF In
<1>8. IsFiniteSet(lost) /\ Cardinality(lost) \in Nat
  BY <1>2, SlotsFinite, FS_Subset, FS_CardinalityType
<1>9. Cardinality(In(slots', "FAILED")) = Cardinality(In(slots, "FAILED")) + Cardinality(lost)
  <2>1. IsFiniteSet(In(slots, "FAILED")) /\ Cardinality(In(slots, "FAILED")) \in Nat
    BY SlotsFinite
  <2>2. Cardinality(In(slots, "FAILED") \cap lost) = 0
    BY <1>7, FS_EmptySet
  <2>3. Cardinality(In(slots, "FAILED") \cup lost)
          = Cardinality(In(slots, "FAILED")) + Cardinality(lost)
              - Cardinality(In(slots, "FAILED") \cap lost)
    BY <1>8, <2>1, FS_Union
  <2>4. Cardinality(In(slots', "FAILED")) = Cardinality(In(slots, "FAILED") \cup lost)
    BY <1>7
  <2>5. QED
    BY <1>8, <2>1, <2>2, <2>3, <2>4
<1>10. TypeOK'
  <2>1. failed' \in Nat /\ responded' \in Nat
    <3>1. failed' = failed + Cardinality(lost) /\ responded' = responded
      BY DEF Tick
    <3>2. failed \in Nat /\ responded \in Nat
      BY DEF TypeOK
    <3>3. QED
      BY <1>8, <3>1, <3>2
  <2>2. phase' \in {"DELIVER", "DONE"}
    BY DEF Tick, MaybeComplete
  <2>3. QED
    BY <1>5, <2>1, <2>2 DEF TypeOK
<1>11. CountsExact'
  BY <1>6, <1>9 DEF CountsExact, Tick
<1>12. PhaseCounts'
  <2>1. Cardinality(DOMAIN slots) \in Nat
    BY SlotsFinite
  <2>2. phase' = IF responded' + failed' < Cardinality(DOMAIN slots) THEN "DELIVER" ELSE "DONE"
    BY <1>3 DEF Tick, MaybeComplete
  <2>3. failed' \in Nat /\ responded' \in Nat
    BY <1>10 DEF TypeOK
  <2>4. QED
    BY <1>3, <2>1, <2>2, <2>3 DEF PhaseCounts
<1>13. QED
  BY <1>3, <1>4, <1>10, <1>11, <1>12 DEF Linked

-----------------------------------------------------------------------------
\* What an event of the transport does to one slot preserves the invariant.
LEMMA SlotEventPreserves ==
  ASSUME IInv, NEW i \in DOMAIN slots,
         \/ ConnReady(i) \/ StreamReadable(i) \/ StreamFin(i)
         \/ StreamReset(i) \/ ConnClosed(i)
  PROVE  IInv'
<1>1. slots[i] \in Slot
  BY DEF IInv, TypeOK
<1>2. phase = "DELIVER" => Linked(slots[i])
  BY DEF IInv
<1>3. CASE ConnReady(i)
  <2> DEFINE up   == [slots[i] EXCEPT !.conn = "up"]
             sent == [up EXCEPT !.st = "AWAITING", !.stream = "open"]
             lost == [up EXCEPT !.st = "FAILED"]
  <2>1. up \in Slot /\ sent \in Slot /\ lost \in Slot
    BY <1>1 DEF Slot, Ended
  <2>2. /\ up.st = slots[i].st
        /\ sent.st = "AWAITING" /\ sent.conn = "up" /\ sent.stream = "open"
        /\ lost.st = "FAILED" /\ lost.conn = "up" /\ lost.stream = slots[i].stream
    BY <1>1 DEF Slot
  <2>3. CASE phase = "DELIVER" /\ Handled(i, sent, "none")
    <3>1. slots[i].st = "DIALING"
      BY <1>2, <1>3, <2>3 DEF ConnReady, Linked
    <3>2. Linked(sent)
      BY <2>2 DEF Linked
    <3>3. QED
      BY <2>1, <2>2, <2>3, <3>1, <3>2, HandledPreserves DEF Ended
  <2>4. CASE phase = "DELIVER" /\ Handled(i, lost, "FAILED")
    <3>1. slots[i].st = "DIALING"
      BY <1>2, <1>3, <2>4 DEF ConnReady, Linked
    <3>2. Linked(lost)
      BY <2>2 DEF Linked
    <3>3. QED
      BY <2>1, <2>2, <2>4, <3>1, <3>2, HandledPreserves DEF Ended
  <2>5. CASE Ignored(i, up)
    BY <2>1, <2>2, <2>5, IgnoredPreserves
  <2>6. QED
    BY <1>3, <2>3, <2>4, <2>5 DEF ConnReady
<1>4. CASE StreamReadable(i)
  <2> DEFINE kept == [slots[i] EXCEPT !.recv = TRUE]
             lost == [slots[i] EXCEPT !.st = "FAILED"]
  <2>1. phase = "DELIVER" /\ slots[i].st = "AWAITING" /\ Linked(slots[i])
    BY <1>2, <1>4 DEF StreamReadable
  <2>2. /\ kept \in Slot /\ lost \in Slot
        /\ kept.st = "AWAITING" /\ kept.conn = slots[i].conn /\ kept.stream = slots[i].stream
        /\ lost.st = "FAILED" /\ lost.conn = slots[i].conn /\ lost.stream = slots[i].stream
    BY <1>1, <2>1 DEF Slot, Ended
  <2>3. Linked(kept) /\ Linked(lost)
    BY <2>1, <2>2 DEF Linked
  <2>4. CASE Handled(i, kept, "none")
    BY <2>1, <2>2, <2>3, <2>4, HandledPreserves DEF Ended
  <2>5. CASE Handled(i, lost, "FAILED")
    BY <2>1, <2>2, <2>3, <2>5, HandledPreserves DEF Ended
  <2>6. QED
    BY <1>4, <2>4, <2>5 DEF StreamReadable
<1>5. ASSUME NEW s \in StreamEnded(i)
      PROVE  /\ s \in Slot /\ s.st = slots[i].st
             /\ phase = "DELIVER" => s.conn = "up"
  BY <1>1, <1>2 DEF StreamEnded, Slot, Linked
<1>6. CASE StreamFin(i)
  <2>1. PICK s \in StreamEnded(i) :
          \/ /\ phase = "DELIVER" /\ s.st = "AWAITING"
             /\ \/ s.recv /\ Handled(i, [s EXCEPT !.st = "RESPONDED"], "RESPONDED")
                \/ Handled(i, [s EXCEPT !.st = "FAILED"], "FAILED")
          \/ phase = "DELIVER" /\ s.st # "AWAITING" /\ Handled(i, s, "none")
          \/ Ignored(i, s)
    BY <1>6 DEF StreamFin
  <2> DEFINE ok == [s EXCEPT !.st = "RESPONDED"]
             no == [s EXCEPT !.st = "FAILED"]
  <2>2. s \in Slot /\ s.st = slots[i].st /\ (phase = "DELIVER" => s.conn = "up")
    BY <1>5
  <2>3. /\ ok \in Slot /\ ok.st = "RESPONDED" /\ ok.conn = s.conn
        /\ no \in Slot /\ no.st = "FAILED" /\ no.conn = s.conn
    BY <2>2 DEF Slot, Ended
  <2>4. CASE phase = "DELIVER" /\ s.st = "AWAITING" /\ Handled(i, ok, "RESPONDED")
    <3>1. Linked(ok)
      BY <2>3, <2>4, <2>2 DEF Linked
    <3>2. QED
      BY <2>3, <2>4, <2>2, <3>1, HandledPreserves DEF Ended
  <2>5. CASE phase = "DELIVER" /\ s.st = "AWAITING" /\ Handled(i, no, "FAILED")
    <3>1. Linked(no)
      BY <2>3, <2>5, <2>2 DEF Linked
    <3>2. QED
      BY <2>3, <2>5, <2>2, <3>1, HandledPreserves DEF Ended
  <2>6. CASE phase = "DELIVER" /\ s.st # "AWAITING" /\ Handled(i, s, "none")
    <3>1. Linked(s)
      BY <1>2, <2>6, <2>2, <1>1 DEF Linked, StreamEnded
    <3>2. QED
      BY <2>6, <2>2, <3>1, HandledPreserves DEF Ended
  <2>7. CASE Ignored(i, s)
    BY <2>7, <2>2, IgnoredPreserves
  <2>8. QED
    BY <2>1, <2>4, <2>5, <2>6, <2>7
<1>7. ASSUME NEW s \in Slot, phase = "DELIVER", FailUnlessEnded(i, s), s.st = slots[i].st,
             s.conn # "dialing", s.stream = "open" => s.conn = "up"
      PROVE  IInv'
  <2> DEFINE lost == [s EXCEPT !.st = "FAILED"]
  <2>1. lost \in Slot /\ lost.st = "FAILED" /\ lost.conn = s.conn /\ lost.stream = s.stream
    BY <1>7 DEF Slot, Ended
  <2>2. CASE s.st \notin Ended /\ Handled(i, lost, "FAILED")
    <3>1. Linked(lost)
      BY <1>7, <2>1, <2>2 DEF Linked
    <3>2. QED
      BY <1>7, <2>1, <2>2, <3>1, HandledPreserves DEF Ended
  <2>3. CASE s.st \in Ended /\ Handled(i, s, "none")
    <3>1. Linked(s)
      BY <1>2, <1>7, <2>3 DEF Linked, Ended
    <3>2. QED
      BY <1>7, <2>3, <3>1, HandledPreserves DEF Ended
  <2>4. QED
    BY <1>7, <2>2, <2>3 DEF FailUnlessEnded
<1>8. CASE StreamReset(i)
  <2>1. PICK s \in StreamEnded(i) :
          (phase = "DELIVER" /\ FailUnlessEnded(i, s)) \/ Ignored(i, s)
    BY <1>8 DEF StreamReset
  <2>2. s \in Slot /\ s.st = slots[i].st /\ (phase = "DELIVER" => s.conn = "up")
    BY <1>5
  <2>3. CASE phase = "DELIVER" /\ FailUnlessEnded(i, s)
    BY <1>7, <2>2, <2>3
  <2>4. CASE Ignored(i, s)
    BY <2>2, <2>4, IgnoredPreserves
  <2>5. QED
    BY <2>1, <2>3, <2>4
<1>9. CASE ConnClosed(i)
  <2> DEFINE freed == [slots[i] EXCEPT !.conn = "freed",
                                       !.stream = IF @ = "none" THEN @ ELSE "freed"]
             left  == [slots[i] EXCEPT !.conn = "closed",
                                       !.stream = IF @ = "open" THEN "ended" ELSE @]
  <2>1. /\ freed \in Slot /\ freed.st = slots[i].st /\ freed.conn = "freed"
        /\ freed.stream # "open"
        /\ left \in Slot /\ left.st = slots[i].st
    BY <1>1 DEF Slot
  <2>2. CASE phase = "DELIVER" /\ FailUnlessEnded(i, freed)
    BY <1>7, <2>1, <2>2
  <2>3. CASE Ignored(i, left)
    BY <2>1, <2>3, IgnoredPreserves
  <2>4. QED
    BY <1>9, <2>2, <2>3 DEF ConnClosed
<1>10. QED
  BY <1>3, <1>4, <1>6, <1>8, <1>9

\* The invariant holds in every reachable state.
THEOREM Invariance == Spec => []IInv
<1>1. Init => IInv
  BY InitEstablishes
<1>2. IInv /\ [Next]_vars => IInv'
  <2> SUFFICES ASSUME IInv, [Next]_vars PROVE IInv'
    OBVIOUS
  <2>1. ASSUME NEW n \in 0..MaxFound, HandleDhtEvent(n) PROVE IInv'
    BY <2>1, DhtEventPreserves
  <2>2. ASSUME NEW lost \in SUBSET DOMAIN slots, Tick(lost) PROVE IInv'
    BY <2>2, TickPreserves
  <2>3. ASSUME NEW i \in DOMAIN slots,
               \/ ConnReady(i) \/ StreamReadable(i) \/ StreamFin(i)
               \/ StreamReset(i) \/ ConnClosed(i)
        PROVE  IInv'
    BY <2>3, SlotEventPreserves
  <2>4. CASE Destroy
    BY <2>4, DestroyPreserves
  <2>5. CASE UNCHANGED vars
    BY <2>5 DEF vars, IInv, TypeOK, CountsExact, PhaseCounts, In, Linked
  <2>6. QED
    BY <2>1, <2>2, <2>3, <2>4, <2>5 DEF Next
<1>3. QED
  BY <1>1, <1>2, PTL DEF Spec

\* Whatever order FIN, RESET and CONN_CLOSED come in, the counters are the slots
\* that ended each way.
THEOREM CountsCorrect == Spec => []CountsExact
<1>1. IInv => CountsExact
  BY DEF IInv
<1>2. QED
  BY <1>1, Invariance, PTL

\* The slots that ended are as many as were counted.
LEMMA EndedCount ==
  ASSUME IInv
  PROVE  /\ IsFiniteSet(In(slots, "RESPONDED") \cup In(slots, "FAILED"))
         /\ In(slots, "RESPONDED") \cup In(slots, "FAILED") \subseteq DOMAIN slots
         /\ Cardinality(In(slots, "RESPONDED") \cup In(slots, "FAILED")) = responded + failed
<1> DEFINE R == In(slots, "RESPONDED")
           F == In(slots, "FAILED")
<1>1. /\ IsFiniteSet(R) /\ IsFiniteSet(F) /\ R \subseteq DOMAIN slots /\ F \subseteq DOMAIN slots
      /\ Cardinality(R) \in Nat /\ Cardinality(F) \in Nat
  BY SlotsFinite DEF IInv
<1>2. R \cap F = {}
  BY DEF In
<1>3. Cardinality(R \cap F) = 0
  BY <1>2, FS_EmptySet
<1>4. /\ IsFiniteSet(R \cup F)
      /\ Cardinality(R \cup F) = Cardinality(R) + Cardinality(F) - Cardinality(R \cap F)
  BY <1>1, FS_Union
<1>5. responded = Cardinality(R) /\ failed = Cardinality(F)
  BY DEF IInv, CountsExact
<1> HIDE DEF R, F
<1>6. Cardinality(R \cup F) = responded + failed
  BY <1>1, <1>3, <1>4, <1>5
<1>7. QED
  BY <1>1, <1>4, <1>6 DEF R, F

\* The completion callback is called when every slot has ended and not before.
THEOREM CompletionCorrect == Spec => []CompleteMeansEnded
<1>1. IInv => CompleteMeansEnded
  <2> SUFFICES ASSUME IInv, phase = "DONE"
               PROVE  \A i \in DOMAIN slots : slots[i].st \in Ended
    BY DEF CompleteMeansEnded
  <2> DEFINE E == In(slots, "RESPONDED") \cup In(slots, "FAILED")
  <2>1. /\ IsFiniteSet(DOMAIN slots) /\ Cardinality(DOMAIN slots) \in Nat
        /\ E \subseteq DOMAIN slots /\ IsFiniteSet(E) /\ Cardinality(E) = responded + failed
    BY EndedCount, SlotsFinite DEF IInv
  <2>2. Cardinality(E) >= Cardinality(DOMAIN slots)
    BY <2>1 DEF IInv, PhaseCounts
  <2>3. Cardinality(E) <= Cardinality(DOMAIN slots)
        /\ (Cardinality(E) = Cardinality(DOMAIN slots) => E = DOMAIN slots)
    BY <2>1, FS_Subset
  <2>4. Cardinality(E) \in Nat
    BY <2>1, FS_CardinalityType
  <2>5. E = DOMAIN slots
    <3> HIDE DEF E
    <3>1. QED
      BY <2>1, <2>2, <2>3, <2>4
  <2>6. QED
    BY <2>5 DEF In, Ended
<1>2. QED
  BY <1>1, Invariance, PTL

\* A query that has not completed always has a slot that can still move.
THEOREM NeverStuck == Spec => []WaitsForSomething
<1>1. IInv => WaitsForSomething
  <2> SUFFICES ASSUME IInv, phase = "DELIVER"
               PROVE  \E i \in DOMAIN slots :
                        \/ slots[i].st = "EMPTY"
                        \/ slots[i].st = "DIALING" /\ slots[i].conn = "dialing"
                        \/ /\ slots[i].st = "AWAITING" /\ slots[i].stream = "open"
                           /\ slots[i].conn = "up"
    BY DEF WaitsForSomething
  <2> DEFINE E == In(slots, "RESPONDED") \cup In(slots, "FAILED")
  <2>1. /\ Cardinality(DOMAIN slots) \in Nat /\ E \subseteq DOMAIN slots
        /\ Cardinality(E) = responded + failed
    BY EndedCount, SlotsFinite DEF IInv
  <2>2. Cardinality(E) < Cardinality(DOMAIN slots)
    BY <2>1 DEF IInv, PhaseCounts
  <2>3. E # DOMAIN slots
    <3> HIDE DEF E
    <3>1. QED
      BY <2>1, <2>2
  <2>4. PICK i \in DOMAIN slots : slots[i].st \notin Ended
    BY <2>1, <2>3 DEF In, Ended
  <2>5. slots[i] \in Slot /\ Linked(slots[i])
    BY DEF IInv, TypeOK
  <2>6. slots[i].st \in {"EMPTY", "DIALING", "AWAITING"}
    BY <2>4, <2>5 DEF Slot
  <2>7. QED
    BY <2>5, <2>6 DEF Linked
<1>2. QED
  BY <1>1, Invariance, PTL
=============================================================================
