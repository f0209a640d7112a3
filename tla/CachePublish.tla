----------------------------- MODULE CachePublish -----------------------------
(***************************************************************************)
(* One publish of the semantic cache (cache/semantic/src/cache_publish.c): *)
(* a DHT lookup, then the entry is sent to each holder found, and the end  *)
(* of the holder's stream counts as its acknowledgement.  The transport is *)
(* the environment, as in CacheQuery.                                      *)
(***************************************************************************)
EXTENDS Naturals, FiniteSets

CONSTANTS
  Replication,  \* replication_factor, at most PUBLISH_MAX_REPLICATION
  MaxFound,     \* bound: peers a lookup returns
  OpsMayFail    \* TRUE: allocations, dials, opens and sends may fail

ASSUME ReplicationAssumption ==
  Replication \in Nat \ {0} /\ MaxFound \in Nat /\ OpsMayFail \in BOOLEAN

VARIABLES
  phase,        \* publish_phase_t; "DEAD" once destroyed
  slots,        \* slots[i] for i in 1..slot_count
  acked,        \* acked_count
  failed        \* failed_count

vars == <<phase, slots, acked, failed>>

Empty == [st |-> "EMPTY", conn |-> "none", stream |-> "none"]
Slot  == [st : {"EMPTY", "DIALING", "AWAITING_FIN", "ACKED", "FAILED"},
          conn : {"none", "dialing", "up", "closed", "freed"},
          stream : {"none", "open", "ended", "freed"}]

In(S, st) == {i \in DOMAIN S : S[i].st = st}

\* Seeded fault: completion waits for one slot more than there is.
MaybeCompleteLate(S, a, f) ==
  IF a + f <= Cardinality(DOMAIN S) THEN "DELIVER" ELSE "DONE"

\* maybe_complete: the phase every handler of the DELIVER phase leaves.
MaybeComplete(S, a, f) == IF a + f < Cardinality(DOMAIN S) THEN "DELIVER" ELSE "DONE"

-----------------------------------------------------------------------------
\* ants_semantic_cache_publish_init has started the lookup.
Init ==
  /\ phase = "LOOKUP"
  /\ slots = [i \in {} |-> Empty]
  /\ acked = 0
  /\ failed = 0

\* Seeded fault: the peers found are not capped at the replication factor.
HandleDhtEventUncapped(n) ==
  /\ phase = "LOOKUP"
  /\ slots' = [i \in 1..n |-> Empty]
  /\ phase' = MaybeComplete(slots', 0, 0)
  /\ UNCHANGED <<acked, failed>>

\* LOOKUP_COMPLETE or LOOKUP_TIMEOUT with n peers.
HandleDhtEvent(n) ==
  /\ phase = "LOOKUP"
  /\ slots' = [i \in 1..(IF n > Replication THEN Replication ELSE n) |-> Empty]
  /\ phase' = MaybeComplete(slots', 0, 0)
  /\ UNCHANGED <<acked, failed>>

\* ants_semantic_cache_publish_tick: every empty slot is dialled; the dials in
\* `lost` fail.
Tick(lost) ==
  /\ phase = "DELIVER"
  /\ lost \subseteq In(slots, "EMPTY") /\ (OpsMayFail \/ lost = {})
  /\ slots' = [i \in DOMAIN slots |->
                 IF i \in lost THEN [slots[i] EXCEPT !.st = "FAILED"]
                 ELSE IF slots[i].st = "EMPTY"
                      THEN [slots[i] EXCEPT !.st = "DIALING", !.conn = "dialing"]
                      ELSE slots[i]]
  /\ failed' = failed + Cardinality(lost)
  /\ phase' = MaybeComplete(slots', acked, failed')
  /\ UNCHANGED acked

\* The end of a handler that ran for slot i: s is the slot, and `what` is what
\* it counted, if anything.
Handled(i, s, what) ==
  /\ slots' = [slots EXCEPT ![i] = s]
  /\ acked' = acked + (IF what = "ACKED" THEN 1 ELSE 0)
  /\ failed' = failed + (IF what = "FAILED" THEN 1 ELSE 0)
  /\ phase' = MaybeComplete(slots', acked', failed')

\* The transport moves on and the publish, done, does not look.
Ignored(i, s) ==
  /\ phase = "DONE"
  /\ slots' = [slots EXCEPT ![i] = s]
  /\ UNCHANGED <<phase, acked, failed>>

\* CONN_READY: open a stream and send the entry with FIN; either may fail.  A
\* READABLE event drains the stream and changes nothing.
ConnReady(i) ==
  LET up == [slots[i] EXCEPT !.conn = "up"]
  IN  /\ slots[i].conn = "dialing"
      /\ \/ /\ phase = "DELIVER"
            /\ \/ Handled(i, [up EXCEPT !.st = "AWAITING_FIN", !.stream = "open"], "none")
               \/ OpsMayFail /\ Handled(i, [up EXCEPT !.st = "FAILED"], "FAILED")
         \/ Ignored(i, up)

\* The slot when a stream on its connection ends: its own stream, or one that
\* the holder opened there, which find_slot_by_conn gives to the slot too.
StreamEnded(i) ==
  (IF slots[i].stream = "open" THEN {[slots[i] EXCEPT !.stream = "ended"]} ELSE {})
    \cup (IF slots[i].conn = "up" THEN {slots[i]} ELSE {})

\* STREAM_FIN: the acknowledgement.
StreamFin(i) ==
  \E s \in StreamEnded(i) :
    \/ phase = "DELIVER" /\ s.st = "AWAITING_FIN" /\ Handled(i, [s EXCEPT !.st = "ACKED"], "ACKED")
    \/ phase = "DELIVER" /\ s.st # "AWAITING_FIN" /\ Handled(i, s, "none")
    \/ Ignored(i, s)

\* Seeded fault: a close fails an acknowledged slot as well.
FailAlways(i, s) == Handled(i, [s EXCEPT !.st = "FAILED"], "FAILED")

\* A reset or a close fails every slot that is not acknowledged, a slot that has
\* already failed included.
FailUnlessAcked(i, s) ==
  IF s.st # "ACKED" THEN Handled(i, [s EXCEPT !.st = "FAILED"], "FAILED")
  ELSE Handled(i, s, "none")

\* STREAM_RESET.
StreamReset(i) ==
  \E s \in StreamEnded(i) :
    (phase = "DELIVER" /\ FailUnlessAcked(i, s)) \/ Ignored(i, s)

\* CONN_CLOSED: the slot gives up its stream and its connection.
ConnClosed(i) ==
  LET freed == [slots[i] EXCEPT !.conn = "freed",
                                !.stream = IF @ = "none" THEN @ ELSE "freed"]
      left  == [slots[i] EXCEPT !.conn = "closed",
                                !.stream = IF @ = "open" THEN "ended" ELSE @]
  IN  /\ slots[i].conn \in {"dialing", "up"}
      /\ (phase = "DELIVER" /\ FailUnlessAcked(i, freed)) \/ Ignored(i, left)

\* ants_semantic_cache_publish_destroy, in any phase.
Destroy ==
  /\ phase # "DEAD"
  /\ phase' = "DEAD"
  /\ slots' = [i \in {} |-> Empty]
  /\ acked' = 0 /\ failed' = 0

Next ==
  \/ \E n \in 0..MaxFound : HandleDhtEvent(n)
  \/ \E lost \in SUBSET DOMAIN slots : Tick(lost)
  \/ \E i \in DOMAIN slots : ConnReady(i) \/ StreamFin(i) \/ ConnClosed(i) \/ StreamReset(i)
  \/ Destroy

Spec == Init /\ [][Next]_vars

-----------------------------------------------------------------------------
(* Properties.                                                              *)

\* Every variable has its type and the replication factor bounds the slots.
TypeOK ==
  /\ phase \in {"LOOKUP", "DELIVER", "DONE", "DEAD"}
  /\ \E n \in 0..Replication : slots \in [1..n -> Slot]
  /\ acked \in Nat /\ failed \in Nat

\* peers_acked is the number of slots that a FIN acknowledged while the publish
\* was delivering, whatever resets, closes and further FINs follow on their
\* connections: none is counted twice, and none of them turns into a failure.
AckedExact == acked = Cardinality(In(slots, "ACKED"))

\* A publish that has not completed waits for something that can still happen.
WaitsForSomething ==
  phase = "DELIVER" =>
    \E i \in DOMAIN slots :
      \/ slots[i].st = "EMPTY"
      \/ slots[i].st = "DIALING" /\ slots[i].conn = "dialing"
      \/ slots[i].st = "AWAITING_FIN" /\ slots[i].stream = "open" /\ slots[i].conn = "up"

\* complete_fn is called when every slot is acknowledged or failed and not
\* before (ants_semantic_cache.h: "Once every slot is acked-or-failed, the
\* completion callback fires").
CompleteMeansEnded ==
  phase = "DONE" => \A i \in DOMAIN slots : slots[i].st \in {"ACKED", "FAILED"}
=============================================================================
