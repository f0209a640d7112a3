------------------------------ MODULE CacheQuery ------------------------------
(***************************************************************************)
(* One distributed query of the semantic cache                             *)
(* (cache/semantic/src/cache_query.c): a DHT lookup, then a connection, a  *)
(* request and a response per holder, counted until every slot has ended.  *)
(*                                                                         *)
(* The transport is the environment: it establishes and closes connections *)
(* and ends the slot's stream once, by FIN or by RESET; the holder may     *)
(* open, use and end streams of its own on the connection.  What happens   *)
(* once the query is done still happens; the query ignores it.             *)
(***************************************************************************)
EXTENDS Naturals, FiniteSets

CONSTANTS
  Fanout,       \* the fan-out asked for, at most QUERY_MAX_FANOUT
  MaxFound,     \* bound: peers a lookup returns
  OpsMayFail    \* TRUE: allocations, dials, opens and sends may fail

ASSUME FanoutAssumption ==
  Fanout \in Nat \ {0} /\ MaxFound \in Nat /\ OpsMayFail \in BOOLEAN

VARIABLES
  phase,        \* query_phase_t; "DEAD" once destroyed
  slots,        \* slots[i] for i in 1..slot_count
  responded,    \* responded_count
  failed        \* failed_count

vars == <<phase, slots, responded, failed>>

Ended == {"RESPONDED", "FAILED"}
Empty == [st |-> "EMPTY", conn |-> "none", stream |-> "none", recv |-> FALSE]
Slot  == [st : {"EMPTY", "DIALING", "AWAITING"} \cup Ended,
          conn : {"none", "dialing", "up", "closed", "freed"},
          stream : {"none", "open", "ended", "freed"},
          recv : BOOLEAN]

In(S, st) == {i \in DOMAIN S : S[i].st = st}

\* maybe_complete, as every handler of the DELIVER phase calls it last: the
\* phase it leaves, given the slots and the counters.  complete_fn is called
\* when the phase becomes DONE.
MaybeComplete(S, r, f) == IF r + f < Cardinality(DOMAIN S) THEN "DELIVER" ELSE "DONE"

-----------------------------------------------------------------------------
\* ants_semantic_cache_query_init has started the lookup.
Init ==
  /\ phase = "LOOKUP"
  /\ slots = [i \in {} |-> Empty]
  /\ responded = 0
  /\ failed = 0

\* Seeded fault: an empty result waits for a tick that never looks at it.
HandleDhtEventWaits(n) ==
  /\ phase = "LOOKUP"
  /\ slots' = [i \in 1..(IF n > Fanout THEN Fanout ELSE n) |-> Empty]
  /\ phase' = "DELIVER"
  /\ UNCHANGED <<responded, failed>>

\* Seeded fault: the peers found are not capped at the fan-out.
HandleDhtEventUncapped(n) ==
  /\ phase = "LOOKUP"
  /\ slots' = [i \in 1..n |-> Empty]
  /\ phase' = MaybeComplete(slots', 0, 0)
  /\ UNCHANGED <<responded, failed>>

\* LOOKUP_COMPLETE or LOOKUP_TIMEOUT with n peers.
HandleDhtEvent(n) ==
  /\ phase = "LOOKUP"
  /\ slots' = [i \in 1..(IF n > Fanout THEN Fanout ELSE n) |-> Empty]
  /\ phase' = MaybeComplete(slots', 0, 0)
  /\ UNCHANGED <<responded, failed>>

\* ants_semantic_cache_query_tick: every empty slot is dialled; the dials in
\* `lost` fail.
Tick(lost) ==
  /\ phase = "DELIVER"
  /\ lost \subseteq In(slots, "EMPTY") /\ (OpsMayFail \/ lost = {})
  /\ slots' = [i \in DOMAIN slots |->
                 IF i \in lost THEN [slots[i] EXCEPT !.st = "FAILED"]
                 ELSE IF slots[i].st = "EMPTY"
                      THEN [slots[i] EXCEPT !.st = "DIALING", !.conn = "dialing"]
                      ELSE slots[i]]
  /\ failed' = failed + Cardinality(lost)
  /\ phase' = MaybeComplete(slots', responded, failed')
  /\ UNCHANGED responded

\* The end of a handler that ran for slot i: s is the slot, and `what` is what
\* it counted, if anything.
Handled(i, s, what) ==
  /\ slots' = [slots EXCEPT ![i] = s]
  /\ responded' = responded + (IF what = "RESPONDED" THEN 1 ELSE 0)
  /\ failed' = failed + (IF what = "FAILED" THEN 1 ELSE 0)
  /\ phase' = MaybeComplete(slots', responded', failed')

\* The transport moves on and the query, done or destroyed, does not look.
Ignored(i, s) ==
  /\ phase = "DONE"
  /\ slots' = [slots EXCEPT ![i] = s]
  /\ UNCHANGED <<phase, responded, failed>>

\* CONN_READY: open a stream and send the request; either may fail.
ConnReady(i) ==
  LET up == [slots[i] EXCEPT !.conn = "up"]
  IN  /\ slots[i].conn = "dialing"
      /\ \/ /\ phase = "DELIVER"
            /\ \/ Handled(i, [up EXCEPT !.st = "AWAITING", !.stream = "open"], "none")
               \/ OpsMayFail /\ Handled(i, [up EXCEPT !.st = "FAILED"], "FAILED")
         \/ Ignored(i, up)

\* STREAM_READABLE: bytes are kept, or the response outgrows its buffer.  The
\* slot is found by connection, so a stream the holder opened counts as well.
StreamReadable(i) ==
  /\ phase = "DELIVER" /\ slots[i].conn = "up" /\ slots[i].st = "AWAITING"
  /\ \/ Handled(i, [slots[i] EXCEPT !.recv = TRUE], "none")
     \/ Handled(i, [slots[i] EXCEPT !.st = "FAILED"], "FAILED")

\* The slot when a stream on its connection ends: its own stream, or one that
\* the holder opened there, which find_slot_by_conn gives to the slot too.
StreamEnded(i) ==
  (IF slots[i].stream = "open" THEN {[slots[i] EXCEPT !.stream = "ended"]} ELSE {})
    \cup (IF slots[i].conn = "up" THEN {slots[i]} ELSE {})

\* Seeded fault: a response that does not decode is not counted.
StreamFinLoses(i) ==
  \E s \in StreamEnded(i) :
    \/ /\ phase = "DELIVER" /\ s.st = "AWAITING"
       /\ \/ s.recv /\ Handled(i, [s EXCEPT !.st = "RESPONDED"], "RESPONDED")
          \/ Handled(i, [s EXCEPT !.st = "FAILED"], "none")
    \/ phase = "DELIVER" /\ s.st # "AWAITING" /\ Handled(i, s, "none")
    \/ Ignored(i, s)

\* STREAM_FIN: decode_slot_response; no bytes at all is a failure.
StreamFin(i) ==
  \E s \in StreamEnded(i) :
    \/ /\ phase = "DELIVER" /\ s.st = "AWAITING"
       /\ \/ s.recv /\ Handled(i, [s EXCEPT !.st = "RESPONDED"], "RESPONDED")
          \/ Handled(i, [s EXCEPT !.st = "FAILED"], "FAILED")
    \/ phase = "DELIVER" /\ s.st # "AWAITING" /\ Handled(i, s, "none")
    \/ Ignored(i, s)

\* Seeded fault: a slot that already failed fails again (the guard of the
\* publish side).
FailUnlessAnswered(i, s) ==
  IF s.st # "RESPONDED" THEN Handled(i, [s EXCEPT !.st = "FAILED"], "FAILED")
  ELSE Handled(i, s, "none")

\* A reset or a close fails a slot that has not ended.
FailUnlessEnded(i, s) ==
  IF s.st \notin Ended THEN Handled(i, [s EXCEPT !.st = "FAILED"], "FAILED")
  ELSE Handled(i, s, "none")

\* STREAM_RESET.
StreamReset(i) ==
  \E s \in StreamEnded(i) :
    (phase = "DELIVER" /\ FailUnlessEnded(i, s)) \/ Ignored(i, s)

\* CONN_CLOSED: the slot gives up its stream and its connection.
ConnClosed(i) ==
  LET freed == [slots[i] EXCEPT !.conn = "freed",
                                !.stream = IF @ = "none" THEN @ ELSE "freed"]
      left  == [slots[i] EXCEPT !.conn = "closed",
                                !.stream = IF @ = "open" THEN "ended" ELSE @]
  IN  /\ slots[i].conn \in {"dialing", "up"}
      /\ (phase = "DELIVER" /\ FailUnlessEnded(i, freed)) \/ Ignored(i, left)

\* ants_semantic_cache_query_destroy, in any phase: the lookup is cancelled,
\* every slot released.
Destroy ==
  /\ phase # "DEAD"
  /\ phase' = "DEAD"
  /\ slots' = [i \in {} |-> Empty]
  /\ responded' = 0 /\ failed' = 0

Next ==
  \/ \E n \in 0..MaxFound : HandleDhtEvent(n)
  \/ \E lost \in SUBSET DOMAIN slots : Tick(lost)
  \/ \E i \in DOMAIN slots : \/ ConnReady(i) \/ StreamReadable(i) \/ StreamFin(i)
                             \/ StreamReset(i) \/ ConnClosed(i)
  \/ Destroy

Spec == Init /\ [][Next]_vars

-----------------------------------------------------------------------------
(* Properties.                                                              *)

\* Every variable has its type and the fan-out bounds the slots.
TypeOK ==
  /\ phase \in {"LOOKUP", "DELIVER", "DONE", "DEAD"}
  /\ \E n \in 0..Fanout : slots \in [1..n -> Slot]
  /\ responded \in Nat /\ failed \in Nat

\* The two counters are the slots that ended each way, so no order of FIN,
\* RESET and CONN_CLOSED on one slot counts it twice or not at all
\* (handle_transport_event's guards).
CountsExact ==
  /\ responded = Cardinality(In(slots, "RESPONDED"))
  /\ failed = Cardinality(In(slots, "FAILED"))

\* complete_fn is called when every slot has ended and not before.
CompleteMeansEnded ==
  phase = "DONE" => \A i \in DOMAIN slots : slots[i].st \in Ended

\* A query that has not completed waits for something that can still happen:
\* the tick that dials an empty slot, a connection being established, or the end
\* of an open stream.  No slot ends without maybe_complete seeing it.
WaitsForSomething ==
  phase = "DELIVER" =>
    \E i \in DOMAIN slots :
      \/ slots[i].st = "EMPTY"
      \/ slots[i].st = "DIALING" /\ slots[i].conn = "dialing"
      \/ slots[i].st = "AWAITING" /\ slots[i].stream = "open" /\ slots[i].conn = "up"
=============================================================================
