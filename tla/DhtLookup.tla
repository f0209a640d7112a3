------------------------------ MODULE DhtLookup ------------------------------
(***************************************************************************)
(* The iterative lookup of the DHT (network/dht/src/dht_lookup.c) with the *)
(* request slots (dht_rpc.c), lazy dials and connection ownership (dht.c)  *)
(* it runs over, on one node that neither refreshes nor re-announces       *)
(* (refresh_interval_ms = announce_republish_ms = 0).                      *)
(*                                                                         *)
(* A peer is its rank by XOR distance from the lookup target.  Heap        *)
(* connections are numbered in the order they are dialled and never        *)
(* reused, so a number that outlives its connection is a dangling pointer. *)
(* A pending request carries the address of its completion record as       *)
(* <<handle, record>>: restarting a lookup in the same handle brings the   *)
(* same addresses back.                                                    *)
(***************************************************************************)
EXTENDS Naturals, FiniteSets, SequencesExt

CONSTANTS
  NumPeers,        \* peers are 1..NumPeers, nearest to the target first
  Self,            \* this node's own identity, which responses may name
  Seeds,           \* peers bootstrapped before the first lookup
  Dialable,        \* peers whose multiaddr is known
  TableOrder,      \* the peers in the order of their buckets, one to a bucket
  Handle,          \* caller-owned lookup buffers
  NoHandle,        \* an empty registry slot; the context of a disarmed request
  Absent,          \* a peer that is not in the routing table
  Response,        \* the peer lists a GET_PEERS response may carry
  Alpha,           \* ANTS_DHT_LOOKUP_INFLIGHT_CAP
  CandidateCap,    \* ANTS_DHT_LOOKUP_CANDIDATE_CAP
  MaxLookups,      \* ANTS_DHT_MAX_ACTIVE_LOOKUPS
  MaxDials,        \* ANTS_DHT_MAX_PENDING_DIALS
  MaxOwned,        \* ANTS_DHT_MAX_OWNED_CONNS
  HasDeadline,     \* lookup_deadline_ms # 0
  SendMayFail,     \* TRUE: ants_dht_rpc_send_get_peers may report an error
  HandlerRestarts, \* TRUE: the event callback may start the next lookup
  ProbeChoices,    \* the is_probe arguments callers pass
  MaxConns,        \* bound: connections ever dialled; past it dialling fails
  MaxStarts        \* bound: lookups ever started

Peer   == 1..NumPeers
ConnId == 1..MaxConns
NoConn == 0

ASSUME Sizes ==
  /\ {NumPeers, Alpha, CandidateCap, MaxLookups} \subseteq Nat \ {0}
  /\ {MaxDials, MaxOwned, MaxConns, MaxStarts} \subseteq Nat
  /\ Self \in Peer /\ Seeds \subseteq Peer \ {Self} /\ Dialable \subseteq Peer
  /\ Cardinality(Seeds) <= MaxConns /\ Cardinality(Handle) <= MaxLookups
  /\ Len(TableOrder) = NumPeers /\ ToSet(TableOrder) = Peer
  /\ Response \subseteq Seq(Peer) /\ ProbeChoices \subseteq BOOLEAN
  /\ {HasDeadline, SendMayFail, HandlerRestarts} \subseteq BOOLEAN

VARIABLES
  d,         \* struct ants_dht_state, the caller-owned lookup buffers, which
             \* lookups are past their deadline and how many were started
  reached    \* history: the peers a connection was ever established with

vars == <<d, reached>>

NoRecs  == [r \in 1..Alpha |-> 0]
Idle    == [on |-> FALSE, probe |-> FALSE, cands |-> <<>>,
            recs |-> NoRecs, inflight |-> 0]
NewConn == [peer |-> Self, st |-> "none", at |-> "none"]

SetLookup(e, h, L) == [e EXCEPT !.lk[h] = L]

Active(e) == {h \in Handle : e.lk[h].on}

-----------------------------------------------------------------------------
(* Candidates.                                                              *)

\* cand_insert_sorted: a known candidate may gain a connection, a full set
\* drops the newcomer.
CandInsert(cs, p, c) ==
  LET at    == SelectInSeq(cs, LAMBDA x : x.peer = p)
      above == SelectInSeq(cs, LAMBDA x : p < x.peer)
  IN  IF p = Self THEN cs
      ELSE IF at # 0 THEN IF cs[at].conn = NoConn THEN [cs EXCEPT ![at] = [cs[at] EXCEPT !.conn = c]] ELSE cs
      ELSE IF Len(cs) = CandidateCap THEN cs
      ELSE InsertAt(cs, IF above = 0 THEN Len(cs) + 1 ELSE above,
                    [peer |-> p, conn |-> c, st |-> "UNQUERIED"])

\* The peers a response names come without a connection.
CandInsertAll(cands, named) ==
  FoldLeft(LAMBDA cs, p : CandInsert(cs, p, NoConn), cands, named)

\* seed_candidates_from_routing: bucket by bucket, whatever the target.
SeedCandidates(table) ==
  FoldLeft(LAMBDA cs, p : CandInsert(cs, p, table[p]), <<>>,
           SelectSeq(TableOrder, LAMBDA p : table[p] # Absent))

\* Applied to every candidate of every active lookup.
MapCands(e, F(_)) ==
  LET Mapped(cs) == [i \in DOMAIN cs |-> F(cs[i])]
  IN  [e EXCEPT !.lk = [h \in Handle |->
         IF e.lk[h].on THEN [e.lk[h] EXCEPT !.cands = Mapped(e.lk[h].cands)] ELSE e.lk[h]]]

-----------------------------------------------------------------------------
(* The registry of active lookups.                                          *)

FirstSlot(e, h) ==
  LET S == {s \in 1..MaxLookups : e.active[s] = h}
  IN  IF S = {} THEN 0 ELSE CHOOSE s \in S : \A t \in S : s <= t

\* Seeded fault: every slot of the handle is cleared, the restarted lookup's too.
UnregisterAll(e, h) ==
  [e EXCEPT !.active = [s \in 1..MaxLookups |-> IF e.active[s] = h THEN NoHandle ELSE e.active[s]]]

\* unregister_lookup: the first slot that points at the handle.
Unregister(e, h) ==
  LET s == FirstSlot(e, h)
  IN  IF s = 0 THEN e ELSE [e EXCEPT !.active[s] = NoHandle]

\* Seeded fault: the records are invalidated and the requests stay armed.
DisarmNothing(e, h) == SetLookup(e, h, [e.lk[h] EXCEPT !.recs = NoRecs])

\* Invalidate the in-flight records; disarm_pending_rpcs.
Disarm(e, h) ==
  [SetLookup(e, h, [e.lk[h] EXCEPT !.recs = NoRecs]) EXCEPT
     !.rpc = {IF x.h = h THEN [x EXCEPT !.h = NoHandle, !.rec = 0] ELSE x : x \in e.rpc}]

CanStart(e, h) == ~e.lk[h].on /\ e.starts < MaxStarts /\ FirstSlot(e, NoHandle) # 0

\* ants_dht_lookup_start on a handle no active lookup occupies.
LookupStart(e, h, probe) ==
  LET seeded == SeedCandidates(e.table)
  IN  [e EXCEPT !.active[FirstSlot(e, NoHandle)] = h,
                !.late = e.late \ {h}, !.starts = e.starts + 1,
                !.lk[h] = [Idle EXCEPT !.on = TRUE, !.probe = probe, !.cands = seeded]]

\* dht_routing_upsert with room in the bucket: a known peer only ever gains a
\* connection.
Upsert(table, p, c) ==
  IF p # Self /\ (table[p] = Absent \/ c # NoConn) THEN [table EXCEPT ![p] = c] ELSE table

\* The fold of a probe's ANSWERED candidates into the routing table.
FoldAnswered(e, h) ==
  [e EXCEPT !.table =
     FoldLeft(LAMBDA t, c : Upsert(t, c.peer, c.conn), e.table,
              SelectSeq(e.lk[h].cands, LAMBDA c : c.st = "ANSWERED"))]

\* finish_lookup: completed, the fold, the event - whose callback may start the
\* next lookup in the same handle - and only then the clean-up.
Finish(e, h) ==
  LET done    == SetLookup(IF e.lk[h].probe THEN FoldAnswered(e, h) ELSE e, h,
                           [e.lk[h] EXCEPT !.on = FALSE])
      handled == {done} \cup
        (IF HandlerRestarts /\ CanStart(done, h)
         THEN {LookupStart(done, h, probe) : probe \in ProbeChoices} ELSE {})
  IN  {Unregister(Disarm(after, h), h) : after \in handled}

-----------------------------------------------------------------------------
(* lookup_advance.                                                          *)

WithState(cs, i, st) == [cs EXCEPT ![i] = [cs[i] EXCEPT !.st = st]]
SetCand(e, h, i, st) ==
  SetLookup(e, h, [e.lk[h] EXCEPT !.cands = WithState(e.lk[h].cands, i, st)])

InDial(e) == {c \in ConnId : e.conn[c].at \in {"dial", "pinned"}}
Unused(e) == {c \in ConnId : e.conn[c].st = "none"}

\* Seeded fault: the search for a dial slot runs one past the table.
CanDialOver(e, p) ==
  p \in Dialable /\ Cardinality(InDial(e)) <= MaxDials /\ Unused(e) # {}

\* try_dial_promote: a multiaddr, a free slot, and a connection to be had.
CanDial(e, p) ==
  p \in Dialable /\ Cardinality(InDial(e)) < MaxDials /\ Unused(e) # {}

Dial(e, h, i) ==
  LET c == CHOOSE c \in Unused(e) : \A x \in Unused(e) : c <= x
  IN  SetCand([e EXCEPT !.conn[c] = [peer |-> e.lk[h].cands[i].peer,
                                      st |-> "dialing", at |-> "dial"]], h, i, "INFLIGHT_DIAL")

\* issue_rpc_for_candidate: the record keeps the candidate's index.
Issue(e, h, i) ==
  LET cand == e.lk[h].cands[i]
      rec  == CHOOSE r \in 1..Alpha : e.lk[h].recs[r] = 0
      L    == [e.lk[h] EXCEPT !.recs = [e.lk[h].recs EXCEPT ![rec] = i],
                              !.inflight = e.lk[h].inflight + 1]
      sent == [SetLookup(e, h, L) EXCEPT
                 !.rpc = e.rpc \cup {[conn |-> cand.conn, h |-> h, rec |-> rec]}]
  IN  IF cand.conn = NoConn
      THEN {IF CanDial(e, cand.peer) THEN Dial(e, h, i) ELSE SetCand(e, h, i, "FAILED")}
      ELSE {SetCand(sent, h, i, "INFLIGHT")} \cup
           (IF SendMayFail THEN {SetCand(e, h, i, "FAILED")} ELSE {})

\* Ask the nearest unqueried candidate until Alpha requests are in flight.
RECURSIVE IssueAll(_, _)
IssueAll(e, h) ==
  LET i == SelectInSeq(e.lk[h].cands, LAMBDA c : c.st = "UNQUERIED")
  IN  IF h \in e.late \/ e.lk[h].inflight >= Alpha \/ i = 0 THEN {e}
      ELSE UNION {IssueAll(x, h) : x \in Issue(e, h, i)}

Converged(L) ==
  L.inflight = 0 /\ \A i \in DOMAIN L.cands : L.cands[i].st \notin {"UNQUERIED", "INFLIGHT_DIAL"}

\* Seeded fault: the deadline only stops new requests.
AdvanceNoTimeout(e, h) ==
  UNION {IF Converged(x.lk[h]) THEN Finish(x, h) ELSE {x} : x \in IssueAll(e, h)}

Advance(e, h) ==
  UNION {IF Converged(x.lk[h]) \/ h \in e.late THEN Finish(x, h) ELSE {x} :
           x \in IssueAll(e, h)}

\* ants_dht_lookup_advance_all, from slot s on.
RECURSIVE AdvanceAll(_, _)
AdvanceAll(e, s) ==
  IF s > MaxLookups THEN {e}
  ELSE IF e.active[s] = NoHandle \/ ~e.lk[e.active[s]].on THEN AdvanceAll(e, s + 1)
  ELSE UNION {AdvanceAll(x, s + 1) : x \in Advance(e, e.active[s])}

-----------------------------------------------------------------------------
(* Completions (on_rpc_complete through dht_rpc.c's slots).                 *)

\* The slot is released before its completion runs.
Release(e, x) == [e EXCEPT !.rpc = @ \ {x}]

\* on_rpc_complete: the record's index says which candidate is resolved; past
\* the end of the candidates the response is dropped.
Complete(e, x, st, resp) ==
  IF x.h = NoHandle \/ e.lk[x.h].recs[x.rec] = 0 THEN e
  ELSE LET L == e.lk[x.h]
           i == L.recs[x.rec]
           C == IF i > Len(L.cands) THEN L.cands
                ELSE CandInsertAll(WithState(L.cands, i, st), resp)
       IN  SetLookup(e, x.h, [L EXCEPT !.recs = [L.recs EXCEPT ![x.rec] = 0],
                                       !.inflight = L.inflight - 1,
                                       !.cands = C])

\* rpc CONN_CLOSED: every request on the connection fails, slot by slot.
RECURSIVE FailRpcs(_, _)
FailRpcs(e, S) ==
  IF S = {} THEN e
  ELSE LET x == CHOOSE x \in S : TRUE
       IN  FailRpcs(Complete(Release(e, x), x, "FAILED", <<>>), S \ {x})

-----------------------------------------------------------------------------
(* Connections.                                                             *)

OwnedFull(e) == Cardinality({c \in ConnId : e.conn[c].at = "owned"}) >= MaxOwned

\* owned_conn_adopt of a connection that closes: freed at the next tick, or
\* parked in its old slot when the registry is full.
AdoptClosed(e, c) ==
  [e EXCEPT !.conn[c] = [peer |-> e.conn[c].peer, st |-> "closed",
     at |-> IF e.conn[c].at = "owned" \/ ~OwnedFull(e) THEN "owned" ELSE "parked"]]

\* handle_bootstrap_conn_closed: the routing entries let go of c.
ForgetInTable(e, c) ==
  [e EXCEPT !.table = [p \in Peer |-> IF e.table[p] = c THEN NoConn ELSE e.table[p]]]

\* Seeded fault: candidates keep the connection that closed.
ForgetNowhere(e, c) == e

\* ants_dht_lookup_invalidate_conn: the candidates of active lookups let go of c.
ForgetConn(e, c) ==
  MapCands(e, LAMBDA x : IF x.conn = c THEN [x EXCEPT !.conn = NoConn] ELSE x)

\* Seeded fault: lookups waiting for a dial that failed are not told.
FailNobody(e, p) == e

\* ants_dht_lookup_fail_dialing_candidates.
FailDialing(e, p) ==
  MapCands(e, LAMBDA x : IF x.st = "INFLIGHT_DIAL" /\ x.peer = p
                         THEN [x EXCEPT !.st = "FAILED"] ELSE x)

\* ants_dht_lookup_promote_dialed_peer.
PromoteDialed(e, p, c) ==
  MapCands(e, LAMBDA x : IF x.st = "INFLIGHT_DIAL" /\ x.peer = p
                         THEN [x EXCEPT !.st = "UNQUERIED", !.conn = c] ELSE x)

-----------------------------------------------------------------------------
(* Actions.                                                                 *)

SeedConn(p) == 1 + Cardinality({q \in Seeds : q < p})

Init ==
  /\ d = [lk     |-> [h \in Handle |-> Idle],
          active |-> [s \in 1..MaxLookups |-> NoHandle],
          rpc    |-> {},
          conn   |-> [c \in ConnId |->
                        IF c > Cardinality(Seeds) THEN NewConn
                        ELSE [peer |-> CHOOSE p \in Seeds : SeedConn(p) = c,
                              st |-> "up", at |-> "boot"]],
          table  |-> [p \in Peer |-> IF p \in Seeds THEN SeedConn(p) ELSE Absent],
          late   |-> {},
          starts |-> 0]
  /\ reached = Seeds

\* ants_dht_lookup / ants_dht_probe; a full registry refuses.
Start(h, probe) ==
  /\ CanStart(d, h)
  /\ d' = LookupStart(d, h, probe)
  /\ UNCHANGED reached

\* ants_dht_lookup_do_cancel.
Cancel(h) ==
  /\ d.lk[h].on
  /\ d' = Unregister(Disarm(SetLookup(d, h, [d.lk[h] EXCEPT !.on = FALSE]), h), h)
  /\ UNCHANGED reached

\* owned_conn_reap.
Reap(e) ==
  [e EXCEPT !.conn = [c \in ConnId |->
     IF e.conn[c].at = "owned" /\ e.conn[c].st = "closed"
     THEN [e.conn[c] EXCEPT !.at = "freed"] ELSE e.conn[c]]]

\* ants_dht_tick: reap, then advance every active lookup.
Tick == d' \in AdvanceAll(Reap(d), 1) /\ UNCHANGED reached

\* A response arrives whole: the request's stream is finished and decodes.
Respond(x, resp) ==
  /\ d' = Complete(Release(d, x), x, "ANSWERED", resp)
  /\ UNCHANGED reached

\* The stream is reset, or what arrived does not decode.
FailRpc(x) ==
  /\ d' = Complete(Release(d, x), x, "FAILED", <<>>)
  /\ UNCHANGED reached

\* CONN_READY of a lazy dial (handle_pending_dial_conn_ready).
ConnReady(c) ==
  LET p == d.conn[c].peer
      e == [d EXCEPT !.table = Upsert(d.table, p, c),
                     !.conn[c] = [peer |-> p, st |-> "up",
                                  at |-> IF OwnedFull(d) THEN "pinned" ELSE "owned"]]
  IN  /\ d.conn[c].st = "dialing"
      /\ d' = PromoteDialed(e, p, c)
      /\ reached' = reached \cup {p}

\* CONN_CLOSED, whoever closed: table, dial slot, lookups, owner, then requests.
ConnClosed(c) ==
  LET off     == ForgetInTable(d, c)
      waiting == IF d.conn[c].at = "dial" THEN FailDialing(off, d.conn[c].peer) ELSE off
      cut     == AdoptClosed(ForgetConn(waiting, c), c)
  IN  /\ d.conn[c].st \in {"dialing", "up"}
      /\ d' = FailRpcs(cut, {x \in cut.rpc : x.conn = c})
      /\ UNCHANGED reached

\* The clock passes an active lookup's deadline.
DeadlinePasses(h) ==
  /\ HasDeadline /\ h \in Active(d) \ d.late
  /\ d' = [d EXCEPT !.late = @ \cup {h}]
  /\ UNCHANGED reached

Next ==
  \/ \E h \in Handle : Cancel(h) \/ DeadlinePasses(h) \/ \E p \in ProbeChoices : Start(h, p)
  \/ Tick
  \/ \E x \in d.rpc : FailRpc(x) \/ \E resp \in Response : Respond(x, resp)
  \/ \E c \in ConnId : ConnReady(c) \/ ConnClosed(c)

Spec == Init /\ [][Next]_vars

\* The daemon's loop ticks the DHT forever and the clock runs.
Clocked == Spec /\ WF_vars(Tick) /\ \A h \in Handle : WF_vars(DeadlinePasses(h))

-----------------------------------------------------------------------------
(* Properties.                                                              *)

CandState == {"UNQUERIED", "INFLIGHT", "ANSWERED", "FAILED", "INFLIGHT_DIAL"}

Candidate == [peer : Peer \ {Self}, conn : ConnId \cup {NoConn}, st : CandState]

\* Every field has its type; the candidate set, the registry, the dial slots and
\* the owned-connection registry never hold more than they have slots.
TypeOK ==
  /\ \A h \in Handle :
       LET L == d.lk[h]
       IN  /\ L.on \in BOOLEAN /\ L.probe \in BOOLEAN
           /\ Len(L.cands) <= CandidateCap
           /\ \A i \in DOMAIN L.cands : L.cands[i] \in Candidate
           /\ L.recs \in [1..Alpha -> 0..CandidateCap] /\ L.inflight \in 0..Alpha
  /\ d.active \in [1..MaxLookups -> Handle \cup {NoHandle}]
  /\ d.rpc \subseteq [conn : ConnId, h : Handle \cup {NoHandle}, rec : 0..Alpha]
  /\ \A c \in ConnId :
       /\ d.conn[c].peer \in Peer
       /\ d.conn[c].st \in {"none", "dialing", "up", "closed"}
       /\ d.conn[c].at \in {"none", "boot", "dial", "pinned", "owned", "parked", "freed"}
  /\ d.table \in [Peer -> ConnId \cup {NoConn, Absent}] /\ d.table[Self] = Absent
  /\ Cardinality(InDial(d)) <= MaxDials
  /\ Cardinality({c \in ConnId : d.conn[c].at = "owned"}) <= MaxOwned
  /\ d.late \subseteq Handle /\ d.starts \in 0..MaxStarts /\ reached \subseteq Peer

\* The request slots and the completion records of the lookups agree: every
\* armed slot belongs to an active lookup and to a valid record of its own, and
\* inflight_count counts them.  So a straggler of an earlier lookup - timed out,
\* cancelled, or restarted from inside its own terminal event - never completes
\* against the next lookup in the same buffer (disarm_pending_rpcs).
RecordsMatch ==
  \A h \in Handle :
    LET armed == {x \in d.rpc : x.h = h}
        valid == {r \in 1..Alpha : d.lk[h].recs[r] # 0}
    IN  /\ {x.rec : x \in armed} = valid
        /\ Cardinality(armed) = Cardinality(valid)
        /\ d.lk[h].on => d.lk[h].inflight = Cardinality(valid)
        /\ ~d.lk[h].on => armed = {}

\* Every borrowed connection pointer - of a routing entry, of an active lookup's
\* candidate, of a pending request - is to a connection that is up and not
\* freed, whichever callback closed which connection in whatever state
\* (owned_conn_reap may free it at the next tick).
NoStaleConn ==
  LET usable == {c \in ConnId : d.conn[c].st = "up" /\ d.conn[c].at # "freed"}
  IN  /\ \A p \in Peer : d.table[p] \in usable \cup {NoConn, Absent}
      /\ \A h \in Active(d) : \A i \in DOMAIN d.lk[h].cands :
           d.lk[h].cands[i].conn \in usable \cup {NoConn}
      /\ \A x \in d.rpc : x.conn \in usable

\* A lookup is advanced from exactly one registry slot while it runs and from
\* none afterwards, also when its terminal event starts the next one in the
\* same handle (finish_lookup unregisters after the callback).
RegisteredOnce ==
  \A h \in Handle :
    Cardinality({s \in 1..MaxLookups : d.active[s] = h}) = IF d.lk[h].on THEN 1 ELSE 0

\* A candidate waits for a dial only while a dial to that peer is under way, so
\* convergence (which waits for INFLIGHT_DIAL) is never blocked for good, even
\* when two lookups dial one peer and one of the dials fails.
NoDialStranded ==
  \A h \in Active(d) : \A i \in DOMAIN d.lk[h].cands :
    d.lk[h].cands[i].st = "INFLIGHT_DIAL" =>
      \E c \in ConnId : /\ d.conn[c].peer = d.lk[h].cands[i].peer
                         /\ d.conn[c].st = "dialing" /\ d.conn[c].at = "dial"

\* Every lookup comes to an end, by its deadline when nobody answers: no peer is
\* assumed to respond, and requests have no timeout of their own.
Terminates == \A h \in Handle : d.lk[h].on ~> ~d.lk[h].on

\* "peers merely NAMED in responses never enter the table" (dht_lookup.c:232):
\* the routing table only holds peers a connection was established with.
TableHoldsReached == \A p \in Peer : d.table[p] # Absent => p \in reached
=============================================================================
