# A TLA+ model of ants-client

The reference client of the ANTS protocol, modelled in TLA+, model-checked with
TLC and, for the part everything else stands on, proved with TLAPS.

## 1. The system

`antsd` is one process with one thread. Its loop (`cmd/antsd/run.c`) steps the
QUIC transport, which calls back into the event router; the router offers every
event to the DHT, the gossip binding, the attestation exchange and the inference
exchange in turn; between steps it ticks the DHT, the inference exchange and the
L2 chain. Concurrency is therefore between *nodes* (frames, loss, reordering,
restarts, clocks that disagree) and, inside a node, between *callbacks* of
several connections and streams that interleave over fixed-size tables.

| Part | Source | State it owns | Operations |
|---|---|---|---|
| L2 block production | `reputation/chain/src/chain_runtime.c` | head, attempt, proposal and attestation tables, last signed height | init, tick, on_proposal, on_attestation |
| L2 algorithms | `reputation/chain/src/chain.c` | none | committee, proposer, finality, fork choice, beacon, epoch summary |
| chain glue | `cmd/antsd/chain.c` | the runtime, a fault-set view | start, tick, frame dispatch |
| Layer-1 fault set | `reputation/crdt/src/crdt.c` | proofs, retired subjects, floor | insert, merge, prune, snapshot |
| gossip | `network/gossip/src/gossip.c`, `gossip_transport.c` | peers, rejects, dedup ring, streams | submit, push, ihave/iwant, chain relay, peer view |
| DHT | `network/dht/src/*.c` | buckets, lookups, RPC slots, announces, owned connections | lookup/probe, refresh, bootstrap, announce, serve |
| transport | `network/transport/src/transport.c` | connections, streams, receive buffers | dial, open, send, recv, close, callbacks |
| attestation exchange | `network/attest/src/attest.c` | outbound, inbound, verdicts | request, answer, conclude, close |
| inference exchange | `inference/exchange/src/infer.c` | outbound, inbound | request, answer, timeout, close |
| semantic cache | `cache/semantic/src/*.c` | entries with LRU and quality; publish and query fan-outs | put, get, top-k, publish, query, serve |
| economy | `economy/ledger`, `economy/bond` | per-peer records, bonds | credit, unchoke round; admit, release, slash |
| reputation | `reputation/identity/src/reputation.c` | none (pure over receipts) | compute, bind, verify |
| inference | `inference/orchestration`, `inference/kernels` | audit state | commit, challenge, audit |
| daemon | `cmd/antsd/run.c` | a copy of the gossip peers, the probe | route, refresh, teardown |
| foundation, embedding, codecs | `foundation/*`, `cache/embedding/*`, `*_wire.c` | none | pure functions over bytes or floats |

What makes the system hard: a restarted daemon forgets what it signed; frames
are lost, repeated and reordered and there are no acknowledgements; every table
is fixed-size and evicts; handlers re-enter the engine from their callbacks;
pointers to connections are kept while connections close; and a completion may
arrive for a request whose slot was reused. `PROJECT.json` lists these hazards
at their lines.

## 2. Modules

| Module | Models | Checked by | Proved in |
|---|---|---|---|
| `ChainRuntime` | the block-production runtime of every node, and the frames between them | `MCChainRuntime` with `ChainTables`, `ChainRestart`, `ChainRestartEver` | `ChainRuntimeLemmas`, `ChainRuntimeSteps`, `ChainRuntimeProofs` |
| `ChainFinality` | what the runtime promises: a growing tree of final blocks | as `Refinement` in `ChainRestart` | `ChainRefinementProofs` |
| `ChainTimely` | `ChainRuntime` under the schedule of the daemon's loop | `MCChainTimely` with `ChainProgress`, `ChainCatchUp`, `ChainCatchUpTwo` | (liveness) |
| `DhtLookup` | the iterative lookup over request slots, lazy dials and owned connections | `MCDhtLookup` with `DhtLookupReuse`, `DhtLookupConns`, `DhtLookupFold` | (recursive) |
| `CacheQuery` | one distributed query of the semantic cache | `CacheQuery.cfg` | `CacheQueryProofs` |
| `CachePublish` | one publish of the semantic cache | `CachePublish.cfg`, `CachePublishDone.cfg` | |

Definitions named "Seeded fault" are plausible bugs of the definition that
follows them. No specification uses them; each one replaces that definition in a
run that must then fail, which shows that the property can fail.

### 2.1 The L2 chain

*State.* `rt[n]` is `struct rt_state`: `head`, the attempt (`h`, `start`, `cur`,
`lastEmit`), `lastSigned`, and the two tables `props` and `atts`. A block is a
record that embeds its parent, so that equality of blocks is equality of hashes.
`view[n]` is what the Layer-1 view callback reports, `net` the frames in flight.
`signed` and `restarted` are history.

*Actions.* `Tick` is `ants_chain_rt_tick`: the skip test, then the proposer's
composition, signature and broadcast, or the re-broadcast; its cases are one
disjunct each. `OnProposal` and `OnAttestation` are the two frame handlers, each
with the `try_finalize` that ends it. `Restart` is a daemon restart: antsd
persists nothing of the runtime, so `chain_begin` starts from genesis.
`AdvanceTime` and `LearnProof` are the environment. A frame in `net` need never be
delivered, so a loss needs no action of its own; `ChainTimely`, where deliveries
are fair, has `Lose`.

*Left open on purpose.* Which entry a full attestation file gives up, which of
several equally high final proposals is adopted, and what the committee draw
returns (`Draw`, any K trustees per parent and height). The proofs hold for
every choice. `Broadcast` stands for the fan-out and the relays of `handle_chain`:
a frame is on its way to every running node, and with `Relayback` also to its own
sender, as happens past the dedup window or to a node whose restart emptied it.
Signatures are not forged: an attestation in `net` was sent by its signer. Its
height is not part of what is signed; a copy re-labelled with another height,
which `on_attestation` would file if it came first, is not modelled.

*Final blocks form a tree.* A skipped attempt leaves the head where it is, so two
final blocks of different heights may share a parent; `ChainFinality` states what
does hold: parents are final, heights and cutoffs rise, and no parent-and-height
slot is filled twice.

### 2.2 The DHT lookup

`d` is the part of `struct ants_dht_state` the lookup touches, with the
caller-owned lookup buffers: candidates in distance order, completion records,
the registry of active lookups, request slots, connections with their owner
(bootstrap, dial slot, owned registry), and the routing table's borrowed
pointers. A peer is its rank by XOR distance; the buckets hold the peers in an
order of their own (`TableOrder`), in which a lookup is seeded. Connections are
numbered and never reused, so that a stale pointer is visible; a request names
its completion record by address, and a restarted lookup brings the same
addresses back, as in the code. The instances let a response name any peer or
none, dials fail, the connection table fill, and the terminal event's handler
start the next lookup.

Not in this module: refresh pings and republishing (both intervals are zero),
full buckets (K = 20 exceeds the peers), several targets at once (every lookup
sees one distance order), and a caller that restarts a handle still active.

### 2.3 Publish and query

Each slot is the status of the code with what the transport holds for it: a
connection and a stream. The transport establishes a connection or closes it, and
ends the slot's stream once, by FIN or RESET; a holder may also open, use and end
streams of its own on the connection, whose events `find_slot_by_conn` attributes
to the slot (`StreamEnded`). When the operation is done all this goes on
and the handlers return early, as `phase != DELIVER` makes them. `Tick(lost)`
is the whole dialling loop with the set of dials that failed. A decoded response
is a choice between success and failure.

## 3. What the runs show

| Run | Question | Outcome |
|---|---|---|
| `chain_restart` | a proposer restarts and composes again; a height is skipped while its frames are in flight, repeat, come back to their sender or never arrive | nobody else signs twice; two quorums cannot disagree; the tree of `ChainFinality` is implemented |
| `chain_tables` | three trustees in rotating committees of two skip attempts while frames are in flight, repeat and overtake each other; tables of two entries, failing signatures, a failing view, a fast clock | nothing overruns, `cur` never dangles, heads carry quorums, finality is never left pending and has no gap, signatures only rise |
| `chain_progress` | the first proposer is down | the attempt is skipped and a block becomes final |
| `chain_catch_up` | three trustees, one lost frame | once one node's head reaches a height, every node's does |
| `chain_restart_ever`, `chain_catch_up_two` | two sentences of the header | violated, see section 6 |
| `dht_lookup_reuse` | a handle is reused while requests of its last lookup are out | no straggler is taken for an answer; the handle is registered once; each lookup ends though no peer need answer |
| `dht_lookup_conns` | two lookups share peers while connections close | no stale pointer; nobody waits for a dial that is over |
| `dht_lookup_fold` | a sentence of a comment | violated, see section 6 |
| `cache_query` | three holders, every order of events, every local failure | each slot counted once; complete exactly when all ended; never waits for nothing |
| `cache_publish` | the same for a publish | acknowledgements are exact; never waits for nothing |
| `cache_publish_done` | a sentence of the header | violated, see section 6 |

*Bounds.* `ChainTables` has time for two heights with a skip between them and for
frames of the skipped attempt to arrive after it; its tables hold two entries, so
that the third proposal and the third attestation evict. `ChainRestart` has two
heights and time for one skip, so that a final block may rest on a final parent
or on genesis past a skipped height, and both clauses of `ChainFinality` come
into play; one restart in four trustees is the most that `Sound` allows. Its
views are equal; the theorems allow views that differ. In `ChainCatchUp` the
heights 1 and 2 of four are followed (`Followed`): a node left at an old head may
propose the next height on it in vain, and the block after that brings it along.
The theorems of section 5 lift the bounds of the safety runs. `DhtLookupReuse`
starts two lookups in one buffer, the second while requests of the first are out,
with four connections; `DhtLookupConns` lets two lookups wait for the same peers
with two dial slots and one owned slot, so that both can fill. The query and the
publish have three slots and four peers found, so that the cap applies, one slot
can be counted twice and a third still be open.

*Deadlock* is not checked: the clock, the starts and the connections are bounded,
so every instance ends. That a waiting operation has something to wait for is
stated instead (`NoDialStranded`, `WaitsForSomething`) or left to the liveness
properties.

## 4. Fairness

`ChainTimely` assumes what `run.c` does: the loop steps the transport and calls
`antsd_chain_tick` many times a second while the runtime counts whole seconds, so
every node ticks and frames arrive before the second changes. The stream from one
sender to one peer keeps its frames in order, and a sender sends its attestation
before the block; nothing orders the frames of different senders (`InOrder`).
Weak fairness is on each node's tick, each node's deliveries and the clock;
losses are not fair. `DhtLookup!Clocked` has weak fairness on the tick and on the
passing of a deadline only: nothing obliges a peer to answer.

## 5. What is proved

For all node counts, committee sizes, draws, table sizes, clock offsets, numbers
of restarts, and frames lost, repeated, reordered or brought back (the constants
with the assumptions `NodesAssumption`, `TimesAssumption`, `DrawAssumption`,
`BlockAssumption`):

| Theorem | Statement |
|---|---|
| `Invariance`, `TypeCorrect` | the inductive invariant and the types; no table overruns |
| `SignsOncePerHeight` | a node that kept its memory signs one block per height |
| `AgreementHolds` | two final blocks with equal height and committee are equal while fewer than a third of it restarted |
| `HeadsAreCertified`, `FinalityIsTaken`, `CurIsAlwaysOurs` | heads carry quorums; no final proposal is left; `cur` does not dangle |
| `AncestryHolds` | finality has no gap and keeps the block time |
| `SignaturesAlwaysRise` | action property: a signature lies on the signer's head, above all it signed |
| `ImplementsChainFinality` | the runtime implements the tree if fewer than K/3 nodes can restart |
| `CountsCorrect`, `CompletionCorrect`, `NeverStuck` | the three properties of a distributed query, for every fan-out |

*The chain's argument.* Agreement needs that two quorums of ceil(2k/3) meet in a
member that did not restart, and that such a member signed once at that height.
The second is not inductive: it needs `SignedBelow` (nothing a node signed lies
above its `lastSigned`), which needs that only a signing raises it. That heads
are certified needs `AttsGenuine` and `NetGenuine` (an attestation on file or in
flight is one its signer made) and, for the parents, `SignedGrounded` (a block
was signed on a head that was certified at the time, and certificates are never
lost). `LocalInvs` collects what one node's state keeps by itself: table sizes,
`cur` among the proposals, proposals and attestations above the head.
`ChainRuntimeLemmas` proves the helpers' effect, `ChainRuntimeSteps` one lemma
per action that reduces it to a common form of step, `ChainRuntimeProofs` that
such a step preserves each conjunct.

*The query's argument.* The counters equal the cardinalities of the status sets
(`OneSlotMoves`: replacing one slot moves only it), the phase follows from the
counters, and while the query listens the slot's status agrees with its
connection and stream (`Linked`). Two disjoint subsets whose sizes add up to the
whole are the whole, hence completion; fewer leave a slot that has not ended, and
`Linked` says what it waits for.

*Only model-checked.* The liveness properties (`Progress`, `CatchUp`,
`Terminates`): fairness is outside the prover's reach. Everything about
`DhtLookup`, whose advance loops are recursive operators, and `CachePublish`.

## 6. Findings

1. **A restarted member may sign twice** (`chain_restart_ever`).
   `ants_chain_runtime.h:37` says a member signs at most one block per height,
   ever. `last_signed_height` is not persisted, so a restart loses it. Agreement
   still holds while fewer than a third of a committee restart, which is what
   `chain_restart` and `AgreementHolds` show.
2. **With two trustees one lost frame can leave a node behind**
   (`chain_catch_up_two`). The attestation that completes the quorum is sent
   once: its sender adopts at once and the attempt that would have re-sent it is
   closed. `ants_chain_runtime.h:55` and `:109` promise that a node catches up.
   The bound on time is not the cause: with the same bounds three trustees do
   catch up, since the next block brings the missing head along; with two, the
   next block needs the signature of the node that is behind.
3. **A lookup may fold a peer nobody contacted into the routing table**
   (`dht_lookup_fold`). A completion record remembers its candidate by index;
   another response inserts a nearer peer below it, and the answer is credited to
   the wrong candidate. `dht_lookup.c:232` says that peers merely named in
   responses never enter the table.
4. **A publish may complete while a slot is open** (`cache_publish_done`). A
   reset and the close (or the reset of another stream) that follows count one
   slot twice, and what becomes of the slot still open is then ignored.
   `ants_semantic_cache.h:793` says that the callback fires once every slot is
   acked or failed. The query side guards the case, and `CompletionCorrect`
   proves that its guard suffices.

## 7. What is not modelled

Codecs and pure functions over bytes and floats (wire formats, CBOR, crypto,
embedding, kernels) have no state; memory ownership appears only where a pointer
can go stale. Each component in `PROJECT.json` gives its reason.

## 8. Plan

In order, each with its run and, where marked, its proof:

| Module | Source | Question |
|---|---|---|
| `FaultSet` (proofs) | `crdt.c` | pruned subjects stay retired; merges commute and are idempotent, also against pruning; snapshots carry the retired set |
| `Gossip` | `gossip.c`, `gossip_transport.c` | a proof reaches everyone through push and lazy pull; what an announcement of 64 ids leaves out; the dedup window against the re-broadcast |
| `DhtTable` | `dht.c` | eviction of dead peers by ping, parked newcomers, refresh and republish, late confirmations |
| `DhtServer` | `dht_server.c` | inbound slots, tokens, announces at their limit |
| `Transport` | `transport.c` | one terminal event per stream and connection, callbacks that close what they are called for, cut receive buffers; the abstract specification the other modules assume of their environment |
| `AttestExchange`, `InferExchange` (proofs) | `attest.c`, `infer.c` | one verdict or result per accepted request; a timeout against a late FIN |
| `QueryAggregate`, `CacheServer`, `SemanticCache` | `cache/semantic` | dedup, order and cap against a reference; caps and LRU; which copy a quality signal reaches |
| `ChainAlgorithms` | `chain.c` | committee selection, fork choice, beacon and pattern scan against reference definitions |
| `Ledger`, `Bond`, `Reputation`, `Audit` | `economy`, `identity`, `orchestration` | unchoke slots, saturating counters, bond totals, decay in fixed point |
| `AntsdView` | `run.c` | the daemon's copy of the gossip peers agrees with the engine's |
| compositions | | `FaultSet` with `Gossip` behind `ChainRuntime`'s view; the exchanges, the query and the publish over `Transport` |
