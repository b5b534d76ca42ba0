# Onyx Server: TLA+ models and proofs

Onyx Server is an IRC daemon written in Zig whose nodes form a mesh. This
directory holds specifications of the parts of it that are hard to test, the
TLC configurations that check them on small instances, and theorems about them
that TLAPS proves for every value of the constants. It has two centres: the chain
that carries a channel message over the mesh exactly once (MESSAGE_V2), because
that is where order, loss, restarts and hard resource bounds meet, and the
announce bot (`tools/announce_bot.py`), the longest program of the repository
next to the daemon, which keeps one connection alive, watches repositories and
shares a cache with a worker thread.

Paths below are relative to `src/src/`, those that begin with `tools/` to `src/`. `PROJECT.json` gives, for each
definition of a module, the file and the lines that it stands for.

## 1. The system

A client speaks to a reactor. Channel messages are written as signed events and
sent to the other nodes over secured links (`substrate/undertow/s2s_peer.zig`).
Each node holds five authorities for those events. They live in the daemon
process, are protected by one lock, `relay_v2_replay_mu`, and are sealed into
the capsule of a *Helix* hot upgrade (a `fork`/`exec` that keeps sockets). A
cold restart loses them; `docs/design/message-v2-exact-once.md` states which
guarantees survive that.

### 1.1 The MESSAGE_V2 chain

| component | state it keeps | operations | what is hard | what makes it correct |
|---|---|---|---|---|
| RVG2 replay guard, `daemon/relay_v2_replay_guard.zig` | per author a watermark and an ascending window of (clock, id) pairs | probe, preflight, admit, encode, transactional adopt | late, repeated and equivocating events; a full window; a damaged capsule | accepted at most once; a duplicate proves acceptance; nothing is forgotten |
| RVL2 accepted-event log, `daemon/relay_v2_event_log.zig` | rows with wire, required nodes and confirmations; a cursor per target; byte counters | prepare/commit/abort of insertions and acknowledgements, egress pages, retirement of a node, checkpoint | a plan becoming stale; counters moved piecewise; cursors at rows that retire | debt is exactly what is not confirmed; a checkpoint can always be sealed; per-author order; authors take turns; every row retires |
| RVO2 outbox, `daemon/relay_v2_outbox.zig` | rows per (event, hop), some for a hop not chosen yet; receipts; two sweep cursors | batch admission, binding, acknowledgement, removal, sweeps, restore | removal in the middle of a sweep; binding that meets an existing row | every state restores; a sweep skips no row |
| MESSAGE_V2 on a link, `substrate/undertow/s2s_peer.zig` | negotiated capability, pending inbound events, acknowledgements and confirmations | probe and reply, send, dispatch, take, loss, resumption | both ends negotiate while they send; full queues; an upgrade of one end | nothing is used before negotiation; what a sender drops has been accepted; the books close |
| activation authority, `daemon/relay_v2_activation.zig` | mode (compat or active) with the epoch and roster digest of its plan | configuration, handoff to a successor, boot | a long series of plans | one roster per epoch; no downgrade; nothing is activated unstaged |

The order of one event: it is authenticated at a link, *probed* in the guard; if
new, the outbox obligations, the log row and the guard are all prepared, then
committed together in a cut that cannot fail; then it is delivered and
acknowledged to its ingress hop. If it is a duplicate it is acknowledged without
a second delivery. Outbox rows and log rows drive retransmission until the
corresponding acknowledgement arrives. The file that performs the composition
(`daemon/server.zig`) is not in the repository's tree, so what the daemon does
between those components is taken from the design document and from the
contracts of the authorities, and is marked external in the map.

### 1.2 The announce bot

`tools/announce_bot.py` runs two threads. The IRC thread (`Bot.loop`) connects,
negotiates capabilities and SASL, joins, answers commands, keeps the link alive
and, every few seconds, compares the HEAD of each watched repository with the
last one it has seen; what is new gets cards in the channel, and the channel's
topic shows revision and counts of each project. The counts come from the worker
of an `InventoryCache`, since counting a tree is too slow for the IRC thread.

| component | state it keeps | operations | what is hard | what makes it correct |
|---|---|---|---|---|
| inventory, `InventoryCache`, `collect_inventory` | `_items`, `_queued` under a lock; `_requests`, a queue | request, get, the worker's loop with its refresh after 60 s | a key is marked under the lock and put after it; a commit between the count and HEAD, or while a count runs | each project asked for exactly once; counts catch up |
| IRC session, `Bot.connect`, `handle`, `loop` | capabilities, nick, joined, `outq`, clocks, backoff | one handler per line, paced output, keepalive, timeouts, reconnection | a list of capabilities that never ends; a nick held by the bot's own dead session; a link that dies silently; lines queued for a connection that is gone | it settles in the channel; nothing is said before the welcome; a live link is kept |
| commit watcher, `poll_project`, `set_topic` | `last_commit`, `last_tests`, the last topic | poll, cards, counted notices, topic | commits, refreshes and losses between the several reads of one poll; a HEAD that moves back; git that fails | every commit handed over once and in order; the topic catches up |
| the server's end, `daemon/dispatch.zig` (`CapSession`, registration, SASL) | negotiation state, nick and user, registered | CAP, NICK, USER, AUTHENTICATE, early commands | registration waits for the end of the negotiation | with the bot: settles, nothing early |

### 1.3 The rest

| component | state and operations | interacts with | hard behaviour, and the property that would settle it | status |
|---|---|---|---|---|
| ESG2 event-spine guard, `daemon/event_spine_replay_guard.zig` | an RVG2 guard plus a limit on clocks from the future | event spine | saturation of the limit; an event beyond it must leave its author's window alone | planned |
| ADS1 attachment spool, `daemon/attachment_delivery_spool.zig` | rendered records per attachment, a fair cursor; collect, commit, discard, transfer, remap | send queues, sessions | indexes collected before a removal and used after; each record delivered once | planned |
| secured link, `daemon/s2s_link.zig`, `secured_s2s_link.zig` | records, output buffers | S2sPeer | a partial write and an upgrade at a record boundary | input/output; the stream is taken as reliable |
| peer link, link session, `substrate/undertow/peer_link.zig` | sequence numbers, cumulative acknowledgement, credit, ticks | link | credit never negative, acknowledgement never beyond what was sent | planned |
| event spine, `daemon/event_spine.zig`, `event_collapse.zig` | subscriptions, burst table | ESG2 | a burst closed once | planned |
| routing and membership, `substrate/undertow/route_table.zig`, `server_registry.zig`, `membership_view.zig` | tables fed by frames | S2sPeer | stale entries after a split | planned |
| channel CRDTs, `channel_crdt.zig`, `concord.zig`, `crdt_orset.zig` | replicated channel state; join | S2sPeer | convergence under reordering | planned |
| text CRDTs, `seq_crdt.zig`, `egwalker.zig` | sequences with tombstones | history | same text for every order of delivery | candidate |
| anti-entropy, `anti_entropy.zig`, `gossip_round.zig` | digests and repairs | CRDTs | repair closes every difference | planned |
| partition detector, `partition_detector.zig` | mesh graph, split and heal events | routing | one event per change | planned |
| nick claims, `nick_claim.zig`, `nick_collision.zig`, `mesh_clock.zig` | claims ordered by hybrid clocks | routing | all nodes name one winner | planned |
| journals, `delta_journal.zig`, `wal.zig` | append, replay, snapshot, truncate | store | a crash between any two writes | planned |
| Helix upgrade, `daemon/helix/supervisor.zig`, `live.zig`, `handoff.zig` | supervisor state, sealed arena, attestation with a deadline | every component | an attestation that races its deadline: never two owners | planned; its effect on the relay authorities is modelled |
| Helix migration, `helix/migration_fsm.zig`, `migration_journal.zig` | two-node state machine, journal | sessions | abort or timeout after the commit | planned |
| session replicas and leases, `helix/session_replica*.zig` | signed offers, leases, revocations merged by version | migration | a revoked lease never returns | planned in parts |
| reactor fabric, `daemon/reactor_fabric.zig`, `reactor_wake.zig` | bounded mailbox per shard, wake-up | all shards | lost wake-up; pool accounting | planned |
| world, `daemon/world.zig`, `world_rcu.zig` | channels and sessions, read without locks | reclamation | readers see a consistent snapshot | planned; the writes of its lock-free registries are in EpochReclaim |
| reclamation, `substrate/ebr.zig`, `rcu_map.zig` | epoch, pins, bags | world | nothing is freed that a pinned reader can reach; each box is in one place | modelled and proved |
| locks, rings, schedulers, `rwlock.zig`, `ringbuf.zig`, `scheduler.zig` | small primitives | everywhere | a reader that tests before it locks | planned where hard |
| store and services, `daemon/store.zig`, `services.zig` | accounts, channels, memos | journals | recovery | planned with journals |
| smoke scripts, `tools/upgrade_smoke.py`, `runtime_smoke.py` | none of their own: they start a daemon, talk to it in one sequence and compare | daemon | none: a straight line of steps | not modelled; what they test belongs to the supervisor |
| agent toolkit scripts, `validate_toolkit.py`, `claude_review_stub.py`, `select-gates.py` | pure functions of files and arguments | | none | not modelled |
| codecs, signatures, cryptography, protocol parsing, media plane, wasm host, tools | conversions, signal processing, input/output | | none that a model checker helps with | not modelled |

## 2. Modules

```
ReplayWindow          one author's window as pure operators
  ReplayGuard         the guard over all authors, with seals and adoptions
  ReplayArray         the same with the arrays that store it
  ReplayStore         the live guard and its arrays side by side
    ReplayGuardProofs   theorems about both; the array implements the guard
EventLog              the accepted-event log
  EventLogProofs        theorems
  EventLogDelivery      the log under fair paging, with or without acknowledgement
Outbox                obligations, receipts and their sweeps
  OutboxProofs          theorems
RelayLink             two ends of a link with their custody
  RelayLinkProofs       theorems
Activation            the chain of handoffs
  ActivationProofs      theorems
EpochReclaim          epochs, pins, bags and the registries above them
  EpochReclaimProofs    theorems
InventoryCache        the bot's inventory, with any thread that asks
IrcSession            the server's end of one client, as pure operators
AnnounceBot           the bot: InventoryCache and IrcSession with the IRC thread
  AnnounceBotProofs     theorems about both; the bot implements InventoryCache
DataInduction         induction over data, sums and enumerations, for the proofs
MC*                   instances for TLC
```

Mutated forms of definitions, each a slip one could make in the code, stand
before the definition they change under the comment "Slip:". They are used by
nothing: replacing the definition by its slip makes a property fail, which
shows that the property observes the code.

### ReplayWindow, ReplayGuard (`daemon/relay_v2_replay_guard.zig`)

A window is a record of a watermark (or none) and a set of pairs; the set is
the content of the code's ascending array. `ReplayGuard` has the live guard, a
sealed capsule with the state it was taken in, and the history of accepted
events. `AdmitMessage` is `admitMessage`; what a probe answers is
computed for every candidate in every state by the properties; `Seal` and `Adopt`
are `encodeCheckpoint` and `replaceFromCheckpoint`, `Corrupt` damages the capsule
on its way, and `Abandon` gives the upgrade up, as a refused capsule makes it.
A sealed guard admits nothing until it is adopted or the upgrade is given up,
because the daemon holds the replay lock.

### ReplayArray, ReplayStore

The same operations at the grain of the arrays: bisection, insertion with a
shift to the right, and the replacement of the least element of a full array by
two overlapping shifts. The bisection is a recursive function on pairs of bounds.
`ImplementsWindow` is refinement: the abstract guard is instantiated with the set of
the array's elements; TLAPS proves it. TLC checks the same step by step where seals and
adoptions lie between the events: `ArraysAgree` compares, in each state of the
guard, what the arrays and the sets make of every event.

### EventLog (`daemon/relay_v2_event_log.zig`)

Rows are records of the required nodes, the confirmed nodes, the nodes excluded
from the current sweep and the bytes that the code counts for them. The two
aggregate counters are kept incrementally as in the code, and a definition
recomputes them from the rows. A mutation is prepared (a plan) and then
committed or aborted; while it is prepared the log refuses everything else.
`CollectPage` is the egress page with the cursor per target, the exclusion of
an ingress hop, and the per-author order. Retirement of a node removes it from every row that
requires it. `Restart` is a checkpoint that a successor validates and restores.

`EventLogDelivery` is the same log with the two endpoints of delivery, to state
what must eventually happen. A *course* says which events are written, which of them hops
offer again, and whether targets are attentive: an attentive one acknowledges
what it has, of another nothing is assumed.

### Outbox (`daemon/relay_v2_outbox.zig`)

The rows are a sequence, because the cursors index it. Admission of a batch is
atomic and coalesces what is there; `bindUnbound` gives the unbound rows of
events to a peer; removals move the rows and repair both cursors; sweeps return
the next rows from the cursor, and a ghost variable remembers what the current
round still owes. Attempts and times are abstracted to whether a row is due.

### RelayLink (`substrate/undertow/s2s_peer.zig`)

Two ends, two byte streams of frames in order, and for each end the fields of
`S2sPeer` that concern MESSAGE_V2. `Dispatch` has one disjunct per frame tag.
The custody of each end (obligations, accepted set, receipts) is external:
what the design says that the daemon does with the three `take` functions. A
link may be lost, which loses both streams and all queues, and be opened
again; an end may be replaced by its successor, which keeps the streams and
loses the queues (`resumeEstablished`). A *course* says how much may happen in a
behaviour: which events are written and how often a link is lost and an end
resumed.

### Activation (`daemon/relay_v2_activation.zig`)

The mode and plan of the running process, the configuration, and the transitions
`permitsHandoff` admits. Rosters are compared only through their digests, so a
digest is a value. The history of a chain of hot upgrades is kept to state what
the chain as a whole promises; a cold boot starts another chain, since nothing
on disk remembers the last one.

### EpochReclaim (`substrate/ebr.zig`, `substrate/rcu_map.zig`)

Participants register, pin, read and unpin without a lock; a writer replaces the
root of a registry and retires the old one; an advance scans the participants,
stores the next epoch and empties the bags of the epoch before the previous one.
A step is one atomic access, so a pin takes three, and an advance visits one
participant at a time, first its flag and then its epoch. Writers retire in the
two ways of the code: into the bag of a reservation made under a pin, as
`world_rcu.zig` does for several registries in turn, or after the fact without
a pin, as `RcuMap.replace` does. One lock excludes writers and advances from
each other: in a map it is `RcuMap.writer_lock`, in the daemon the lock of
`World`. A comment of `ebr.zig` (148-153) explains why a reservation would
bear an advance by another thread; a retirement without a pin would not, as the
epoch may move on between its load and the append. The slip `AdvanceUnlocked`
takes the lock away from the advance and shows that the callers' lock is what
the code relies on. The header of the file (74-75) calls the advance a
compare-and-swap that stays correct when writers are not serialized; line 370
is a store, and the model has one advance at a time, as the lock gives.
Freed addresses are given out again, so a use after free is an address that a
reader holds and the allocator may give away. `retiredAt` is history.

### InventoryCache (`tools/announce_bot.py`, 274-415)

A revision is its own history, a sequence of commits; a count is known only by
the revision of the tree that was counted, so a snapshot says which tree its
counts are of and which HEAD git named afterwards. `Request` marks a key under the
lock and `Put` queues it in a step of its own; the worker takes (`Count`), asks
for HEAD (`CountHead`) and stores. `Refresh` is what happens after a minute
without a request, one project per step. Git calls and counts may fail.
`CacheSpec` is the cache with an arbitrary thread that asks.

### IrcSession (`daemon/dispatch.zig`)

What the server does with each line that the bot sends: negotiation,
nick and user, SASL PLAIN, completion of the registration, the refusal
of early commands. Pure operators from a session and a line to the next session
and what is answered. Channels, nick collisions and time limits are in files that
are not in the tree and are external: taken from what the bot expects of them.

### AnnounceBot (`tools/announce_bot.py`)

One action per handler, timer and step of a poll. `pc` is where the IRC
thread is, with the locals it carries from one read to the next: a poll reads HEAD,
marks and puts a request, takes the snapshot, asks git again whether it is
current, sends its cards and then sets the topic with two reads per
project; between any two of these, people commit, the worker runs and the link
breaks. `net` is the link: it may be up, closed by the server, or dead without
notice, in which case what is sent disappears and the server keeps the nick for a
while. `clock` counts minutes of silence, since the last probe, and whether the
next poll is due. `handed`, `summarized` and `unlisted` are history: which commits
had their card handed to `announce`, were only counted in a notice, or were lost to
a git call that failed. They say what the bot handed over, not what arrived: on a link
that is gone a card goes nowhere, and the queue with the rest of it is emptied when the
bot connects again (section 5, item 4). At one point the model says more than a reader may expect: a `rev-list`
that fails is taken for a diverged history, so only the tip gets a card; this is
what the code does and `CommitsHandedOver` excepts it by name.

## 3. What is checked

`P` states a safety invariant, `A` an action property, `L` liveness.

| run | instance | distinct states | properties |
|---|---|---|---|
| replay_guard | 3 authors, room for 2, window 2, clocks 0..3, 2 ids | 98,283 | P AtMostOnce, GreatestWindow, DuplicateIsProof, AcceptedIsRemembered, EveryStateSeals, GuardInv, ArraysAgree; A WatermarkNeverFalls |
| event_log | 3 events, two of one author; self and two nodes; page 1; 16 aggregate bytes, 18 in a checkpoint | 169,152 | P DebtIsExact, EveryStateSeals, PlanIsCurrent, NeverOvertakes; A SnapshotOnlyShrinks |
| event_log_delivery | one target, page 2; courses: 2 authors and an attentive target, 3 authors and one that need not be | 3,887 | L EveryRowRetires, AuthorsTakeTurns |
| outbox | 2 events, 3 rows, 3 receipts, 9 bytes, budget 1 | 432,571 | P EveryStateRestores; A NoRowIsSkipped |
| relay_link | queues and pending lists of 1, streams of 2; courses: 2 events and a loss, 2 events and a resumption, 1 event with 2 losses and 2 resumptions | 209,749 | P NegotiatedBeforeUse, DroppedIsAccepted, ReceiptWhileOwed; L BooksClose |
| activation | 3 epochs, 2 rosters | 2,664 | P OneRosterPerEpoch, NewestPlanCarried, StagedBeforeActive, ActiveIsFinal |
| epoch_reclaim | 2 participants, one of them a writer; 2 registries, 4 boxes, 4 advances | 271,756 | P NoUseAfterFree, OnePlace, FreedOnTime, ReclaimInv |
| bot_session | 2 projects, 4 servers, one thing that goes wrong | 683,702 | P NothingSaidEarly; A LiveLinkIsKept; L BotSettles |
| bot_watch | 1 project, HEAD moves twice, one broken link or failing command | 620,398 | P SingleFlight, CommitsHandedOver; L CountsCatchUp, TopicCatchesUp |
| event_log_wedged | 1 event, two targets, 10 aggregate bytes | | violates AcknowledgedRowsRetire |
| event_log_starved | 2 authors, one target, page 1 | | violates OriginsAreServed |
| outbox_served | as outbox | | violates ServedPeerAbsorbsNothing |

`event_log`, `outbox`, `relay_link` and `bot_session` also check the type invariant
of their module. In the others it is part of an invariant that is proved
(`GuardInv`, `ChainInv`, `ReclaimInv`, `CacheInv`).

### Why the bounds are enough to meet the interesting cases

- *Guard*: a window of two is full after two events; with four clock values a
  pair is evicted from both places and events arrive below, at and above the
  watermark; clock zero is one of them; two ids make equivocation. Three authors
  in room for two make the limit of authors bite.
- *Array*: with two places a full array is entered at its first place, which only
  replaces, and at its second, which shifts; longer arrays are left to the proof.
- *Log*: two events of one author and one of another give order within an author and
  rotation between authors; the aggregate bound is smaller than all rows
  together, and the bound of the checkpoint is met first when there are three
  rows, so either refuses admission in some states.
- *Log, delivery*: `EveryRowRetires` is about confirmations, exclusions and retirement, and
  is claimed only where a page has a place for every author (`RoomForAll`): with
  shorter ones it is false, as section 5 explains. `AuthorsTakeTurns` is about
  rotation: in the course of three authors a page of two leaves one out each time, and the
  cursor alone decides who, while rows retire under it, come again and are excluded.
  One event of that course is offered again by a hop, all may be excluded at their
  insertion. `event_log_starved` has two authors and a page of one row. All
  of them leave room in the byte bound for the cursor of each target: a log that is filled to
  the bound before its first page refuses that page for want of the cursor's bytes,
  and nothing then frees any.
- *Outbox*: one row is served per sweep, so every removal and admission
  happens at every place of a round; the byte bound is met before the row bound
  in some states and after it in others.
- *Link*: queues of one frame make the second frame overflow; with two events
  each of a loss and a resumption may come after an acceptance that was not
  acknowledged; with one event two losses and two resumptions meet in any order, so
  a loss may come before the repair of the one before is complete.
  Deadlock is not checked here: once both books are closed and the course is
  used up, the model has nothing left to do.
- *Bot, session*: the four servers are one that offers what is wanted in two
  lines and grants it, one that refuses the account, one that refuses the request,
  and one that never finishes its list; the last three have another client on the
  wanted nick. One mishap (a link that breaks or dies, a refused connection, a slow
  answer, a kick, a question, the six-hourly report) may come at any point of
  registration, of a poll or of the join. Silence is counted in minutes up to the
  read timeout. One mishap per behaviour is the bound `MaxMishaps`: two that
  follow each other are not explored. The repositories do not move, which is the other run's part.
- *Bot, watch*: two moves of HEAD, forward or back, with a burst of one: two commits
  in one poll make a card and a notice, a commit between two reads of a poll makes
  each later read see another revision, and one that comes while the worker counts
  meets a key that is still marked. The link breaks at any point of a poll. Nobody
  kicks the bot here, so the exception of `TopicCatchesUp` for a topic that the channel
  refused is not used.
- *Activation*: with three epochs there is an older plan, the present one and a
  newer one; two rosters give each epoch a competing plan.
- *Reclamation*: four advances let a box retired in the first two epochs be freed
  and given out again within the run, and its bag be used a second time; four
  boxes for two registries leave two in limbo, so a writer may meet an
  allocator with nothing to give. The first participant reads and writes, so
  an advance finds it pinned for either reason. Deadlock is not checked: every
  participant may unregister, and the bound on the epoch ends the rest.

### Fairness

- `EventLogDelivery`: weak fairness for finishing a prepared plan, because a
  plan is prepared and committed within one critical section; strong fairness
  for paging each target and for the acknowledgements of attentive ones: the egress
  scheduler runs forever and a node that received a row repeats its acknowledgement
  until it is taken, while the log's refusals may disable either for a time. In the course
  whose target is not attentive nothing is assumed of acknowledgements, and in none of new
  writes: they may stop or go on forever.
- `RelayLink`: weak fairness for handshakes, dispatch, the end of a stream and
  reconnection, and for taking inbound events and confirmations, which the daemon's
  loop performs whenever it can. Strong fairness for sends and for taking
  acknowledgements: sends are disabled now and then only by the model's bound on the
  stream, and an acknowledgement may be lost with its queue any number of times that
  the course allows before it is taken. A loss and a resumption are never fair, and
  a course has finitely many.
- `AnnounceBot`: the IRC thread never stops (`run` catches what a connection
  raises and connects again for ever), and neither does the worker (its loop catches
  what a count raises). That it never stops takes it for granted that `git()` (274-280)
  returns: unlike the counts it has no timeout, and one that hangs would hold the IRC
  thread. Of the server it is assumed that it drops a dead session
  after some time and closes a client that does not register. Nothing is assumed
  of people, of links or of luck; that these stop is a matter of the bounds.

## 4. What is proved

`ReplayGuardProofs` proves for any number of authors, window size of at least
one, and sets of clock values and ids, with
the assumptions named in `ReplayWindow` and `ReplayGuard`:

| theorem | statement |
|---|---|
| GuardInvariant | `Spec => []GuardInv` |
| AcceptedAtMostOnce | no clock value of an author is accepted twice |
| WindowIsGreatest | a window is exactly the accepted pairs above its watermark, and these are the greatest ones |
| DuplicateProves | a duplicate answer implies that this event was accepted |
| AcceptedRemembered | an accepted event is never new and never an equivocation |
| WatermarkMonotone | no step lowers a watermark or forgets an author |
| EveryGuardSeals | if the largest guard of the configuration fits a checkpoint, every guard is written and read back unchanged |
| ArrayImplementsWindow | each step of the stored array is a step of the guard over sets |

*Argument.* `GuardInv` is `TypeOK`, `GreatestWindow`, `OneHistory` and
`AtMostOnce`. At-most-once alone is not inductive: a new pair is compared only
with the window and the watermark, never with the whole history, so one needs
that the accepted events above the watermark are all in the window
(`GreatestWindow`), and that a sealed capsule, from which the live guard may
be replaced, describes the same history (`OneHistory`). The eviction step is the
heart: when a full window takes a pair above its least element, the least goes,
the watermark rises to that element's clock, and everything else in the
window is strictly greater because clocks in it are distinct. Lemmas
about the least element of a finite set and about the cardinality of a window
carry that step.

`EveryGuardSeals` bounds the sum of the bytes of all windows by the number of authors
(`FewOrigins`, its second invariant). Its hypothesis, `LargestGuardFits`, is about the
configuration: 4096 authors with 64 entries, the default, fit the 64 MiB of a
checkpoint, and `Config.valid` admits larger configurations that do not, for which
`encodeCheckpoint` may refuse a guard. The statement would be false without it.

`ArrayImplementsWindow` speaks of arrays in ascending order. `Cuts` says of a place
that everything before it is older and nothing from it on is; there is exactly one,
and the bisection finds it by induction on the distance of its bounds. Then an
insertion is followed entry by entry: what is before the place stays, what
is after it moves up by one, or, in a full array, what is before it moves down over
the oldest entry, and in both cases the set gains one element and the order
remains. What is proved of the guard over sets thus holds of the arrays.

`EventLogProofs` proves, for any ids, authors, memberships, page size and bounds:

| theorem | statement |
|---|---|
| LogInvariant | `Spec => []LogInv` |
| DebtNeverErrs | a row misses exactly the nodes that neither confirmed nor were retired; a row that is gone misses none |
| PlansStayCurrent | a prepared mutation still applies when it is committed |
| OrderPerAuthor | no page lets a newer event of an author overtake an older one |
| SnapshotsShrink | no step adds a node to a row or takes a confirmation back |
| SealInvariant | `Spec => [](LogInv /\ SealInv)` |
| LogTypes | types, and the bounds of the byte counters |
| EveryLogSeals | a log that is not in the middle of a mutation can be sealed and restored |

*Argument.* Exact debt needs more than its own statement at the commit that
removes a row: the code compares two *counts* there (`coverageAfterConfirmation`),
and equal counts mean nobody is missing only because the confirmations are a subset
of the membership (`RowOK`) and because the row that was counted when the
plan was prepared is still the row when it is committed. So `LogInv` says of each kind
of plan what was tested for it (`InsertPlan` to `RetireNodePlan`); nothing but
`Commit` and `Abort` moves while there is a plan, so it stays true. The lemmas
`LastConfirmation` and `CoveredRow` turn counts into sets. Order within an author is
that `OriginHead`, a choice, finds the lowest clock value (`LowestRow`, from the
well-foundedness of the naturals).

`SealInv` adds the checkpoint: rows and cursors in their bounds, no two rows with one
author and clock, each cursor at an author that has a row, and the two byte counters equal to the sums that
`validateCheckpoint` recomputes (`BytesAgree`). The counters change by the
difference that an operation makes while the sums are over all rows, and retirement
of a node changes many rows and may remove others at once; `SumChanges` reduces it to the rows concerned. `PlanFits` is what a prepared plan was granted: without it
a commit, which tests nothing, could exceed a bound.

`OutboxProofs` proves, for any peers, ids, batches, and bounds:

| theorem | statement |
|---|---|
| OutboxInvariant | `Spec => []OutboxInv` |
| OutboxTypes | types, and the bounds of the cursors |
| CheckpointsRestore | every state can be sealed and restored |
| SweepInvariant | `Spec => []SweepInv` |
| RowsAreNeverSkipped | no sweep collects a row again while one that was due all along has waited |

*Argument.* Rows are positions in a list that are removed, bound and appended to,
and `OutboxInv` says of the lists that no two rows have one peer and one id and
that none is its own exclusion. A batch keeps this if what it stages is
distinct: the peers of a batch are numbered by how many are named before
them, a map that is injective into a set of the same size, hence onto
(`Numbering`), so that each place of the staged list belongs to a peer of its own.
`bindUnbound` keeps it as two unbound rows never have one id, and it passes over an
id that the peer holds.

That no row is skipped is about a cursor between rows that come and go. `Distance`
is how many rows a sweep looks at until it has seen a row. `SweepInv` says that of a
row that was passed over and one collected meanwhile the first is ready and at the
smaller distance. A row that is added comes last in the list, which changes
the distances of the rows before the cursor by the same amount; a removal shifts the
rows behind it, and `RepairedCursor` shifts the cursor exactly when the row was before
it (`AheadCloses`); a sweep that looked at *n* rows takes *n* from each distance or puts
the row at the end of the round (`AheadSwept`). A sweep takes the ready rows in the
order of their distance (`TakenInOrder`), hence the first of such a pair before the
second (`AheadFirst`).

`RelayLinkProofs` proves, for any events, queues of any size, and any number of
losses and resumptions in any order:

| theorem | statement |
|---|---|
| LinkInvariant | `Spec => []LinkInv` |
| LinkTypesHold | types, and the bounds of the three queues |
| UsedWhenNegotiated | no MESSAGE_V2 frame reaches an end before it negotiated |
| NothingIsDropped | what a sender no longer owes was accepted |
| ReceiptsLast | a receipt stays while the sender may send again |

*Argument.* `Negotiated` is about what is still on the streams: readiness is owed to a
stream before a frame needs it. Each frame after the handshake has a handshake before
it unless the reader is established; each relay frame has a pong before it unless the
reader is current (`Local`); and if one end is current, the other is, or the
pong that makes it so is on its way (`Across`). A loss empties both streams and a
resumption writes a greeting on a stream in use, so the statement is of the whole
contents of two streams and not of their heads. `Custody` says that acknowledgements,
wherever they travel or wait, are of events that were accepted, and confirmations of
events that are no longer owed. Both are facts about
everything on the way, since a loss decides later which of it arrives.

`ActivationProofs` proves, for any number of epochs and any rosters, that
`ChainInv` is inductive and that within a chain an epoch stands for one roster,
that an active process is never followed by another mode or plan, and that the
active plan was staged in the chain or present at its boot. The statement that the
others lean on is `NewestIsCarried`: no plan of the chain is above the present one,
without which a competing roster for an old epoch could return.

`EpochReclaimProofs` proves, for any number of participants, writers, registries
and boxes and without a bound on the epoch:

| theorem | statement |
|---|---|
| ReclaimInvariant | `Spec => []ReclaimInv` |
| ReadersAreSafe | no pinned reader holds a freed box |
| NodesHaveOnePlace | a box is published, owed to a bag, in one bag, or free |
| ThirdEpochFrees | a bag holds boxes of its index, freed by the third advance |

*Argument.* That nothing held is free is not inductive: freeing depends on the
age of a bag. `ReclaimInv` adds what links ages to readers. `ReadersHoldBack`: a
reader that holds a retired box keeps the epoch at the epoch of its
retirement, or one past it, and in the latter case its own epoch is still the
older one, so that the next scan stops at it; a scan that has passed it found
it in the present epoch.
`BagsInReach` and `FreedOnTime`: an emptied bag holds boxes of its index that are
older than the new epoch, hence at least three epochs old, since the index is
the epoch modulo three. Three is more than one, which is the whole proof of
`ReclaimBagStep`. `OneHolder` and `OneAdvance` say that the lock has one
holder and that a scan's snapshot of the epoch is current. The proof that an
advance keeps `ReadersHoldBack` needs that a participant registered during a
scan holds no retired box: what was retired before can no longer be found, and
nothing is retired while the advance has the lock.

`AnnounceBotProofs` proves, for any projects, servers, faults and bounds:

| theorem | statement |
|---|---|
| CacheInvariant, OneFlight | in `CacheSpec`, with any threads that ask, a marked project waits in exactly one place |
| BotIsCache, BotOneFlight | the whole bot implements `CacheSpec`, so this holds in it |
| NothingIsSaidEarly | no line that needs a registered client is sent before the welcome |
| LiveLinksAreKept | a read times out only on a dead link |
| CommitsAreHandedOver | every commit that was passed over had its card handed to `announce`, is counted, or was lost to a failing git; while no HEAD moves back, in order and once |
| BotTypes | types of all variables at every place of the thread |

*Inventory.* `SingleFlight` names four places where a key may be: the marks, the
queue, the worker's hands and the hands of the thread between its mark and its
put. It is not inductive without `HandsFull`: the worker has a key exactly
while it measures, without which taking the next request could drop one, and a
refresh could begin with one in hand. The rest is about a sequence without
repetition: its tail has exactly one element less, and a key appended that
was not marked keeps it injective.

*Refinement.* The state functions of the cache are variables of both, so the
mapping is the identity and every step of `AnnounceBot` must be a step of
`CacheNext` or leave the cache alone. Almost all are `Apart`: they change
nothing of the cache or the repositories, and at most one thing goes wrong. The two that
are not are `PollHead`, an `Ask` of the project that is polled, and `PollPut`, a
`Put`. `Ask` needs that the thread has nothing in its hands, which is why the proof
carries `ThreadInv`: a key is in the thread's hands only at the place
"put", and a place "poll" names a project that there is. `Free` says of a place
that it is neither, which each other step of the thread establishes.

*Nothing early.* What the bot believes of its session and what the server knows differ by
what is on its way. `LinkInv` says that on a link that is up the bot has joined, has
lines in its queue, or has a welcome to read only if the server has registered it;
`PlaceInv` says that a poll or a topic is under way only when it has joined. A new
connection begins with none of these, since the queue of the last one is emptied. The
induction goes through every line that the server may answer and every handler of
the bot, one lemma each.

*Live links.* `ClockInv`: on a link that is up either something is waiting to be read or
the last probe is at least as old as the silence; so after two minutes of silence a
probe goes out, its answer arrives, and the silence never gets near the read timeout.
It holds by the numbers (probes after 90 s, 60 s apart, a timeout of 240 s), which are
the code's constants and not parameters.

*Commits.* `CommitInv` has two parts for each project. `Covers`: what the bot has noted
as the last HEAD is handed over, counted, excepted, or due in the poll that is under way.
`Ordered`, while no HEAD has moved back: the noted HEAD is a prefix of the repository's
history, what was handed over is ascending, and everything due is newer than all that was
handed over or counted. The delicate steps are the read of HEAD, where the commits behind the noted
one become due (`OrderedHead`), the notice that counts the older part of a burst
(`OrderedCount`), and a loss of the link in the middle of a poll, which must come
before anything was noted or leave it due.

`DataInduction` is what these proofs share. TLAPS offers no induction schema that the
provers here can instantiate, since a schema has a predicate as parameter. Stated for a *set* of good values,
"if a set is good when its proper subsets are, every finite set is good" needs no such
parameter, and follows from the well-foundedness of the naturals. The
definitions that the library's folds unfold to are then shown to have the value they should, and sums to be independent
of the order in which they are taken, to split, and to be bounded. A function that
recurses on pairs, such as the bisection of `ReplayArray`, is treated in the same way.

Only model-checked is the liveness (`EveryRowRetires`, `AuthorsTakeTurns`, `BooksClose`,
`BotSettles`, `CountsCatchUp`, `TopicCatchesUp`), which is out of the prover's reach.
Every safety invariant and action property of the passing runs has a theorem, except
`ArraysAgree`: it is the instance of `ArrayImplementsWindow` that TLC can evaluate. The first three claims of section 5
are refuted by their runs; the fourth was found by reading.

## 5. Where the code and its comments disagree

1. **A wedged row** (`event_log_wedged`, line 597). With the aggregate bound
   reached, a confirmation that is not the last is refused, as it needs eight
   bytes. A row that both of its nodes keep confirming is never retired. The
   header (line 16) says it retires once all confirm. It takes a log filled
   to within eight bytes of its bound.
2. **A served peer is bound again** (`outbox_served`, `relay_v2_outbox.zig:315`).
   `bindUnbound` looks for a present row of the peer; a peer that has
   acknowledged has none. The comment (304-306) says that an already
   served peer is skipped. The peer's replay guard answers with an
   acknowledgement, so the harm is that the reserved obligation is consumed.
3. **A starved author** (`event_log_starved`, `relay_v2_event_log.zig:752`). When the
   last row of the author at which a cursor stands retires, `removeRowAt` moves the
   cursor to the greatest author that has rows. If pages are shorter than the number of
   authors, an author that writes again after each acknowledgement gets every page:
   its row is shown and retires, the cursor falls on the greatest author, and the
   next page begins behind that one, at the same author again. The comments claim that the
   cursor "provides fairness" (134-136) and "rotates origins for fairness" (645-646).
   `AuthorsTakeTurns` says what the rotation does give: as long as a cursor is not
   thrown back for ever, every author is served, whatever the target acknowledges.
4. **A commit nobody hears of** (no run, `tools/announce_bot.py:798`). A poll
   notes the new HEAD and then hands its cards over. If the link has ended meanwhile, the
   headline is lost in `send_raw` (613-615), the rest is cleared with the queue by
   `connect` (704), and no later poll reports the commit, for it is noted. The comment says
   "Announce EVERY new commit ... fully reported" (792-793). A `rev-list` that fails
   loses all but the tip in the same way (`unlisted`). `CommitsHandedOver` is
   about what is handed over, and holds.

## 6. Abstractions

- Signatures, hashes and encodings: an authenticated event is a value; a
  digest is a value; a checkpoint is the state it encodes plus the test that
  it fits its bound. Validity tests of a decoder are modelled where a
  state of the program could fail them (`EveryStateSeals`,
  `EveryStateRestores`).
- Allocation failure is modelled where the code's order makes it matter (a
  preflight before a commit), otherwise an operation that fails for memory has
  no effect and is a stuttering step.
- `EventLog` leaves out the refusal of a second wire for the same identity, and
  the epoch of mutations, which only assertions read.
- `Outbox` leaves out attempt numbers and the clock.
- `RelayLink` leaves out the reflection cache for forwarded events, legacy
  capsules and all other frame families; a resumption happens at a frame
  boundary; the two probe flags of an end are one.
- `Activation` leaves out the decoding of the roster.
- `InventoryCache`: counts of modules, tests and lines are one value, the revision of
  the tree they were counted in; a failing command gives `Failed`. What
  `inventory_status` does with its snapshot after asking git, and the
  snapshot that `test_count` takes right after it, are one step.
- `AnnounceBot` leaves out the wording of lines, except a topic's revisions and
  counts, which commit a card is for, and whether it carries a count. The many lines
  of a card or of the statistics are two, the one that goes at once and one that
  is paced. What the bot sends is served at once: the directions of the stream are in
  order, and what the server sends unasked is delayed in `net.inp` instead. Time
  is counted in minutes. TLS, the parsing of lines and formatting with
  colours are not modelled; `main`, the signals and logging neither. `git()` is taken to
  return at once: time passes only in `Wait`, so `LiveLinkIsKept` and `BotSettles`
  do not cover a git call that blocks the thread for longer than the read
  timeout, which the code does not rule out. Of `!raw`, a command
  of the administrator that is off unless `ANNOUNCE_ADMIN` is set, only the line that
  `send_raw` blocks is modelled: other lines change nothing in the bot, but an
  administrator may part, quit or rename it with them, and `BotSettles` is
  about a bot that nobody told to leave.
- `IrcSession`: one channel; the capabilities the bot could ask for are two and one it
  does not want.
- `EpochReclaim` takes atomic accesses in sequentially consistent order; the
  fence of `pin`, which the code needs for that between its store and the loads
  of readers, is part of the step `PinActive`, and its absence is the slip
  `ReadEarly`. Weaker orders are not modelled. A writer does not keep a read
  guard of the same participant open. Contents of snapshots, the counter of
  retired boxes and assertions are left out.

## 7. Hazards

`PROJECT.json` lists 40 places where this code could go wrong in a way that a
test would hardly reach, with the properties that would notice. Those without a
property are the subjects of the plan, or carry a reason.

## 8. Plan

In this order:

1. **RelayMesh**: three nodes in a line with the abstract guard, log and outbox
   at each and lossy links, as an implementation of an abstract
   exactly-once broadcast; hot upgrades anywhere. Its abstract specification:
   each node accepts an event at most once, and an obligation is discharged only
   after the next node accepted. The last copy may be lost in a cold restart, as
   documented.
2. **EventSpineGuard**: the guard with the saturated future limit (ESG2).
3. **EpochReclaim** with an advance per thread and no lock, against the claim of
   `ebr.zig:74-75` that the advance is correct without serialization.
   Also `BooksClose` of **RelayLink** for a course of two events that meets a loss
   and a resumption in one behaviour, which takes TLC longer than a run should;
   its safety is proved for every course.
4. **Fabric**: bounded mailbox and wake-up; no lost wake-up.
5. **AttachmentSpool**: collection, commitment, discard, transfer.
6. **Supervisor** and **Migration** of Helix with deadlines and crashes, with the
   sequences of the upgrade smoke test as the first instances.
7. **Nick claims, channel CRDT, anti-entropy**: convergence, as operators with a
   reference definition and as a small replicated system.
8. **Journals** with crashes between writes.

Theorems to add, in this order: that RelayMesh implements the abstract broadcast,
with the invariants proved here as its lemmas; that a link's `Custody` with the outbox of one
end gives the accounts that `RelayMesh` needs at a hop; and the invariants of
each further module of this list.
