------------------------------ MODULE EventLog ------------------------------
(***************************************************************************)
(* The accepted-event authority RVL2                                       *)
(* (src/daemon/relay_v2_event_log.zig): the rows a node retains until every *)
(* node required by their event-time membership confirmed them, the one    *)
(* prepared mutation that joins the daemon's acceptance transaction, and    *)
(* the pages that the egress scheduler collects for each target.           *)
(*                                                                         *)
(* An error of the code leaves the log as it was: the action that would    *)
(* fail is not enabled.  A RelayId is a digest of the wire, so one id has   *)
(* one wire and the "conflict" outcome cannot arise; an id that comes back  *)
(* after its row retired stands for another event of the same author and   *)
(* clock value class.                                                      *)
(***************************************************************************)
EXTENDS Integers, FiniteSets, FiniteSetsExt

CONSTANTS
    Ids,            \* relay identities
    OriginOf,       \* the author of each, a number: public keys are ordered
    HlcOf,          \* the clock value of each
    Nodes, Self,    \* the short ids of the mesh nodes, and of this one
    Memberships,    \* the membership snapshots of the configurations
    NoNode,         \* authored here: there is no ingress hop
    PageSize,       \* out.len of collectPageForNode
    MaxRows, MaxNodesPerRow, MaxCursors, MaxAggregate, \* Config
    MaxBody,        \* what a checkpoint may take without its header and sum
    WireCost, NodeCost, CursorCost, \* the bytes of a wire, a u64, a cursor
    RowPrefix       \* row_prefix_len

ASSUME LogAssumption ==
    /\ OriginOf \in [Ids -> Nat]
    /\ HlcOf \in [Ids -> Nat]
    /\ Self \in Nodes /\ NoNode \notin Nodes
    /\ \A m \in Memberships : /\ m \subseteq Nodes /\ Self \in m
                              /\ IsFiniteSet(m)
                              /\ Cardinality(m) \in 2..MaxNodesPerRow \* validateRequiredMembership
    /\ PageSize \in Nat \ {0}
    /\ {MaxRows, MaxNodesPerRow, MaxCursors, MaxAggregate, MaxBody} \subseteq Nat \ {0}
    /\ {WireCost, NodeCost, CursorCost, RowPrefix} \subseteq Nat

VARIABLES
    rows,       \* EventLog.rows: a row for each retained id
    cursors,    \* EventLog.cursors: target -> after_origin_pubkey
    aggregate,  \* EventLog.aggregate_bytes
    body,       \* EventLog.checkpoint_body_bytes
    plan,       \* the prepared mutation, if prepared_active
    page,       \* the page collected by this step, if it collects one
    owed        \* history: of the membership of each id when it was inserted,
                \* the nodes that have neither confirmed nor been retired since

log  == <<rows, cursors, aggregate, body>>
vars == <<rows, cursors, aggregate, body, plan, page, owed>>

NoPlan == [kind |-> "none"]
NoPage == [target |-> NoNode, ids |-> {}]

Row == [required : SUBSET Nodes, confirmed : SUBSET Nodes, excluded : SUBSET Nodes]

Init ==
    /\ rows = [i \in {} |-> {}]
    /\ cursors = [n \in {} |-> {}]
    /\ aggregate = 0
    /\ body = 0
    /\ plan = NoPlan
    /\ page = NoPage
    /\ owed = [i \in Ids |-> {}]

-----------------------------------------------------------------------------
(* Rows, bytes and removal. *)

Put(f, x, v)   == [y \in DOMAIN f \cup {x} |-> IF y = x THEN v ELSE f[y]]

RowBytes(r) == WireCost + NodeCost * (Cardinality(r.required) + Cardinality(r.confirmed)
                                      + Cardinality(r.excluded))

\* recomputeAggregateBytes, recomputeBodyBytes.
Recomputed(rs, cs) == SumFunction([i \in DOMAIN rs |-> RowBytes(rs[i])])
                      + CursorCost * Cardinality(DOMAIN cs)
RecomputedBody(rs, cs) == Recomputed(rs, cs) + RowPrefix * Cardinality(DOMAIN rs)

\* The two counters move together by some content, and by the prefixes of the
\* rows that come or go.
Charge(content, prefixes) ==
    /\ aggregate' = aggregate + content
    /\ body' = body + content + RowPrefix * prefixes

\* Slip: the bounds are tested before the bytes are added.
FitsNow(content, prefixes) == aggregate <= MaxAggregate /\ body <= MaxBody

\* ensureProspectiveCapacity.
Fits(content, prefixes) ==
    /\ aggregate + content <= MaxAggregate
    /\ body + content + RowPrefix * prefixes <= MaxBody

Covered(r) == Cardinality(r.confirmed) = Cardinality(r.required)

\* Slip: the ingress node, excluded for a sweep, is taken for a confirmation.
CoversWithIngress(r, node) ==
    Cardinality(r.confirmed) + Cardinality(r.excluded \ {node}) + 1 = Cardinality(r.required)

\* Slip: the confirmation about to be added is not counted.
CoveredBefore(r, node) == Covered(r)

\* coverageAfterConfirmation.
CoveredAfter(r, node) == Cardinality(r.confirmed) + 1 = Cardinality(r.required)

HasOrigin(rs, o) == \E i \in DOMAIN rs : OriginOf[i] = o

GreatestOrigin(rs) == CHOOSE o \in {OriginOf[i] : i \in DOMAIN rs} :
                         \A i \in DOMAIN rs : OriginOf[i] <= o

\* Slip: cursors are left at an origin that has no row any more.
CursorsUnrepaired(rs, cs) == IF DOMAIN rs = {} THEN [n \in {} |-> {}] ELSE cs

\* What removeRowAt does to the cursors when the rows left are rs: an empty
\* log has none, and one at an origin without rows goes to the greatest.
RepairedCursors(rs, cs) ==
    IF DOMAIN rs = {} THEN [n \in {} |-> {}]
    ELSE [n \in DOMAIN cs |-> IF HasOrigin(rs, cs[n]) THEN cs[n] ELSE GreatestOrigin(rs)]

\* removeRowAt.
RemoveRow(id) ==
    LET left == Restrict(rows, DOMAIN rows \ {id})
        kept == RepairedCursors(left, cursors)
    IN  /\ rows' = left
        /\ cursors' = kept
        /\ Charge(-RowBytes(rows[id])
                  - CursorCost * (Cardinality(DOMAIN cursors) - Cardinality(DOMAIN kept)), -1)

-----------------------------------------------------------------------------
(* The prepared mutation. *)

\* Slip: nothing keeps the log still while a mutation is prepared.
NeverBusy == TRUE

\* beginPrepare, and the same test at the head of collectPageForNode.
Idle == plan = NoPlan

Missing(r, node) == node \in r.required \ r.confirmed

\* No row has this id, or another id at its author's clock value (hasOriginHlc).
Fresh(id) == \A i \in DOMAIN rows : OriginOf[i] # OriginOf[id] \/ HlcOf[i] # HlcOf[id]

NewRow(ingress, required) ==
    [required  |-> required,
     confirmed |-> {Self},
     excluded  |-> IF ingress \in required \ {Self} THEN {ingress} ELSE {}]

\* prepareAccepted of an id without a row.
PrepareInsert(id, ingress, required) ==
    /\ Idle
    /\ Fresh(id)
    /\ Cardinality(DOMAIN rows) < MaxRows
    /\ Fits(RowBytes(NewRow(ingress, required)), 1)
    /\ plan' = [kind |-> "insert", id |-> id, row |-> NewRow(ingress, required)]
    /\ page' = NoPage
    /\ UNCHANGED <<log, owed>>

\* A duplicate from a hop that is owed the row excludes that hop for a sweep.
NewlyExcluded(r, ingress) == Missing(r, ingress) /\ ingress \notin r.excluded

\* prepareAccepted of an id whose exact wire is retained.
PrepareDuplicate(id, ingress) ==
    /\ Idle
    /\ id \in DOMAIN rows
    /\ \/ /\ NewlyExcluded(rows[id], ingress)
          /\ Cardinality(rows[id].excluded) < MaxNodesPerRow
          /\ Fits(NodeCost, 0)
          /\ plan' = [kind |-> "exclude", id |-> id, node |-> ingress]
       \/ /\ ~NewlyExcluded(rows[id], ingress)
          /\ plan' = [kind |-> "no_op"]
    /\ page' = NoPage
    /\ UNCHANGED <<log, owed>>

\* Room for the confirmation of a node: a node that was excluded only moves
\* from one list to the other, and a retiring row needs none.
AckFits(r, node) == CoveredAfter(r, node) \/ node \in r.excluded \/ Fits(NodeCost, 0)

\* prepareAuthenticatedDurableAck, for a row that is there and a node that it
\* requires.  It is refused when the aggregate bound leaves no room.
PrepareAck(id, node) ==
    /\ Idle
    /\ id \in DOMAIN rows
    /\ node \in rows[id].required
    /\ \/ /\ node \in rows[id].confirmed
          /\ plan' = [kind |-> "no_op"]
       \/ /\ Missing(rows[id], node)
          /\ AckFits(rows[id], node)
          /\ plan' = [kind |-> IF CoveredAfter(rows[id], node) THEN "retire_row" ELSE "confirm",
                      id |-> id, node |-> node]
    /\ page' = NoPage
    /\ UNCHANGED <<log, owed>>

\* prepareConfiguredNodeRetirement.
PrepareRetirement(node) ==
    /\ Idle
    /\ plan' = [kind |-> "retire_node", node |-> node]
    /\ page' = NoPage
    /\ UNCHANGED <<log, owed>>

CommitInsert ==
    /\ rows' = Put(rows, plan.id, plan.row)
    /\ Charge(RowBytes(plan.row), 1)
    /\ owed' = [owed EXCEPT ![plan.id] = plan.row.required \ {Self}]
    /\ UNCHANGED cursors

CommitExclude ==
    /\ rows' = [rows EXCEPT ![plan.id].excluded = @ \cup {plan.node}]
    /\ Charge(NodeCost, 0)
    /\ UNCHANGED <<cursors, owed>>

\* A confirmation costs a node's bytes unless it replaces an exclusion.
ConfirmedCost(node, r) == IF node \in r.excluded THEN 0 ELSE NodeCost

\* Slip: the list of confirmations is written anew.
CommitConfirmAnew ==
    /\ rows' = [rows EXCEPT ![plan.id].confirmed = {plan.node},
                            ![plan.id].excluded = @ \ {plan.node}]
    /\ Charge(ConfirmedCost(plan.node, rows[plan.id]), 0)
    /\ owed' = [owed EXCEPT ![plan.id] = @ \ {plan.node}]
    /\ UNCHANGED cursors

CommitConfirm ==
    /\ rows' = [rows EXCEPT ![plan.id].confirmed = @ \cup {plan.node},
                            ![plan.id].excluded = @ \ {plan.node}]
    /\ Charge(ConfirmedCost(plan.node, rows[plan.id]), 0)
    /\ owed' = [owed EXCEPT ![plan.id] = @ \ {plan.node}]
    /\ UNCHANGED cursors

CommitRetireRow ==
    /\ RemoveRow(plan.id)
    /\ owed' = [owed EXCEPT ![plan.id] = @ \ {plan.node}]

\* PreparedNodeRetirement.commit: the node leaves every row that requires it,
\* rows that are covered without it go, and so does its cursor.  The loop
\* repairs cursors row by row; the last repair is the one that counts.
CommitRetireNode ==
    LET n       == plan.node
        without == [i \in DOMAIN rows |->
                      [required  |-> rows[i].required \ {n},
                       confirmed |-> rows[i].confirmed \ {n},
                       excluded  |-> rows[i].excluded \ {n}]]
        touched == {i \in DOMAIN rows : n \in rows[i].required}
        gone    == {i \in touched : Covered(without[i])}
        left    == [i \in DOMAIN rows \ gone |-> IF i \in touched THEN without[i] ELSE rows[i]]
        kept    == IF gone = {} THEN cursors ELSE RepairedCursors(left, cursors)
    IN  /\ rows' = left
        /\ cursors' = Restrict(kept, DOMAIN kept \ {n})
        /\ Charge(-SumFunction([i \in touched |-> RowBytes(rows[i]) - RowBytes(without[i])])
                  - SumFunction([i \in gone |-> RowBytes(without[i])])
                  - CursorCost * (Cardinality(DOMAIN cursors) - Cardinality(DOMAIN cursors')),
                  -Cardinality(gone))
        /\ owed' = [i \in Ids |-> owed[i] \ {n}]

\* PreparedAccepted.commit, PreparedConfirmation.commit,
\* PreparedNodeRetirement.commit.
Commit ==
    /\ \/ plan.kind = "no_op" /\ UNCHANGED <<log, owed>>
       \/ plan.kind = "insert" /\ CommitInsert
       \/ plan.kind = "exclude" /\ CommitExclude
       \/ plan.kind = "confirm" /\ CommitConfirm
       \/ plan.kind = "retire_row" /\ CommitRetireRow
       \/ plan.kind = "retire_node" /\ CommitRetireNode
    /\ plan' = NoPlan
    /\ page' = NoPage

\* abort, and deinit of a plan that was not committed.
Abort ==
    /\ plan # NoPlan
    /\ plan' = NoPlan
    /\ page' = NoPage
    /\ UNCHANGED <<log, owed>>

-----------------------------------------------------------------------------
(* The egress pages. *)

MissingRows(node) == {i \in DOMAIN rows : Missing(rows[i], node)}

MissingOrigins(node) == {OriginOf[i] : i \in MissingRows(node)}

\* Slip: the head of an author is its newest missing row.
NewestHead(node, o) ==
    CHOOSE i \in MissingRows(node) :
      /\ OriginOf[i] = o
      /\ \A j \in MissingRows(node) : OriginOf[j] = o => HlcOf[j] <= HlcOf[i]

\* nextOriginHead within one author: its lowest missing clock value.
OriginHead(node, o) ==
    CHOOSE i \in MissingRows(node) :
      /\ OriginOf[i] = o
      /\ \A j \in MissingRows(node) : OriginOf[j] = o => HlcOf[i] <= HlcOf[j]

\* greatestMissingOrigin: a new cursor starts there, so that its first sweep
\* wraps to the least origin.
CursorFor(node) ==
    IF node \in DOMAIN cursors THEN cursors[node]
    ELSE CHOOSE o \in MissingOrigins(node) : \A p \in MissingOrigins(node) : p <= o

\* Slip: every sweep begins at the least author.
FromTheLeast(c, a, b) == a < b

\* A sweep after origin c goes up through the greater origins and then from
\* the least one up to c: does it reach a before b?
Before(c, a, b) == \/ a > c /\ b <= c
                   \/ (a > c <=> b > c) /\ a < b

ExcludedAtHead(node, o) == node \in rows[OriginHead(node, o)].excluded

\* The origins a page visits: every one that has fewer than PageSize written
\* heads before it.  An excluded head is passed over and not written.
Visited(node) ==
    {o \in MissingOrigins(node) :
       Cardinality({p \in MissingOrigins(node) :
                      Before(CursorFor(node), p, o) /\ ~ExcludedAtHead(node, p)}) < PageSize}

\* Slip: an exclusion is honoured for ever.
KeepExclusion(r, node) == r

SpendExclusion(r, node) == [r EXCEPT !.excluded = @ \ {node}]

\* collectPageForNode.  The exclusion of a head that is passed over is spent,
\* and the cursor stops at the last origin visited.
CollectPage(node) ==
    /\ Idle
    /\ MissingRows(node) # {}
    /\ node \in DOMAIN cursors \/ (Cardinality(DOMAIN cursors) < MaxCursors /\ Fits(CursorCost, 0))
    /\ LET seen   == Visited(node)
           passed == {OriginHead(node, o) : o \in {p \in seen : ExcludedAtHead(node, p)}}
           last   == CHOOSE o \in seen : \A p \in seen \ {o} : Before(CursorFor(node), p, o)
       IN  /\ page' = [target |-> node,
                       ids    |-> {OriginHead(node, o) : o \in seen} \ passed]
           /\ cursors' = Put(cursors, node, last)
           /\ rows' = [i \in DOMAIN rows |->
                          IF i \in passed THEN SpendExclusion(rows[i], node) ELSE rows[i]]
           /\ Charge((IF node \in DOMAIN cursors THEN 0 ELSE CursorCost)
                 - SumFunction([i \in passed |-> RowBytes(rows[i]) - RowBytes(rows'[i])]), 0)
    /\ UNCHANGED <<plan, owed>>

-----------------------------------------------------------------------------
(* The checkpoint of a hot upgrade. *)

\* The tests on a row: validateRowNodes, and the limits on its three lists.
RowValid(r) ==
    /\ r.confirmed \cup r.excluded \subseteq r.required
    /\ r.confirmed \cap r.excluded = {}
    /\ Cardinality(r.required) \in 1..MaxNodesPerRow
    /\ ~Covered(r)

WithinLimits(rs, cs) ==
    /\ Cardinality(DOMAIN rs) <= MaxRows
    /\ Cardinality(DOMAIN cs) <= MaxCursors
    /\ Recomputed(rs, cs) <= MaxAggregate

\* encodeCheckpoint writes the log.
Encodes ==
    /\ Idle
    /\ WithinLimits(rows, cursors)
    /\ \A i \in DOMAIN rows : RowValid(rows[i])
    /\ \A n \in DOMAIN cursors : HasOrigin(rows, cursors[n])
    /\ aggregate = Recomputed(rows, cursors)
    /\ body = RecomputedBody(rows, cursors) /\ body <= MaxBody

\* validateCheckpoint and decodeCheckpoint take what was written.
Decodes(rs, cs, bytes) ==
    /\ WithinLimits(rs, cs)
    /\ bytes = RecomputedBody(rs, cs) /\ bytes <= MaxBody
    /\ \A i \in DOMAIN rs : RowValid(rs[i])
    /\ \A i, j \in DOMAIN rs : i # j => OriginOf[i] # OriginOf[j] \/ HlcOf[i] # HlcOf[j]
    /\ \A n \in DOMAIN cs : HasOrigin(rs, cs[n])

\* A successor restores the log: the byte counter is not in the checkpoint, it
\* is what its rows and cursors amount to.
Restart ==
    /\ Encodes
    /\ Decodes(rows, cursors, body)
    /\ aggregate' = Recomputed(rows, cursors)
    /\ page' = NoPage
    /\ UNCHANGED <<rows, cursors, body, plan, owed>>

Next ==
    \/ \E id \in Ids, ingress \in Nodes \cup {NoNode}, required \in Memberships :
         PrepareInsert(id, ingress, required)
    \/ \E id \in Ids, ingress \in Nodes \cup {NoNode} : PrepareDuplicate(id, ingress)
    \/ \E id \in Ids, node \in Nodes : PrepareAck(id, node)
    \/ \E node \in Nodes : PrepareRetirement(node)
    \/ Commit
    \/ Abort
    \/ \E node \in Nodes : CollectPage(node)
    \/ Restart

Spec == Init /\ [][Next]_vars

-----------------------------------------------------------------------------

\* The type invariant.
TypeOK ==
    /\ DOMAIN rows \subseteq Ids /\ rows \in [DOMAIN rows -> Row]
    /\ DOMAIN cursors \subseteq Nodes /\ cursors \in [DOMAIN cursors -> Nat]
    /\ aggregate \in 0..MaxAggregate /\ body \in 0..MaxBody
    /\ owed \in [Ids -> SUBSET Nodes]

\* What a node still owes is exact.  A retained row misses precisely those of
\* its event-time membership that neither confirmed nor were retired by
\* configuration, and a row is gone only when nobody is missing: no ingress
\* hop, later join, duplicate or page ever stands in for a confirmation.
DebtIsExact ==
    \A i \in Ids :
      IF i \in DOMAIN rows
      THEN rows[i].required \ rows[i].confirmed = owed[i]
      ELSE owed[i] = {}

\* Every log that is not in the middle of a mutation can be carried over a hot
\* upgrade: rows are well formed and uncovered, no clock value is there twice,
\* each cursor is at an origin with a row, and the byte counters that are moved
\* piecemeal are the sums of what is there.
EveryStateSeals == Idle => Encodes /\ Decodes(rows, cursors, body)

\* A plan still applies when it is committed: the row it names is there, the
\* clock value it inserts is free, and the bytes it adds are within the bound.
PlanIsCurrent ==
    /\ plan.kind = "insert" => Fresh(plan.id) /\ Fits(RowBytes(plan.row), 1)
    /\ plan.kind \in {"exclude", "confirm", "retire_row"} =>
         /\ plan.id \in DOMAIN rows
         /\ Missing(rows[plan.id], plan.node)
    /\ plan.kind = "exclude" => plan.node \notin rows[plan.id].excluded

\* No page shows a target a row while a lower clock value of the same author
\* is missing there: a newer event never overtakes an older one on a link.
NeverOvertakes ==
    \A i \in page.ids, j \in DOMAIN rows :
      (OriginOf[i] = OriginOf[j] /\ HlcOf[j] < HlcOf[i]) => ~Missing(rows[j], page.target)

\* A membership snapshot only loses nodes, and a node that confirmed a row is
\* never asked again ("later joins do not modify an existing row").
SnapshotOnlyShrinks ==
    [][\A i \in DOMAIN rows \cap DOMAIN rows' :
          /\ rows'[i].required \subseteq rows[i].required
          /\ rows[i].confirmed \cap rows'[i].required \subseteq rows'[i].confirmed]_vars

=============================================================================
