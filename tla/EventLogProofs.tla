--------------------------- MODULE EventLogProofs ---------------------------
(***************************************************************************)
(* The debt of every retained event is exact, a prepared mutation still    *)
(* applies when it is committed, and no page lets a newer event of an      *)
(* author overtake an older one; and a log that is not in the middle of a  *)
(* mutation can always be carried over a hot upgrade, its byte counters    *)
(* being the sums of what it holds.  For any events, memberships, page     *)
(* size and bounds.                                                        *)
(***************************************************************************)
EXTENDS EventLog, DataInduction

-----------------------------------------------------------------------------
(* The inductive invariant. *)

\* What the arguments need of a row.
RowOK(r) == r \in Row /\ r.confirmed \subseteq r.required /\ IsFiniteSet(r.required)

BookOK ==
    /\ DOMAIN rows \subseteq Ids
    /\ \A i \in DOMAIN rows : RowOK(rows[i])
    /\ owed \in [Ids -> SUBSET Nodes]

\* The plans of each kind, with what was tested when they were prepared.
NoOpPlan   == plan = [kind |-> "no_op"]
InsertPlan ==
    \E id \in Ids, ingress \in Nodes \cup {NoNode}, required \in Memberships :
      /\ plan = [kind |-> "insert", id |-> id, row |-> NewRow(ingress, required)]
      /\ Fresh(id) /\ Fits(RowBytes(NewRow(ingress, required)), 1)
ExcludePlan ==
    \E id \in DOMAIN rows, node \in Nodes :
      /\ plan = [kind |-> "exclude", id |-> id, node |-> node]
      /\ Missing(rows[id], node) /\ node \notin rows[id].excluded
ConfirmPlan ==
    \E id \in DOMAIN rows, node \in Nodes :
      /\ plan = [kind |-> "confirm", id |-> id, node |-> node]
      /\ Missing(rows[id], node)
RetireRowPlan ==
    \E id \in DOMAIN rows, node \in Nodes :
      /\ plan = [kind |-> "retire_row", id |-> id, node |-> node]
      /\ Missing(rows[id], node) /\ CoveredAfter(rows[id], node)
RetireNodePlan == \E node \in Nodes : plan = [kind |-> "retire_node", node |-> node]

PlanOK == \/ Idle \/ NoOpPlan \/ InsertPlan \/ ExcludePlan
          \/ ConfirmPlan \/ RetireRowPlan \/ RetireNodePlan

LogInv == BookOK /\ PlanOK /\ DebtIsExact /\ NeverOvertakes

-----------------------------------------------------------------------------
(* Rows. *)

LEMMA NewRowOK ==
    ASSUME NEW ingress \in Nodes \cup {NoNode}, NEW required \in Memberships
    PROVE  /\ RowOK(NewRow(ingress, required))
           /\ NewRow(ingress, required).required = required
           /\ NewRow(ingress, required).confirmed = {Self}
BY LogAssumption DEF NewRow, RowOK, Row

\* A row that lacks one confirmation lacks exactly the node that is missing.
LEMMA LastConfirmation ==
    ASSUME NEW r, RowOK(r), NEW node \in Nodes, Missing(r, node), CoveredAfter(r, node)
    PROVE  r.required \ r.confirmed = {node}
<1>1. IsFiniteSet(r.confirmed) /\ node \in r.required /\ node \notin r.confirmed
  BY FS_Subset DEF RowOK, Missing
<1>2. /\ IsFiniteSet(r.confirmed \cup {node})
      /\ Cardinality(r.confirmed \cup {node}) = Cardinality(r.required)
  BY <1>1, FS_AddElement DEF CoveredAfter
<1>3. r.confirmed \cup {node} \in SUBSET r.required
  BY <1>1 DEF RowOK
<1>4. r.confirmed \cup {node} = r.required
  BY <1>2, <1>3, FS_Subset DEF RowOK
<1> QED BY <1>1, <1>4

\* A row is covered when nobody is missing, and only then.
LEMMA CoveredRow ==
    ASSUME NEW r, RowOK(r), Covered(r)
    PROVE  r.required \ r.confirmed = {}
BY FS_Subset DEF RowOK, Covered

\* A non-empty set of rows of one author has one with the lowest clock value.
LEMMA LowestRow ==
    ASSUME NEW S \in SUBSET Ids, S # {}
    PROVE  \E i \in S : \A j \in S : HlcOf[i] <= HlcOf[j]
<1> DEFINE clocks == {HlcOf[i] : i \in S}
<1>1. clocks \in SUBSET Nat /\ clocks # {}
  BY LogAssumption
<1>2. \E m \in clocks : \A n \in clocks : m <= n
  <2> HIDE DEF clocks
  <2> QED BY <1>1, LeastNatural
<1> QED BY <1>2

\* The head of an author is missing at the target, and nothing of that author
\* that is missing there is older.
LEMMA HeadIsLowest ==
    ASSUME BookOK, NEW node \in Nodes, NEW o \in MissingOrigins(node)
    PROVE  /\ OriginHead(node, o) \in MissingRows(node)
           /\ OriginOf[OriginHead(node, o)] = o
           /\ \A j \in MissingRows(node) : OriginOf[j] = o => HlcOf[OriginHead(node, o)] <= HlcOf[j]
<1> DEFINE S == {i \in MissingRows(node) : OriginOf[i] = o}
<1>1. S \in SUBSET Ids /\ S # {}
  BY DEF MissingOrigins, MissingRows, BookOK
<1>2. \E i \in S : \A j \in S : HlcOf[i] <= HlcOf[j]
  BY <1>1, LowestRow
<1> QED BY <1>2 DEF OriginHead

-----------------------------------------------------------------------------
(* Steps that prepare a mutation, abort it, or restore the log leave the book *)
(* alone and collect no page.                                                 *)

LEMMA SameBook ==
    ASSUME BookOK, DebtIsExact, UNCHANGED <<rows, owed>>, page' = NoPage
    PROVE  BookOK' /\ DebtIsExact' /\ NeverOvertakes'
BY DEF BookOK, DebtIsExact, NeverOvertakes, NoPage

LEMMA InsertPrepared ==
    ASSUME LogInv, NEW id \in Ids, NEW ingress \in Nodes \cup {NoNode},
           NEW required \in Memberships, PrepareInsert(id, ingress, required)
    PROVE  LogInv'
<1>1. UNCHANGED <<rows, owed>> /\ page' = NoPage
  BY DEF PrepareInsert, log
<1>2. InsertPlan'
  BY DEF PrepareInsert, InsertPlan, log, Fresh, Fits
<1> QED BY <1>1, <1>2, SameBook DEF LogInv, PlanOK

LEMMA DuplicatePrepared ==
    ASSUME LogInv, NEW id \in Ids, NEW ingress \in Nodes \cup {NoNode},
           PrepareDuplicate(id, ingress)
    PROVE  LogInv'
<1>1. UNCHANGED <<rows, owed>> /\ page' = NoPage /\ id \in DOMAIN rows
  BY DEF PrepareDuplicate, log
<1>2. CASE NewlyExcluded(rows[id], ingress)
  <2>1. Missing(rows[id], ingress) /\ ingress \notin rows[id].excluded
    BY <1>2 DEF NewlyExcluded
  <2>2. ingress \in Nodes
    BY <1>1, <2>1 DEF LogInv, BookOK, RowOK, Row, Missing
  <2>3. plan' = [kind |-> "exclude", id |-> id, node |-> ingress]
    BY <1>2 DEF PrepareDuplicate
  <2>4. ExcludePlan'
    BY <1>1, <2>1, <2>2, <2>3 DEF ExcludePlan
  <2> QED BY <1>1, <2>4, SameBook DEF LogInv, PlanOK
<1>3. CASE ~NewlyExcluded(rows[id], ingress)
  <2>1. NoOpPlan'
    BY <1>3 DEF PrepareDuplicate, NoOpPlan
  <2> QED BY <1>1, <2>1, SameBook DEF LogInv, PlanOK
<1> QED BY <1>2, <1>3

LEMMA AckPrepared ==
    ASSUME LogInv, NEW id \in Ids, NEW node \in Nodes, PrepareAck(id, node)
    PROVE  LogInv'
<1>1. UNCHANGED <<rows, owed>> /\ page' = NoPage /\ id \in DOMAIN rows
  BY DEF PrepareAck, log
<1>2. CASE ~Missing(rows[id], node)
  <2>1. NoOpPlan'
    BY <1>2 DEF PrepareAck, NoOpPlan
  <2> QED BY <1>1, <2>1, SameBook DEF LogInv, PlanOK
<1>3. CASE Missing(rows[id], node) /\ CoveredAfter(rows[id], node)
  <2>1. plan' = [kind |-> "retire_row", id |-> id, node |-> node]
    BY <1>3 DEF PrepareAck, Missing
  <2>2. RetireRowPlan'
    BY <1>1, <1>3, <2>1 DEF RetireRowPlan
  <2> QED BY <1>1, <2>2, SameBook DEF LogInv, PlanOK
<1>4. CASE Missing(rows[id], node) /\ ~CoveredAfter(rows[id], node)
  <2>1. plan' = [kind |-> "confirm", id |-> id, node |-> node]
    BY <1>4 DEF PrepareAck, Missing
  <2>2. ConfirmPlan'
    BY <1>1, <1>4, <2>1 DEF ConfirmPlan
  <2> QED BY <1>1, <2>2, SameBook DEF LogInv, PlanOK
<1> QED BY <1>2, <1>3, <1>4

LEMMA OtherwisePrepared ==
    ASSUME LogInv, \/ \E node \in Nodes : PrepareRetirement(node)
                   \/ Abort \/ Restart
    PROVE  LogInv'
<1>1. UNCHANGED <<rows, owed>> /\ page' = NoPage
  BY DEF PrepareRetirement, Abort, Restart, log
<1>2. PlanOK'
  <2>1. CASE \E node \in Nodes : PrepareRetirement(node)
    BY <2>1 DEF PrepareRetirement, RetireNodePlan, PlanOK
  <2>2. CASE Abort
    BY <2>2 DEF Abort, Idle, PlanOK
  <2>3. CASE Restart
    BY <2>3 DEF Restart, Encodes, Idle, PlanOK
  <2> QED BY <2>1, <2>2, <2>3
<1> QED BY <1>1, <1>2, SameBook DEF LogInv

-----------------------------------------------------------------------------
(* Commits. *)

\* A commit that leaves rows rs and debts ds.
LEMMA Committed ==
    ASSUME Commit, BookOK', DebtIsExact'
    PROVE  LogInv'
BY DEF Commit, LogInv, PlanOK, Idle, NeverOvertakes, NoPage

LEMMA InsertCommitted ==
    ASSUME LogInv, plan.kind = "insert", CommitInsert
    PROVE  BookOK' /\ DebtIsExact'
<1>1. PICK id \in Ids, ingress \in Nodes \cup {NoNode}, required \in Memberships :
         plan = [kind |-> "insert", id |-> id, row |-> NewRow(ingress, required)] /\ Fresh(id)
  BY DEF LogInv, PlanOK, Idle, NoPlan, NoOpPlan, InsertPlan, ExcludePlan, ConfirmPlan,
         RetireRowPlan, RetireNodePlan
<1>2. plan.id = id /\ plan.row = NewRow(ingress, required)
  BY <1>1
<1>3. id \notin DOMAIN rows
  BY <1>1 DEF Fresh
<1>4. /\ DOMAIN rows' = DOMAIN rows \cup {id}
      /\ rows'[id] = NewRow(ingress, required)
      /\ \A i \in DOMAIN rows : rows'[i] = rows[i]
  BY <1>2, <1>3 DEF CommitInsert, Put
<1>5. /\ owed' = [owed EXCEPT ![id] = required \ {Self}]
      /\ required \subseteq Nodes
  BY <1>2, NewRowOK, LogAssumption DEF CommitInsert
<1>6. BookOK'
  BY <1>4, <1>5, NewRowOK DEF LogInv, BookOK
<1>7. DebtIsExact'
  BY <1>3, <1>4, <1>5, NewRowOK DEF LogInv, BookOK, DebtIsExact
<1> QED BY <1>6, <1>7

LEMMA ExcludeCommitted ==
    ASSUME LogInv, plan.kind = "exclude", CommitExclude
    PROVE  BookOK' /\ DebtIsExact'
<1>1. plan.id \in DOMAIN rows /\ plan.node \in Nodes
  BY DEF LogInv, PlanOK, Idle, NoPlan, NoOpPlan, InsertPlan, ExcludePlan, ConfirmPlan,
         RetireRowPlan, RetireNodePlan
<1>2. /\ DOMAIN rows' = DOMAIN rows /\ owed' = owed
      /\ \A i \in DOMAIN rows : RowOK(rows[i]) =>
           /\ RowOK(rows'[i])
           /\ rows'[i].required = rows[i].required /\ rows'[i].confirmed = rows[i].confirmed
  BY <1>1 DEF CommitExclude, RowOK, Row
<1> QED BY <1>2 DEF LogInv, BookOK, DebtIsExact

LEMMA ConfirmCommitted ==
    ASSUME LogInv, plan.kind = "confirm", CommitConfirm
    PROVE  BookOK' /\ DebtIsExact'
<1>1. plan.id \in DOMAIN rows /\ plan.node \in Nodes /\ Missing(rows[plan.id], plan.node)
  BY DEF LogInv, PlanOK, Idle, NoPlan, NoOpPlan, InsertPlan, ExcludePlan, ConfirmPlan,
         RetireRowPlan, RetireNodePlan
<1>2. /\ DOMAIN rows' = DOMAIN rows
      /\ \A i \in DOMAIN rows \ {plan.id} : rows'[i] = rows[i]
      /\ rows'[plan.id] = [rows[plan.id] EXCEPT !.confirmed = @ \cup {plan.node},
                                                !.excluded = @ \ {plan.node}]
  BY <1>1 DEF CommitConfirm
<1>3. /\ RowOK(rows'[plan.id])
      /\ rows'[plan.id].required = rows[plan.id].required
      /\ rows'[plan.id].confirmed = rows[plan.id].confirmed \cup {plan.node}
  <2>1. RowOK(rows[plan.id]) /\ plan.node \in rows[plan.id].required
    BY <1>1 DEF LogInv, BookOK, Missing
  <2>2. rows'[plan.id] = [required  |-> rows[plan.id].required,
                          confirmed |-> rows[plan.id].confirmed \cup {plan.node},
                          excluded  |-> rows[plan.id].excluded \ {plan.node}]
    BY <1>2, <2>1 DEF RowOK, Row
  <2> QED BY <1>1, <2>1, <2>2 DEF RowOK, Row
<1>4. owed' = [owed EXCEPT ![plan.id] = @ \ {plan.node}]
  BY DEF CommitConfirm
<1>5. BookOK'
  BY <1>1, <1>2, <1>3, <1>4 DEF LogInv, BookOK
<1>6. ASSUME NEW i \in Ids
      PROVE  IF i \in DOMAIN rows' THEN rows'[i].required \ rows'[i].confirmed = owed'[i]
                                   ELSE owed'[i] = {}
  <2>1. IF i \in DOMAIN rows THEN rows[i].required \ rows[i].confirmed = owed[i] ELSE owed[i] = {}
    BY DEF LogInv, DebtIsExact
  <2>2. CASE i = plan.id
    <3>1. owed'[i] = owed[i] \ {plan.node}
      BY <1>4, <2>2 DEF LogInv, BookOK
    <3> QED BY <1>1, <1>2, <1>3, <2>1, <2>2, <3>1
  <2>3. CASE i # plan.id
    <3>1. owed'[i] = owed[i]
      BY <1>4, <2>3 DEF LogInv, BookOK
    <3> QED BY <1>2, <2>1, <2>3, <3>1
  <2> QED BY <2>2, <2>3
<1> QED BY <1>5, <1>6 DEF DebtIsExact

LEMMA RowRetired ==
    ASSUME LogInv, plan.kind = "retire_row", CommitRetireRow
    PROVE  BookOK' /\ DebtIsExact'
<1>1. /\ plan.id \in DOMAIN rows /\ plan.node \in Nodes
      /\ Missing(rows[plan.id], plan.node) /\ CoveredAfter(rows[plan.id], plan.node)
  BY DEF LogInv, PlanOK, Idle, NoPlan, NoOpPlan, InsertPlan, ExcludePlan, ConfirmPlan,
         RetireRowPlan, RetireNodePlan
<1>2. /\ DOMAIN rows' = DOMAIN rows \ {plan.id}
      /\ \A i \in DOMAIN rows' : rows'[i] = rows[i]
  BY DEF CommitRetireRow, RemoveRow, Restrict
<1>3. owed' = [owed EXCEPT ![plan.id] = @ \ {plan.node}]
  BY DEF CommitRetireRow
<1>4. owed[plan.id] = {plan.node}
  BY <1>1, LastConfirmation DEF LogInv, BookOK, DebtIsExact
<1>5. BookOK'
  BY <1>1, <1>2, <1>3 DEF LogInv, BookOK
<1>6. DebtIsExact'
  BY <1>1, <1>2, <1>3, <1>4 DEF LogInv, BookOK, DebtIsExact
<1> QED BY <1>5, <1>6

\* The rows that lose the node, and what is left of them.
LEMMA NodeRetired ==
    ASSUME LogInv, plan.kind = "retire_node", CommitRetireNode
    PROVE  BookOK' /\ DebtIsExact'
<1> DEFINE n       == plan.node
           without == [i \in DOMAIN rows |->
                         [required  |-> rows[i].required \ {n},
                          confirmed |-> rows[i].confirmed \ {n},
                          excluded  |-> rows[i].excluded \ {n}]]
           touched == {i \in DOMAIN rows : n \in rows[i].required}
           gone    == {i \in touched : Covered(without[i])}
<1>1. /\ rows' = [i \in DOMAIN rows \ gone |-> IF i \in touched THEN without[i] ELSE rows[i]]
      /\ owed' = [i \in Ids |-> owed[i] \ {n}]
  BY Zenon DEF CommitRetireNode
<1>2. ASSUME NEW i \in DOMAIN rows
      PROVE  /\ RowOK(without[i])
             /\ without[i].required \ without[i].confirmed
                  = (rows[i].required \ rows[i].confirmed) \ {n}
  <2>1. RowOK(rows[i])
    BY DEF LogInv, BookOK
  <2>2. IsFiniteSet(rows[i].required \ {n})
    BY <2>1, FS_RemoveElement DEF RowOK
  <2> QED BY <2>1, <2>2 DEF RowOK, Row
<1> HIDE DEF without
<1>3. \A i \in gone : owed[i] \ {n} = {}
  <2> TAKE i \in gone
  <2>1. without[i].required \ without[i].confirmed = {}
    BY <1>2, CoveredRow
  <2> QED BY <1>2, <2>1 DEF LogInv, BookOK, DebtIsExact
<1>4. ASSUME NEW i \in DOMAIN rows \ gone
      PROVE  /\ i \in DOMAIN rows' /\ RowOK(rows'[i])
             /\ rows'[i].required \ rows'[i].confirmed = owed[i] \ {n}
  <2>1. i \in DOMAIN rows' /\ rows'[i] = IF i \in touched THEN without[i] ELSE rows[i]
    BY <1>1
  <2>2. owed[i] = rows[i].required \ rows[i].confirmed
    BY DEF LogInv, BookOK, DebtIsExact
  <2>3. CASE i \in touched
    BY <1>2, <2>1, <2>2, <2>3
  <2>4. CASE i \notin touched
    BY <2>1, <2>2, <2>4 DEF LogInv, BookOK
  <2> QED BY <2>3, <2>4
<1>5. DOMAIN rows' = DOMAIN rows \ gone
  BY <1>1
<1> HIDE DEF gone
<1>6. BookOK'
  BY <1>1, <1>4, <1>5 DEF LogInv, BookOK
<1>7. DebtIsExact'
  BY <1>1, <1>3, <1>4, <1>5 DEF LogInv, BookOK, DebtIsExact
<1> QED BY <1>6, <1>7

LEMMA CommitStep == LogInv /\ Commit => LogInv'
<1> SUFFICES ASSUME LogInv, Commit PROVE LogInv'
  OBVIOUS
<1>1. BookOK' /\ DebtIsExact'
  <2>1. CASE plan.kind = "no_op" /\ UNCHANGED <<log, owed>>
    BY <2>1 DEF LogInv, log, BookOK, DebtIsExact
  <2> QED
    BY <2>1, InsertCommitted, ExcludeCommitted, ConfirmCommitted, RowRetired, NodeRetired DEF Commit
<1> QED BY <1>1, Committed

-----------------------------------------------------------------------------
(* Pages. *)

\* A page takes heads only, and touches no list but that of the exclusions.
LEMMA Collected ==
    ASSUME LogInv, NEW node \in Nodes, CollectPage(node)
    PROVE  LogInv'
<1>1. /\ Idle /\ UNCHANGED <<plan, owed>>
      /\ page'.target = node
      /\ page'.ids \subseteq {OriginHead(node, o) : o \in MissingOrigins(node)}
  BY DEF CollectPage, Visited
<1>2. \E passed : rows' = [i \in DOMAIN rows |->
                            IF i \in passed THEN SpendExclusion(rows[i], node) ELSE rows[i]]
  BY DEF CollectPage
<1>3. /\ DOMAIN rows' = DOMAIN rows
      /\ \A i \in DOMAIN rows : rows'[i] = SpendExclusion(rows[i], node) \/ rows'[i] = rows[i]
  BY <1>2
<1>4. \A i \in DOMAIN rows : /\ RowOK(rows'[i])
                            /\ rows'[i].required = rows[i].required
                            /\ rows'[i].confirmed = rows[i].confirmed
  BY <1>3 DEF LogInv, BookOK, RowOK, Row, SpendExclusion
<1>5. BookOK' /\ DebtIsExact'
  BY <1>1, <1>3, <1>4 DEF LogInv, BookOK, DebtIsExact
<1>6. NeverOvertakes'
  <2> SUFFICES ASSUME NEW i \in page'.ids, NEW j \in DOMAIN rows',
                      OriginOf[i] = OriginOf[j], HlcOf[j] < HlcOf[i], Missing(rows'[j], node)
               PROVE  FALSE
    BY <1>1 DEF NeverOvertakes
  <2>1. PICK o \in MissingOrigins(node) : i = OriginHead(node, o)
    BY <1>1
  <2>2. /\ i \in MissingRows(node) /\ OriginOf[i] = o
        /\ \A k \in MissingRows(node) : OriginOf[k] = o => HlcOf[i] <= HlcOf[k]
    BY <2>1, HeadIsLowest DEF LogInv
  <2>3. j \in MissingRows(node)
    BY <1>3, <1>4 DEF MissingRows, Missing
  <2>4. HlcOf[i] <= HlcOf[j] /\ i \in Ids /\ j \in Ids
    BY <2>2, <2>3 DEF MissingRows, LogInv, BookOK
  <2> QED BY <2>4, LogAssumption
<1> QED BY <1>1, <1>5, <1>6 DEF LogInv, PlanOK, Idle

-----------------------------------------------------------------------------
(* The theorems. *)

LEMMA LogInit == Init => LogInv
BY DEF Init, LogInv, BookOK, PlanOK, Idle, DebtIsExact, NeverOvertakes, NoPage

LEMMA LogStep == LogInv /\ [Next]_vars => LogInv'
<1> SUFFICES ASSUME LogInv, [Next]_vars PROVE LogInv'
  OBVIOUS
<1>1. CASE \E id \in Ids, ingress \in Nodes \cup {NoNode}, required \in Memberships :
             PrepareInsert(id, ingress, required)
  BY <1>1, InsertPrepared
<1>2. CASE \E id \in Ids, ingress \in Nodes \cup {NoNode} : PrepareDuplicate(id, ingress)
  BY <1>2, DuplicatePrepared
<1>3. CASE \E id \in Ids, node \in Nodes : PrepareAck(id, node)
  BY <1>3, AckPrepared
<1>4. CASE \E node \in Nodes : CollectPage(node)
  BY <1>4, Collected
<1>5. CASE UNCHANGED vars
  BY <1>5 DEF vars, log, LogInv, BookOK, PlanOK, Idle, NoOpPlan, InsertPlan, ExcludePlan,
              ConfirmPlan, RetireRowPlan, RetireNodePlan, DebtIsExact, NeverOvertakes, Fresh,
              Fits, MissingRows
<1> QED BY <1>1, <1>2, <1>3, <1>4, <1>5, OtherwisePrepared, CommitStep DEF Next

\* The log keeps its book: what it holds, what it is about to commit, and what
\* it shows to a target agree.
THEOREM LogInvariant == Spec => []LogInv
<1> QED BY LogInit, LogStep, PTL DEF Spec

\* coverageAfterConfirmation and removeRowAt: what a node owes is exact, and a
\* row is gone only when nobody is missing.
THEOREM DebtNeverErrs == Spec => []DebtIsExact
<1>1. LogInv => DebtIsExact
  BY DEF LogInv
<1> QED BY <1>1, LogInvariant, PTL

\* beginPrepare: what was tested when a mutation was prepared still holds when
\* it is committed.
THEOREM PlansStayCurrent == Spec => []PlanIsCurrent
<1>1. LogInv => PlanIsCurrent
  BY DEF LogInv, PlanOK, PlanIsCurrent, Idle, NoPlan, NoOpPlan, InsertPlan, ExcludePlan,
         ConfirmPlan, RetireRowPlan, RetireNodePlan
<1> QED BY <1>1, LogInvariant, PTL

\* collectPageForNode: a newer event never overtakes an older one of its author.
THEOREM OrderPerAuthor == Spec => []NeverOvertakes
<1>1. LogInv => NeverOvertakes
  BY DEF LogInv
<1> QED BY <1>1, LogInvariant, PTL

\* What a step may do to a retained row.
LEMMA ShrinkingStep ==
    ASSUME LogInv, [Next]_vars, NEW i \in DOMAIN rows, i \in DOMAIN rows'
    PROVE  /\ rows'[i].required \subseteq rows[i].required
           /\ rows[i].confirmed \cap rows'[i].required \subseteq rows'[i].confirmed
<1>0. RowOK(rows[i])
  BY DEF LogInv, BookOK
<1>1. CASE UNCHANGED rows
  BY <1>1
<1>2. CASE \E node \in Nodes : CollectPage(node)
  <2>1. PICK node \in Nodes : CollectPage(node)
    BY <1>2
  <2>2. PICK passed :
           rows' = [j \in DOMAIN rows |->
                      IF j \in passed THEN SpendExclusion(rows[j], node) ELSE rows[j]]
    BY <2>1 DEF CollectPage
  <2>3. rows'[i] = SpendExclusion(rows[i], node) \/ rows'[i] = rows[i]
    BY <2>2
  <2> QED BY <1>0, <2>3 DEF SpendExclusion, RowOK, Row
<1>3. CASE Commit
  <2>1. CASE plan.kind = "insert" /\ CommitInsert
    <3>1. plan.id \notin DOMAIN rows
      BY <2>1 DEF LogInv, PlanOK, Idle, NoPlan, NoOpPlan, InsertPlan, ExcludePlan, ConfirmPlan,
                  RetireRowPlan, RetireNodePlan, Fresh
    <3> QED BY <2>1, <3>1 DEF CommitInsert, Put
  <2>2. CASE CommitExclude \/ CommitConfirm
    <3>1. CASE i # plan.id
      BY <2>2, <3>1 DEF CommitExclude, CommitConfirm
    <3>2. CASE i = plan.id
      <4>1. CASE CommitExclude
        BY <1>0, <3>2, <4>1 DEF CommitExclude, RowOK, Row
      <4>2. CASE CommitConfirm
        <5>1. rows'[i] = [required  |-> rows[i].required,
                          confirmed |-> rows[i].confirmed \cup {plan.node},
                          excluded  |-> rows[i].excluded \ {plan.node}]
          BY <1>0, <3>2, <4>2 DEF CommitConfirm, RowOK, Row
        <5> QED BY <5>1
      <4> QED BY <2>2, <4>1, <4>2
    <3> QED BY <3>1, <3>2
  <2>3. CASE CommitRetireRow
    BY <2>3 DEF CommitRetireRow, RemoveRow, Restrict
  <2>4. CASE CommitRetireNode
    <3> DEFINE n       == plan.node
               without == [j \in DOMAIN rows |->
                             [required  |-> rows[j].required \ {n},
                              confirmed |-> rows[j].confirmed \ {n},
                              excluded  |-> rows[j].excluded \ {n}]]
               touched == {j \in DOMAIN rows : n \in rows[j].required}
               gone    == {j \in touched : Covered(without[j])}
    <3>1. rows' = [j \in DOMAIN rows \ gone |-> IF j \in touched THEN without[j] ELSE rows[j]]
      BY <2>4, Zenon DEF CommitRetireNode
    <3>2. rows'[i] = without[i] \/ rows'[i] = rows[i]
      BY <3>1
    <3> QED BY <3>2
  <2> QED BY <1>1, <1>3, <2>1, <2>2, <2>3, <2>4 DEF Commit, log
<1> QED BY <1>1, <1>2, <1>3 DEF Next, PrepareInsert, PrepareDuplicate, PrepareAck,
                               PrepareRetirement, Abort, Restart, log, vars

\* PreparedNodeRetirement.commit and the confirmations: later joins do not
\* modify an existing row, and no confirmation is taken back.
THEOREM SnapshotsShrink == Spec => SnapshotOnlyShrinks
<1> DEFINE Shrinks ==
             \A i \in DOMAIN rows \cap DOMAIN rows' :
               /\ rows'[i].required \subseteq rows[i].required
               /\ rows[i].confirmed \cap rows'[i].required \subseteq rows'[i].confirmed
<1>1. LogInv /\ [Next]_vars => [Shrinks]_vars
  BY ShrinkingStep
<1> QED BY <1>1, LogInvariant, PTL DEF Spec, SnapshotOnlyShrinks

-----------------------------------------------------------------------------
(* The second invariant: what a checkpoint tests. *)

\* Rows that a decoder takes.
RowsSeal ==
    /\ rows = [i \in DOMAIN rows |-> rows[i]]
    /\ IsFiniteSet(DOMAIN rows) /\ Cardinality(DOMAIN rows) <= MaxRows
    /\ \A i \in DOMAIN rows : RowValid(rows[i])
    /\ \A i, j \in DOMAIN rows : i # j => OriginOf[i] # OriginOf[j] \/ HlcOf[i] # HlcOf[j]

\* Cursors at origins that have a row.
CursorsSeal ==
    /\ DOMAIN cursors \subseteq Nodes /\ cursors = [n \in DOMAIN cursors |-> cursors[n]]
    /\ IsFiniteSet(DOMAIN cursors) /\ Cardinality(DOMAIN cursors) <= MaxCursors
    /\ \A n \in DOMAIN cursors : HasOrigin(rows, cursors[n])

\* Counters that are the sums of both, within their bounds.
BytesAgree ==
    /\ aggregate = Recomputed(rows, cursors) /\ aggregate <= MaxAggregate
    /\ body = RecomputedBody(rows, cursors) /\ body <= MaxBody

\* What a plan was granted, beyond what PlanOK says.
PlanFits ==
    /\ plan.kind = "insert" => Cardinality(DOMAIN rows) < MaxRows
    /\ plan.kind = "exclude" => Fits(NodeCost, 0)
    /\ plan.kind = "confirm" =>
         /\ ~CoveredAfter(rows[plan.id], plan.node)
         /\ plan.node \in rows[plan.id].excluded \/ Fits(NodeCost, 0)

SealInv == RowsSeal /\ CursorsSeal /\ BytesAgree /\ PlanFits

-----------------------------------------------------------------------------
(* Bytes. *)

RowSizes(rs) == [i \in DOMAIN rs |-> RowBytes(rs[i])]
RowSum(rs)   == SumFunctionOnSet(RowSizes(rs), DOMAIN rs)

\* The lists of a row are finite, and its bytes a number.
LEMMA Sizes ==
    ASSUME NEW r, RowOK(r), RowValid(r)
    PROVE  /\ IsFiniteSet(r.required) /\ IsFiniteSet(r.confirmed) /\ IsFiniteSet(r.excluded)
           /\ Cardinality(r.required) \in Nat
           /\ Cardinality(r.confirmed) \in Nat
           /\ Cardinality(r.excluded) \in Nat
           /\ RowBytes(r) \in Nat
<1>1. IsFiniteSet(r.required) /\ IsFiniteSet(r.confirmed) /\ IsFiniteSet(r.excluded)
  BY FS_Subset DEF RowOK, RowValid
<1>2. /\ Cardinality(r.required) \in Nat
      /\ Cardinality(r.confirmed) \in Nat
      /\ Cardinality(r.excluded) \in Nat
  BY <1>1, FS_CardinalityType
<1>3. RowBytes(r) \in Nat
  BY <1>2, LogAssumption DEF RowBytes
<1> QED BY <1>1, <1>2, <1>3

\* The sums of a log that holds.
LEMMA SumsHere ==
    ASSUME LogInv, SealInv
    PROVE  /\ IsFiniteSet(DOMAIN rows) /\ IsFiniteSet(DOMAIN cursors)
           /\ Cardinality(DOMAIN rows) \in Nat /\ Cardinality(DOMAIN cursors) \in Nat
           /\ \A i \in DOMAIN rows : /\ RowOK(rows[i]) /\ RowValid(rows[i])
                                     /\ RowBytes(rows[i]) \in Nat
           /\ RowSum(rows) \in Nat
           /\ Recomputed(rows, cursors) = RowSum(rows) + CursorCost * Cardinality(DOMAIN cursors)
           /\ Recomputed(rows, cursors) \in Nat
<1>1. IsFiniteSet(DOMAIN rows) /\ IsFiniteSet(DOMAIN cursors)
  BY DEF SealInv, RowsSeal, CursorsSeal
<1>2. Cardinality(DOMAIN rows) \in Nat /\ Cardinality(DOMAIN cursors) \in Nat
  BY <1>1, FS_CardinalityType
<1>3. \A i \in DOMAIN rows : RowOK(rows[i]) /\ RowValid(rows[i]) /\ RowBytes(rows[i]) \in Nat
  BY Sizes DEF LogInv, BookOK, SealInv, RowsSeal
<1>4. RowSum(rows) \in Nat
  <2>1. \A i \in DOMAIN rows : RowSizes(rows)[i] \in Nat
    BY <1>3 DEF RowSizes
  <2> QED BY <1>1, <2>1, SumOfNaturals DEF RowSum
<1>5. Recomputed(rows, cursors) = RowSum(rows) + CursorCost * Cardinality(DOMAIN cursors)
  BY DEF Recomputed, RowSum, RowSizes, SumFunction
<1>6. CursorCost * Cardinality(DOMAIN cursors) \in Nat
  BY <1>2, LogAssumption
<1> QED BY <1>1, <1>2, <1>3, <1>4, <1>5, <1>6

\* The counters follow what is there when they are charged for it.
LEMMA Booked ==
    ASSUME LogInv, SealInv,
           NEW content \in Int, NEW change \in Int, NEW prefixes \in Int, NEW places \in Int,
           content = change + CursorCost * places,
           Charge(content, prefixes), Fits(content, prefixes),
           RowSum(rows') = RowSum(rows) + change,
           Cardinality(DOMAIN rows') = Cardinality(DOMAIN rows) + prefixes,
           Cardinality(DOMAIN cursors') = Cardinality(DOMAIN cursors) + places
    PROVE  BytesAgree'
<1> DEFINE old == RowPrefix * Cardinality(DOMAIN rows)
           new == RowPrefix * prefixes
           was == CursorCost * Cardinality(DOMAIN cursors)
           is  == CursorCost * places
           now == CursorCost * Cardinality(DOMAIN cursors')
           row == RowPrefix * Cardinality(DOMAIN rows')
<1>1. /\ old \in Int /\ new \in Int /\ row = old + new
      /\ was \in Int /\ is \in Int /\ now = was + is
  BY SumsHere, LogAssumption
<1>2. Recomputed(rows, cursors)' = RowSum(rows') + now
  BY DEF Recomputed, RowSum, RowSizes, SumFunction
<1>3. RecomputedBody(rows, cursors)' = Recomputed(rows, cursors)' + row
  BY DEF RecomputedBody
<1>4. /\ aggregate = Recomputed(rows, cursors) /\ body = Recomputed(rows, cursors) + old
      /\ Recomputed(rows, cursors) = RowSum(rows) + was
      /\ RowSum(rows) \in Int
  BY SumsHere DEF SealInv, BytesAgree, RecomputedBody
<1>5. /\ aggregate' = aggregate + content /\ body' = body + content + new
      /\ aggregate + content <= MaxAggregate /\ body + content + new <= MaxBody
      /\ content = change + is
  BY DEF Charge, Fits
<1> HIDE DEF old, new, was, is, now, row
<1>6. aggregate' = Recomputed(rows, cursors)' /\ body' = RecomputedBody(rows, cursors)'
  BY <1>1, <1>2, <1>3, <1>4, <1>5
<1> QED BY <1>5, <1>6 DEF BytesAgree

\* A step that asks for less than what is known to fit, or for nothing, fits.
LEMMA LessFits ==
    ASSUME LogInv, SealInv, NEW content \in Int, NEW prefixes \in Int,
           content <= 0, prefixes <= 0
    PROVE  Fits(content, prefixes)
<1>1. RowPrefix * prefixes \in Int /\ RowPrefix * prefixes <= 0
  BY LogAssumption
<1>2. aggregate \in Int /\ body \in Int
  <2>1. RowPrefix * Cardinality(DOMAIN rows) \in Int
    BY SumsHere, LogAssumption
  <2> QED BY <2>1, SumsHere DEF SealInv, BytesAgree, RecomputedBody
<1>3. aggregate <= MaxAggregate /\ body <= MaxBody
  BY DEF SealInv, BytesAgree
<1> QED BY <1>1, <1>2, <1>3, LogAssumption DEF Fits

\* Some rows of a set are rewritten.
LEMMA RowsRewritten ==
    ASSUME LogInv, SealInv, NEW new,
           NEW P \in SUBSET DOMAIN rows, NEW saved,
           \A i \in DOMAIN rows : new[i] \in Int,
           \A i \in DOMAIN rows \ P : new[i] = RowBytes(rows[i]),
           \A i \in P : saved[i] = RowBytes(rows[i]) - new[i]
    PROVE  /\ SumFunctionOnSet(saved, P) \in Int
           /\ SumFunctionOnSet(new, DOMAIN rows) \in Int
           /\ SumFunctionOnSet(new, DOMAIN rows) = RowSum(rows) - SumFunctionOnSet(saved, P)
<1> DEFINE old == RowSizes(rows)
<1>1. \A i \in DOMAIN rows : old[i] = RowBytes(rows[i]) /\ old[i] \in Int
  BY SumsHere DEF RowSizes
<1>2. \A i \in P : saved[i] = old[i] - new[i]
  BY <1>1
<1>3. \A i \in DOMAIN rows \ P : new[i] = old[i]
  BY <1>1
<1> HIDE DEF old
<1>4. IsFiniteSet(DOMAIN rows)
  BY SumsHere
<1>5. SumFunctionOnSet(new, DOMAIN rows)
        = SumFunctionOnSet(old, DOMAIN rows) - SumFunctionOnSet(saved, P)
  BY <1>1, <1>2, <1>3, <1>4, SumChanges
<1>6. SumFunctionOnSet(saved, P) \in Int
  <2>1. IsFiniteSet(P)
    BY <1>4, FS_Subset
  <2>2. \A i \in P : saved[i] \in Int
    BY <1>1, <1>2
  <2> QED BY <2>1, <2>2, SumType
<1>7. SumFunctionOnSet(new, DOMAIN rows) \in Int
  BY <1>4, SumType
<1> QED BY <1>5, <1>6, <1>7 DEF RowSum, old

-----------------------------------------------------------------------------
(* The steps that change no row. *)

LEMMA SealKept ==
    ASSUME SealInv, UNCHANGED log, PlanFits' PROVE SealInv'
BY DEF SealInv, RowsSeal, CursorsSeal, BytesAgree, log

LEMMA SealPrepared ==
    ASSUME LogInv, SealInv,
           \/ \E id \in Ids, ingress \in Nodes \cup {NoNode}, required \in Memberships :
                PrepareInsert(id, ingress, required)
           \/ \E id \in Ids, ingress \in Nodes \cup {NoNode} : PrepareDuplicate(id, ingress)
           \/ \E id \in Ids, node \in Nodes : PrepareAck(id, node)
           \/ \E node \in Nodes : PrepareRetirement(node)
           \/ Abort
    PROVE  SealInv'
<1>1. UNCHANGED log
  BY DEF PrepareInsert, PrepareDuplicate, PrepareAck, PrepareRetirement, Abort
<1>2. PlanFits'
  <2>1. CASE \E id \in Ids, ingress \in Nodes \cup {NoNode}, required \in Memberships :
               PrepareInsert(id, ingress, required)
    BY <1>1, <2>1 DEF PrepareInsert, PlanFits, log
  <2>2. CASE \E id \in Ids, ingress \in Nodes \cup {NoNode} : PrepareDuplicate(id, ingress)
    BY <1>1, <2>2 DEF PrepareDuplicate, PlanFits, log, Fits
  <2>3. CASE \E id \in Ids, node \in Nodes : PrepareAck(id, node)
    BY <1>1, <2>3 DEF PrepareAck, PlanFits, log, Fits, AckFits, CoveredAfter
  <2>4. CASE (\E node \in Nodes : PrepareRetirement(node)) \/ Abort
    BY <2>4 DEF PrepareRetirement, Abort, NoPlan, PlanFits
  <2> QED BY <2>1, <2>2, <2>3, <2>4
<1> QED BY <1>1, <1>2, SealKept

\* The restored counter is the one that was there.
LEMMA SealRestored ==
    ASSUME LogInv, SealInv, Restart
    PROVE  SealInv'
BY DEF Restart, Encodes, Idle, NoPlan, SealInv, RowsSeal, CursorsSeal, BytesAgree, PlanFits

-----------------------------------------------------------------------------
(* The commits. *)

\* What is left to show of a commit.
LEMMA SealCommitted ==
    ASSUME Commit, RowsSeal', CursorsSeal', BytesAgree' PROVE SealInv'
BY DEF Commit, NoPlan, SealInv, PlanFits

LEMMA NewRowValid ==
    ASSUME NEW ingress \in Nodes \cup {NoNode}, NEW required \in Memberships
    PROVE  RowValid(NewRow(ingress, required))
<1>1. Cardinality({Self}) = 1
  BY FS_Singleton
<1>2. /\ Self \in required /\ Cardinality(required) \in 2..MaxNodesPerRow
      /\ MaxNodesPerRow \in Nat
  BY LogAssumption
<1> QED BY <1>1, <1>2 DEF NewRow, RowValid, Covered

LEMMA SealInserted ==
    ASSUME LogInv, SealInv, plan.kind = "insert", CommitInsert
    PROVE  RowsSeal' /\ CursorsSeal' /\ BytesAgree'
<1>1. PICK id \in Ids, ingress \in Nodes \cup {NoNode}, required \in Memberships :
         /\ plan = [kind |-> "insert", id |-> id, row |-> NewRow(ingress, required)] 
         /\ Fresh(id) /\ Fits(RowBytes(NewRow(ingress, required)), 1)
  BY DEF LogInv, PlanOK, Idle, NoPlan, NoOpPlan, InsertPlan, ExcludePlan, ConfirmPlan,
         RetireRowPlan, RetireNodePlan
<1> DEFINE r == NewRow(ingress, required)
<1>2. plan.id = id /\ plan.row = r
  BY <1>1
<1>3. RowOK(r) /\ RowValid(r)
  BY NewRowOK, NewRowValid
<1> HIDE DEF r
<1>4. id \notin DOMAIN rows /\ Cardinality(DOMAIN rows) < MaxRows /\ Fits(RowBytes(r), 1)
  BY <1>1 DEF Fresh, SealInv, PlanFits, r
<1>5. rows' = [i \in DOMAIN rows \cup {id} |-> IF i = id THEN r ELSE rows[i]]
  BY <1>2 DEF CommitInsert, Put
<1>6. /\ DOMAIN rows' = DOMAIN rows \cup {id} /\ rows'[id] = r
      /\ \A i \in DOMAIN rows : rows'[i] = rows[i]
      /\ cursors' = cursors
  BY <1>4, <1>5 DEF CommitInsert
<1>7. /\ IsFiniteSet(DOMAIN rows') /\ Cardinality(DOMAIN rows') = Cardinality(DOMAIN rows) + 1
      /\ Cardinality(DOMAIN rows) \in Nat
  BY <1>4, <1>6, SumsHere, FS_AddElement
<1>8. RowsSeal'
  <2>1. rows' = [i \in DOMAIN rows' |-> rows'[i]]
    BY <1>5
  <2>2. \A i \in DOMAIN rows' : RowValid(rows'[i])
    BY <1>3, <1>6 DEF SealInv, RowsSeal
  <2>3. \A i, j \in DOMAIN rows' : i # j => OriginOf[i] # OriginOf[j] \/ HlcOf[i] # HlcOf[j]
    BY <1>1, <1>6 DEF SealInv, RowsSeal, Fresh
  <2>4. Cardinality(DOMAIN rows') <= MaxRows
    BY <1>4, <1>7, LogAssumption
  <2> QED BY <1>7, <2>1, <2>2, <2>3, <2>4 DEF RowsSeal
<1>9. CursorsSeal'
  BY <1>6 DEF SealInv, CursorsSeal, HasOrigin
<1>10. RowSum(rows') = RowSum(rows) + RowBytes(r) /\ RowBytes(r) \in Nat
  <2>1. RowBytes(r) \in Nat
    BY <1>3, Sizes
  <2> DEFINE new == RowSizes(rows')
             old == RowSizes(rows)
  <2>2. \A i \in DOMAIN rows' : new[i] = RowBytes(rows'[i])
    BY DEF RowSizes
  <2>3. new[id] = RowBytes(r) /\ \A i \in DOMAIN rows : new[i] = old[i] /\ new[i] \in Int
    BY <1>6, <2>2, SumsHere DEF RowSizes
  <2> HIDE DEF new, old
  <2>4. id \in DOMAIN rows' /\ DOMAIN rows' \ {id} = DOMAIN rows
    BY <1>4, <1>6
  <2>5. \A i \in DOMAIN rows' : new[i] \in Int
    BY <1>6, <2>1, <2>3
  <2>6. SumFunctionOnSet(new, DOMAIN rows')
          = RowBytes(r) + SumFunctionOnSet(new, DOMAIN rows)
    BY <1>7, <2>3, <2>4, <2>5, SumTakes
  <2>7. SumFunctionOnSet(new, DOMAIN rows) = SumFunctionOnSet(old, DOMAIN rows)
    BY <2>3, SumsHere, SumSame
  <2>8. RowSum(rows) = SumFunctionOnSet(old, DOMAIN rows) /\ RowSum(rows) \in Int
    BY SumsHere DEF RowSum, old
  <2>9. RowSum(rows') = SumFunctionOnSet(new, DOMAIN rows')
    BY DEF RowSum, new
  <2> QED BY <2>1, <2>6, <2>7, <2>8, <2>9
<1>11. Charge(RowBytes(r), 1)
  BY <1>2 DEF CommitInsert
<1>12. BytesAgree'
  <2>1. CursorCost * 0 = 0
    BY LogAssumption
  <2>2. /\ RowBytes(r) = RowBytes(r) + CursorCost * 0
        /\ Cardinality(DOMAIN cursors') = Cardinality(DOMAIN cursors) + 0
    BY <1>6, <1>10, <2>1, SumsHere
  <2> QED BY <1>4, <1>7, <1>10, <1>11, <2>2, Booked
<1> QED BY <1>8, <1>9, <1>12

\* One row becomes another one of the same identity.
LEMMA RowReplaced ==
    ASSUME LogInv, SealInv, NEW id \in DOMAIN rows, NEW r, RowOK(r), RowValid(r), NEW cost \in Int,
           rows' = [i \in DOMAIN rows |-> IF i = id THEN r ELSE rows[i]],
           RowBytes(r) = RowBytes(rows[id]) + cost,
           cursors' = cursors, Charge(cost, 0), Fits(cost, 0)
    PROVE  RowsSeal' /\ CursorsSeal' /\ BytesAgree'
<1>1. /\ DOMAIN rows' = DOMAIN rows
      /\ rows'[id] = r /\ \A i \in DOMAIN rows \ {id} : rows'[i] = rows[i]
  OBVIOUS
<1>2. RowsSeal' /\ CursorsSeal'
  <2>1. rows' = [i \in DOMAIN rows' |-> rows'[i]]
    OBVIOUS
  <2>2. \A i \in DOMAIN rows' : RowValid(rows'[i])
    BY <1>1 DEF SealInv, RowsSeal
  <2>3. RowsSeal'
    BY <1>1, <2>1, <2>2 DEF SealInv, RowsSeal
  <2>4. CursorsSeal'
    BY <1>1 DEF SealInv, CursorsSeal, HasOrigin
  <2> QED BY <2>3, <2>4
<1>3. RowSum(rows') = RowSum(rows) + cost
  <2> DEFINE new   == RowSizes(rows')
             saved == [i \in {id} |-> RowBytes(rows[id]) - RowBytes(r)]
  <2>1. RowBytes(r) \in Nat
    BY Sizes
  <2>2. \A i \in DOMAIN rows : new[i] = RowBytes(rows'[i])
    BY <1>1 DEF RowSizes
  <2>3. \A i \in DOMAIN rows : new[i] \in Int
    BY <1>1, <2>1, <2>2, SumsHere
  <2>4. \A i \in DOMAIN rows \ {id} : new[i] = RowBytes(rows[i])
    BY <1>1, <2>2
  <2>5. saved[id] = RowBytes(rows[id]) - new[id] /\ saved[id] \in Int
    BY <1>1, <2>1, <2>2, SumsHere
  <2>6. saved[id] = -cost
    BY <1>1, <2>1, <2>2, SumsHere
  <2> HIDE DEF new, saved
  <2>7. {id} \in SUBSET DOMAIN rows
    OBVIOUS
  <2>8. /\ SumFunctionOnSet(new, DOMAIN rows) = RowSum(rows) - SumFunctionOnSet(saved, {id})
    BY <2>3, <2>4, <2>5, <2>7, RowsRewritten
  <2>9. SumFunctionOnSet(saved, {id}) = -cost
    BY <2>5, <2>6, SumOfOne
  <2>10. RowSum(rows') = SumFunctionOnSet(new, DOMAIN rows)
    BY <1>1 DEF RowSum, new
  <2>11. RowSum(rows) \in Int
    BY SumsHere
  <2> QED BY <2>8, <2>9, <2>10, <2>11
<1>4. BytesAgree'
  <2>1. CursorCost * 0 = 0
    BY LogAssumption
  <2>2. /\ cost = cost + CursorCost * 0
        /\ Cardinality(DOMAIN cursors') = Cardinality(DOMAIN cursors) + 0
        /\ Cardinality(DOMAIN rows') = Cardinality(DOMAIN rows) + 0
    BY <1>1, <2>1, SumsHere
  <2> QED BY <1>3, <2>2, Booked
<1> QED BY <1>2, <1>4

LEMMA SealExcluded ==
    ASSUME LogInv, SealInv, plan.kind = "exclude", CommitExclude
    PROVE  RowsSeal' /\ CursorsSeal' /\ BytesAgree'
<1>1. /\ plan.id \in DOMAIN rows /\ plan.node \in Nodes
      /\ Missing(rows[plan.id], plan.node) /\ plan.node \notin rows[plan.id].excluded
  BY DEF LogInv, PlanOK, Idle, NoPlan, NoOpPlan, InsertPlan, ExcludePlan, ConfirmPlan,
         RetireRowPlan, RetireNodePlan
<1> DEFINE old == rows[plan.id]
           r   == [required |-> old.required, confirmed |-> old.confirmed,
                   excluded |-> old.excluded \cup {plan.node}]
<1>2. RowOK(old) /\ RowValid(old)
  BY <1>1, SumsHere
<1>3. rows' = [i \in DOMAIN rows |-> IF i = plan.id THEN r ELSE rows[i]]
  <2>1. /\ rows' = [i \in DOMAIN rows |-> rows'[i]]
        /\ \A i \in DOMAIN rows \ {plan.id} : rows'[i] = rows[i]
        /\ rows'[plan.id] = [old EXCEPT !.excluded = @ \cup {plan.node}]
    BY <1>1 DEF CommitExclude
  <2>2. rows'[plan.id] = r
    BY <1>2, <2>1 DEF RowOK, Row
  <2> HIDE DEF r
  <2> QED BY <2>1, <2>2
<1>4. RowOK(r) /\ RowValid(r)
  BY <1>1, <1>2 DEF RowOK, Row, RowValid, Missing, Covered
<1>5. RowBytes(r) = RowBytes(old) + NodeCost
  <2>1. Cardinality(old.excluded \cup {plan.node}) = Cardinality(old.excluded) + 1
    BY <1>1, <1>2, Sizes, FS_AddElement
  <2>2. NodeCost * (Cardinality(old.required) + Cardinality(old.confirmed)
                      + (Cardinality(old.excluded) + 1))
          = NodeCost * (Cardinality(old.required) + Cardinality(old.confirmed)
                          + Cardinality(old.excluded)) + NodeCost
    BY <1>2, Sizes, LogAssumption
  <2>3. NodeCost * (Cardinality(old.required) + Cardinality(old.confirmed)
                          + Cardinality(old.excluded)) \in Int
    BY <1>2, Sizes, LogAssumption
  <2> QED BY <2>1, <2>2, <2>3, LogAssumption DEF RowBytes
<1> HIDE DEF r
<1>6. Charge(NodeCost, 0) /\ cursors' = cursors /\ Fits(NodeCost, 0) /\ NodeCost \in Int
  BY LogAssumption DEF CommitExclude, SealInv, PlanFits
<1> QED BY <1>1, <1>3, <1>4, <1>5, <1>6, RowReplaced

LEMMA SealConfirmed ==
    ASSUME LogInv, SealInv, plan.kind = "confirm", CommitConfirm
    PROVE  RowsSeal' /\ CursorsSeal' /\ BytesAgree'
<1>1. /\ plan.id \in DOMAIN rows /\ plan.node \in Nodes
      /\ Missing(rows[plan.id], plan.node)
  BY DEF LogInv, PlanOK, Idle, NoPlan, NoOpPlan, InsertPlan, ExcludePlan, ConfirmPlan,
         RetireRowPlan, RetireNodePlan
<1> DEFINE old  == rows[plan.id]
           r    == [required |-> old.required, confirmed |-> old.confirmed \cup {plan.node},
                    excluded |-> old.excluded \ {plan.node}]
           cost == ConfirmedCost(plan.node, old)
<1>2. RowOK(old) /\ RowValid(old)
  BY <1>1, SumsHere
<1>3. rows' = [i \in DOMAIN rows |-> IF i = plan.id THEN r ELSE rows[i]]
  <2>1. /\ rows' = [i \in DOMAIN rows |-> rows'[i]]
        /\ \A i \in DOMAIN rows \ {plan.id} : rows'[i] = rows[i]
        /\ rows'[plan.id] = [old EXCEPT !.confirmed = @ \cup {plan.node},
                                    !.excluded = @ \ {plan.node}]
    BY <1>1 DEF CommitConfirm
  <2>2. rows'[plan.id] = r
    BY <1>2, <2>1 DEF RowOK, Row
  <2> HIDE DEF r
  <2> QED BY <2>1, <2>2
<1>4. /\ Cardinality(old.confirmed \cup {plan.node}) = Cardinality(old.confirmed) + 1
      /\ Cardinality(old.excluded \ {plan.node})
           = IF plan.node \in old.excluded THEN Cardinality(old.excluded) - 1
                                           ELSE Cardinality(old.excluded)
  BY <1>1, <1>2, Sizes, FS_AddElement, FS_RemoveElement DEF Missing
<1>5. RowOK(r) /\ RowValid(r)
  <2>1. ~CoveredAfter(old, plan.node)
    BY DEF SealInv, PlanFits
  <2> QED BY <1>1, <1>2, <1>4, <2>1 DEF RowOK, Row, RowValid, Missing, Covered, CoveredAfter
<1>6. RowBytes(r) = RowBytes(old) + cost /\ cost \in Nat
  <2> DEFINE q == Cardinality(old.required)
             c == Cardinality(old.confirmed)
             x == Cardinality(old.excluded)
  <2>1. q \in Nat /\ c \in Nat /\ x \in Nat /\ NodeCost \in Nat
    BY <1>2, Sizes, LogAssumption
  <2> HIDE DEF q, c, x
  <2>2. CASE plan.node \in old.excluded
    <3>1. q + (c + 1) + (x - 1) = q + c + x
      BY <2>1
    <3>2. RowBytes(r) = WireCost + NodeCost * (q + (c + 1) + (x - 1))
      BY <1>4, <2>2 DEF RowBytes, q, c, x
    <3>3. RowBytes(old) = WireCost + NodeCost * (q + c + x)
      BY DEF RowBytes, q, c, x
    <3>4. RowBytes(old) \in Nat
      BY <1>2, Sizes
    <3> QED BY <2>2, <3>1, <3>2, <3>3, <3>4 DEF ConfirmedCost
  <2>3. CASE plan.node \notin old.excluded
    <3>1. NodeCost * (q + (c + 1) + x) = NodeCost * (q + c + x) + NodeCost
      BY <2>1
    <3>2. RowBytes(r) = WireCost + NodeCost * (q + (c + 1) + x)
      BY <1>4, <2>3 DEF RowBytes, q, c, x
    <3>3. RowBytes(old) = WireCost + NodeCost * (q + c + x)
      BY DEF RowBytes, q, c, x
    <3>4. NodeCost * (q + c + x) \in Nat
      BY <2>1
    <3> QED BY <2>1, <2>3, <3>1, <3>2, <3>3, <3>4, LogAssumption DEF ConfirmedCost
  <2> QED BY <2>2, <2>3
<1>7. Charge(cost, 0) /\ cursors' = cursors
  BY DEF CommitConfirm
<1>8. Fits(cost, 0)
  <2>1. CASE plan.node \in old.excluded
    BY <2>1, LessFits DEF ConfirmedCost
  <2>2. CASE plan.node \notin old.excluded
    BY <2>2 DEF ConfirmedCost, SealInv, PlanFits
  <2> QED BY <2>1, <2>2
<1> HIDE DEF r, cost
<1> QED BY <1>1, <1>3, <1>5, <1>6, <1>7, <1>8, RowReplaced

-----------------------------------------------------------------------------
(* Removals. *)

\* Of some rows, one has the greatest author.
LEMMA GreatestAuthor ==
    ASSUME NEW S \in SUBSET Ids, IsFiniteSet(S), S # {}
    PROVE  \E i \in S : \A j \in S : OriginOf[j] <= OriginOf[i]
<1> DEFINE Good == {T \in SUBSET S : T # {} => \E i \in T : \A j \in T : OriginOf[j] <= OriginOf[i]}
<1>0. \A i \in S : OriginOf[i] \in Nat
  BY LogAssumption
<1>1. ASSUME NEW T \in SUBSET S, \A U \in SUBSET T : U # T => U \in Good
      PROVE  T \in Good
  <2> SUFFICES ASSUME T # {} PROVE \E i \in T : \A j \in T : OriginOf[j] <= OriginOf[i]
    OBVIOUS
  <2>1. PICK x \in T : TRUE
    OBVIOUS
  <2>2. T \ {x} \in Good
    BY <1>1
  <2>3. CASE T \ {x} = {}
    BY <1>0, <2>1, <2>3
  <2>4. CASE T \ {x} # {}
    <3>1. PICK i \in T \ {x} : \A j \in T \ {x} : OriginOf[j] <= OriginOf[i]
      BY <2>2, <2>4
    <3> QED BY <1>0, <3>1
  <2> QED BY <2>3, <2>4
<1> HIDE DEF Good
<1>2. S \in Good
  BY <1>1, FiniteInduction
<1> QED BY <1>2 DEF Good

\* The repair leaves every cursor at an author with a row, and adds none.
LEMMA Repaired ==
    ASSUME NEW rs, NEW cs, DOMAIN rs \subseteq Ids, IsFiniteSet(DOMAIN rs), IsFiniteSet(DOMAIN cs)
    PROVE  LET kept == RepairedCursors(rs, cs)
           IN  /\ kept = [n \in DOMAIN kept |-> kept[n]]
               /\ DOMAIN kept \subseteq DOMAIN cs
               /\ \A n \in DOMAIN kept : HasOrigin(rs, kept[n])
<1> DEFINE kept == RepairedCursors(rs, cs)
<1>1. CASE DOMAIN rs = {}
  BY <1>1 DEF RepairedCursors
<1>2. CASE DOMAIN rs # {}
  <2>1. PICK i \in DOMAIN rs : \A j \in DOMAIN rs : OriginOf[j] <= OriginOf[i]
    BY <1>2, GreatestAuthor
  <2>2. HasOrigin(rs, GreatestOrigin(rs))
    <3>1. GreatestOrigin(rs) \in {OriginOf[j] : j \in DOMAIN rs}
      BY <2>1 DEF GreatestOrigin
    <3> QED BY <3>1 DEF HasOrigin
  <2>3. kept = [n \in DOMAIN cs |-> IF HasOrigin(rs, cs[n]) THEN cs[n] ELSE GreatestOrigin(rs)]
    BY <1>2 DEF RepairedCursors
  <2> QED BY <2>2, <2>3
<1> QED BY <1>1, <1>2

\* Rows that go take their bytes with them.
LEMMA RowsDropped ==
    ASSUME NEW D, IsFiniteSet(D), NEW gone \in SUBSET D, NEW size, \A i \in D : size[i] \in Nat
    PROVE  /\ SumFunctionOnSet(size, gone) \in Nat
           /\ SumFunctionOnSet(size, D \ gone)
                = SumFunctionOnSet(size, D) - SumFunctionOnSet(size, gone)
           /\ Cardinality(gone) \in Nat
           /\ Cardinality(D \ gone) = Cardinality(D) - Cardinality(gone)
<1>1. IsFiniteSet(gone) /\ IsFiniteSet(D \ gone) /\ D \cap gone = gone
  BY FS_Subset
<1>2. SumFunctionOnSet(size, gone) \in Nat /\ SumFunctionOnSet(size, D \ gone) \in Nat
  BY <1>1, SumOfNaturals
<1>3. SumFunctionOnSet(size, D) = SumFunctionOnSet(size, D \ gone) + SumFunctionOnSet(size, gone)
  BY SumSplits
<1>4. Cardinality(gone) \in Nat /\ Cardinality(D \ gone) = Cardinality(D) - Cardinality(gone)
  BY <1>1, FS_CardinalityType, FS_Difference
<1> QED BY <1>2, <1>3, <1>4

LEMMA SealRetired ==
    ASSUME LogInv, SealInv, plan.kind = "retire_row", CommitRetireRow
    PROVE  RowsSeal' /\ CursorsSeal' /\ BytesAgree'
<1>1. plan.id \in DOMAIN rows
  BY DEF LogInv, PlanOK, Idle, NoPlan, NoOpPlan, InsertPlan, ExcludePlan, ConfirmPlan,
         RetireRowPlan, RetireNodePlan
<1> DEFINE id   == plan.id
           left == Restrict(rows, DOMAIN rows \ {id})
           kept == RepairedCursors(left, cursors)
           cost == RowBytes(rows[id])
           lost == Cardinality(DOMAIN cursors) - Cardinality(DOMAIN kept)
<1>2. rows' = left /\ cursors' = kept /\ Charge(-cost - CursorCost * lost, -1)
  BY DEF CommitRetireRow, RemoveRow
<1>3. /\ DOMAIN rows' = DOMAIN rows \ {id}
      /\ rows' = [i \in DOMAIN rows' |-> rows'[i]]
      /\ \A i \in DOMAIN rows' : rows'[i] = rows[i]
  BY <1>2 DEF Restrict
<1>4. /\ IsFiniteSet(DOMAIN rows') /\ Cardinality(DOMAIN rows') = Cardinality(DOMAIN rows) - 1
      /\ DOMAIN rows' \subseteq Ids
  BY <1>1, <1>3, SumsHere, FS_RemoveElement DEF LogInv, BookOK
<1>5. /\ kept = [n \in DOMAIN kept |-> kept[n]] /\ DOMAIN kept \subseteq DOMAIN cursors
      /\ \A n \in DOMAIN kept : HasOrigin(rows', kept[n])
  BY <1>2, <1>4, SumsHere, Repaired
<1> HIDE DEF left, kept
<1>6. /\ IsFiniteSet(DOMAIN kept) /\ Cardinality(DOMAIN kept) <= Cardinality(DOMAIN cursors)
      /\ Cardinality(DOMAIN kept) \in Nat
  BY <1>5, SumsHere, FS_Subset, FS_CardinalityType
<1>7. RowsSeal'
  BY <1>3, <1>4, SumsHere, LogAssumption DEF SealInv, RowsSeal
<1>8. CursorsSeal'
  BY <1>2, <1>5, <1>6, SumsHere, LogAssumption DEF SealInv, CursorsSeal
<1>9. RowSum(rows') = RowSum(rows) - cost
  <2> DEFINE old == RowSizes(rows)
             new == RowSizes(rows')
  <2>1. /\ \A i \in DOMAIN rows : old[i] \in Nat
        /\ old[id] = cost /\ \A i \in DOMAIN rows' : new[i] = old[i]
    BY <1>1, <1>3, SumsHere DEF RowSizes
  <2> HIDE DEF old, new
  <2>2. {id} \in SUBSET DOMAIN rows /\ IsFiniteSet(DOMAIN rows)
    BY <1>1, SumsHere
  <2>3. SumFunctionOnSet(old, DOMAIN rows \ {id})
          = SumFunctionOnSet(old, DOMAIN rows) - SumFunctionOnSet(old, {id})
    BY <2>1, <2>2, RowsDropped
  <2>4. SumFunctionOnSet(old, {id}) = cost
    BY <1>1, <2>1, SumOfOne
  <2>5. SumFunctionOnSet(new, DOMAIN rows') = SumFunctionOnSet(old, DOMAIN rows')
    BY <1>4, <2>1, SumSame
  <2> QED BY <1>3, <2>3, <2>4, <2>5 DEF RowSum, old, new
<1>10. /\ cost \in Nat /\ lost \in Nat /\ CursorCost * lost \in Nat
       /\ CursorCost * (-lost) = -(CursorCost * lost)
  BY <1>1, <1>6, SumsHere, LogAssumption
<1> HIDE DEF cost
<1>11. BytesAgree'
  <2> DEFINE content == -cost - CursorCost * lost
             change  == -cost
             places  == -lost
  <2>1. /\ content \in Int /\ content <= 0 /\ change \in Int /\ places \in Int
        /\ content = change + CursorCost * places
    BY <1>10
  <2>2. Fits(content, -1)
    BY <2>1, LessFits
  <2>3. RowSum(rows') = RowSum(rows) + change
    BY <1>9, <1>10, SumsHere
  <2>4. Cardinality(DOMAIN cursors') = Cardinality(DOMAIN cursors) + places
    BY <1>2, <1>6, SumsHere
  <2>5. Cardinality(DOMAIN rows') = Cardinality(DOMAIN rows) + (-1)
    BY <1>4, SumsHere
  <2>6. Charge(content, -1)
    BY <1>2
  <2> HIDE DEF content, change, places
  <2> QED BY <2>1, <2>2, <2>3, <2>4, <2>5, <2>6, Booked
<1> QED BY <1>7, <1>8, <1>11

\* A row without a node.
LEMMA WithoutNode ==
    ASSUME NEW r, RowOK(r), RowValid(r), NEW n
    PROVE  LET w == [required |-> r.required \ {n}, confirmed |-> r.confirmed \ {n},
                     excluded |-> r.excluded \ {n}]
           IN  /\ RowOK(w) /\ RowBytes(w) \in Nat /\ RowBytes(w) <= RowBytes(r)
               /\ ~Covered(w) => RowValid(w)
<1> DEFINE w == [required |-> r.required \ {n}, confirmed |-> r.confirmed \ {n},
                 excluded |-> r.excluded \ {n}]
<1>1. IsFiniteSet(r.required) /\ IsFiniteSet(r.confirmed) /\ IsFiniteSet(r.excluded)
  BY Sizes
<1>2. /\ IsFiniteSet(w.required) /\ IsFiniteSet(w.confirmed) /\ IsFiniteSet(w.excluded)
      /\ Cardinality(w.required) <= Cardinality(r.required)
      /\ Cardinality(w.confirmed) <= Cardinality(r.confirmed)
      /\ Cardinality(w.excluded) <= Cardinality(r.excluded)
  <2>1. /\ w.required \in SUBSET r.required /\ w.confirmed \in SUBSET r.confirmed
        /\ w.excluded \in SUBSET r.excluded
    OBVIOUS
  <2> HIDE DEF w
  <2> QED BY <1>1, <2>1, FS_Subset
<1>3. /\ Cardinality(w.required) \in Nat /\ Cardinality(w.confirmed) \in Nat
      /\ Cardinality(w.excluded) \in Nat
  <2> HIDE DEF w
  <2> QED BY <1>2, FS_CardinalityType
<1>4. RowOK(w)
  BY <1>2 DEF RowOK, Row
<1>5. RowBytes(w) \in Nat /\ RowBytes(w) <= RowBytes(r)
  <2> DEFINE a == Cardinality(w.required) + Cardinality(w.confirmed) + Cardinality(w.excluded)
             b == Cardinality(r.required) + Cardinality(r.confirmed) + Cardinality(r.excluded)
  <2>1. a \in Nat /\ b \in Nat /\ a <= b
    <3> HIDE DEF w
    <3> QED BY <1>2, <1>3, Sizes
  <2>2. RowBytes(w) = WireCost + NodeCost * a /\ RowBytes(r) = WireCost + NodeCost * b
    BY DEF RowBytes
  <2> HIDE DEF a, b
  <2>3. NodeCost * a \in Nat /\ NodeCost * b \in Nat /\ NodeCost * a <= NodeCost * b
    BY <2>1, LogAssumption
  <2> QED BY <2>2, <2>3, LogAssumption
<1>6. ASSUME ~Covered(w) PROVE RowValid(w)
  <2>1. /\ w.confirmed \cup w.excluded \subseteq w.required
        /\ w.confirmed \cap w.excluded = {}
    BY DEF RowValid
  <2>2. Cardinality(w.required) # 0
    <3>1. SUFFICES ASSUME Cardinality(w.required) = 0 PROVE Cardinality(w.confirmed) = 0
      BY <1>6 DEF Covered
    <3>2. w.required = {} /\ w.confirmed = {}
      <4> HIDE DEF w
      <4> QED BY <1>2, <2>1, <3>1, FS_EmptySet
    <3> QED BY <3>2, FS_EmptySet
  <2>3. Cardinality(w.required) \in 1..MaxNodesPerRow
    <3> HIDE DEF w
    <3> QED BY <1>2, <1>3, <2>2, Sizes, LogAssumption DEF RowValid
  <2> QED BY <1>6, <2>1, <2>3 DEF RowValid
<1> QED BY <1>4, <1>5, <1>6

LEMMA SealNodeRetired ==
    ASSUME LogInv, SealInv, plan.kind = "retire_node", CommitRetireNode
    PROVE  RowsSeal' /\ CursorsSeal' /\ BytesAgree'
<1> DEFINE n       == plan.node
           without == [i \in DOMAIN rows |->
                         [required  |-> rows[i].required \ {n},
                          confirmed |-> rows[i].confirmed \ {n},
                          excluded  |-> rows[i].excluded \ {n}]]
           touched == {i \in DOMAIN rows : n \in rows[i].required}
           gone    == {i \in touched : Covered(without[i])}
           left    == [i \in DOMAIN rows \ gone |-> IF i \in touched THEN without[i] ELSE rows[i]]
           kept    == IF gone = {} THEN cursors ELSE RepairedCursors(left, cursors)
           saved   == [i \in touched |-> RowBytes(rows[i]) - RowBytes(without[i])]
           leaving == [i \in gone |-> RowBytes(without[i])]
           lost    == Cardinality(DOMAIN cursors) - Cardinality(DOMAIN cursors')
           size    == [i \in DOMAIN rows |->
                         IF i \in touched THEN RowBytes(without[i]) ELSE RowBytes(rows[i])]
<1>1. /\ rows' = left
      /\ cursors' = Restrict(kept, DOMAIN kept \ {n})
      /\ Charge(-SumFunction(saved) - SumFunction(leaving) - CursorCost * lost,
                -Cardinality(gone))
  BY Zenon DEF CommitRetireNode
<1>2. ASSUME NEW i \in DOMAIN rows
      PROVE  /\ RowBytes(without[i]) \in Nat /\ RowBytes(without[i]) <= RowBytes(rows[i])
             /\ ~Covered(without[i]) => RowValid(without[i])
  BY SumsHere, WithoutNode
<1>3. /\ touched \in SUBSET DOMAIN rows /\ gone \in SUBSET touched /\ gone \in SUBSET DOMAIN rows
      /\ DOMAIN left = DOMAIN rows \ gone
      /\ \A i \in DOMAIN left : left[i] = IF i \in touched THEN without[i] ELSE rows[i]
  OBVIOUS
<1>4. \A i \in DOMAIN left : RowValid(left[i])
  <2> TAKE i \in DOMAIN left
  <2>1. CASE i \in touched
    <3>1. ~Covered(without[i]) /\ i \in DOMAIN rows /\ left[i] = without[i]
      BY <2>1
    <3> HIDE DEF left, without, touched, gone
    <3> QED BY <1>2, <3>1
  <2>2. CASE i \notin touched
    <3>1. i \in DOMAIN rows /\ left[i] = rows[i]
      BY <2>2
    <3> HIDE DEF left, without, touched, gone
    <3> QED BY <3>1, SumsHere
  <2> QED BY <2>1, <2>2
<1>5. \A i \in DOMAIN rows : /\ i \in touched => size[i] = RowBytes(without[i])
                             /\ i \notin touched => size[i] = RowBytes(rows[i])
  OBVIOUS
<1>6. /\ SumFunction(saved) = SumFunctionOnSet(saved, touched)
      /\ \A i \in touched : saved[i] = RowBytes(rows[i]) - RowBytes(without[i])
      /\ SumFunction(leaving) = SumFunctionOnSet(leaving, gone)
      /\ \A i \in gone : leaving[i] = RowBytes(without[i])
  BY DEF SumFunction
<1>7. left = [i \in DOMAIN left |-> left[i]]
  OBVIOUS
<1>8. \/ kept = RepairedCursors(left, cursors)
      \/ kept = cursors /\ gone = {}
  OBVIOUS
<1> HIDE DEF left, without, touched, gone, size, saved, leaving, kept
<1>9. /\ IsFiniteSet(DOMAIN rows) /\ IsFiniteSet(touched) /\ IsFiniteSet(gone)
      /\ IsFiniteSet(DOMAIN left) /\ DOMAIN left \subseteq Ids
  BY <1>3, SumsHere, FS_Subset DEF LogInv, BookOK
<1>10. \A i \in DOMAIN rows : size[i] \in Nat
  BY <1>2, <1>5, SumsHere
<1>11. /\ SumFunctionOnSet(saved, touched) \in Nat
       /\ SumFunctionOnSet(size, DOMAIN rows) = RowSum(rows) - SumFunctionOnSet(saved, touched)
  <2>1. \A i \in touched : saved[i] \in Nat /\ saved[i] = RowBytes(rows[i]) - size[i]
    BY <1>2, <1>3, <1>5, <1>6, SumsHere
  <2>2. \A i \in DOMAIN rows \ touched : size[i] = RowBytes(rows[i])
    BY <1>5
  <2>3. \A i \in DOMAIN rows : size[i] \in Int
    BY <1>10
  <2>4. SumFunctionOnSet(size, DOMAIN rows) = RowSum(rows) - SumFunctionOnSet(saved, touched)
    BY <1>3, <2>1, <2>2, <2>3, RowsRewritten
  <2>5. SumFunctionOnSet(saved, touched) \in Nat
    BY <1>9, <2>1, SumOfNaturals
  <2> QED BY <2>4, <2>5
<1>12. /\ SumFunctionOnSet(leaving, gone) \in Nat
       /\ SumFunctionOnSet(size, DOMAIN left)
            = SumFunctionOnSet(size, DOMAIN rows) - SumFunctionOnSet(leaving, gone)
       /\ Cardinality(gone) \in Nat
       /\ Cardinality(DOMAIN left) = Cardinality(DOMAIN rows) - Cardinality(gone)
  <2>1. \A i \in gone : leaving[i] = size[i]
    BY <1>3, <1>5, <1>6
  <2>2. SumFunctionOnSet(leaving, gone) = SumFunctionOnSet(size, gone)
    BY <1>9, <2>1, SumSame
  <2>3. /\ SumFunctionOnSet(size, gone) \in Nat
        /\ SumFunctionOnSet(size, DOMAIN rows \ gone)
             = SumFunctionOnSet(size, DOMAIN rows) - SumFunctionOnSet(size, gone)
        /\ Cardinality(gone) \in Nat
        /\ Cardinality(DOMAIN rows \ gone) = Cardinality(DOMAIN rows) - Cardinality(gone)
    BY <1>3, <1>9, <1>10, RowsDropped
  <2> QED BY <1>3, <2>2, <2>3
<1>13. RowSum(rows') = SumFunctionOnSet(size, DOMAIN left)
  <2> DEFINE new == RowSizes(left)
  <2>1. \A i \in DOMAIN left : new[i] = size[i]
    BY <1>3, <1>5 DEF RowSizes
  <2> HIDE DEF new
  <2>2. SumFunctionOnSet(new, DOMAIN left) = SumFunctionOnSet(size, DOMAIN left)
    BY <1>9, <2>1, SumSame
  <2> QED BY <1>1, <2>2 DEF RowSum, new
<1>14. /\ kept = [m \in DOMAIN kept |-> kept[m]] /\ DOMAIN kept \subseteq DOMAIN cursors
       /\ \A m \in DOMAIN kept : HasOrigin(left, kept[m])
  <2>1. CASE kept = RepairedCursors(left, cursors)
    BY <1>9, <2>1, SumsHere, Repaired
  <2>2. CASE kept = cursors /\ gone = {}
    BY <1>3, <2>2 DEF SealInv, CursorsSeal, HasOrigin
  <2> QED BY <1>8, <2>1, <2>2
<1>15. /\ cursors' = [m \in DOMAIN cursors' |-> cursors'[m]]
       /\ DOMAIN cursors' \subseteq DOMAIN cursors
       /\ \A m \in DOMAIN cursors' : HasOrigin(left, cursors'[m])
  BY <1>1, <1>14 DEF Restrict
<1>16. /\ IsFiniteSet(DOMAIN cursors') /\ Cardinality(DOMAIN cursors') \in Nat
       /\ Cardinality(DOMAIN cursors') <= Cardinality(DOMAIN cursors)
  BY <1>15, SumsHere, FS_Subset, FS_CardinalityType
<1>17. RowsSeal'
  <2>1. Cardinality(DOMAIN left) <= MaxRows
    BY <1>12, SumsHere, LogAssumption DEF SealInv, RowsSeal
  <2>2. \A i, j \in DOMAIN left : i # j => OriginOf[i] # OriginOf[j] \/ HlcOf[i] # HlcOf[j]
    BY <1>3 DEF SealInv, RowsSeal
  <2> QED BY <1>1, <1>4, <1>7, <1>9, <2>1, <2>2 DEF RowsSeal
<1>18. CursorsSeal'
  <2>1. Cardinality(DOMAIN cursors') <= MaxCursors /\ DOMAIN cursors' \subseteq Nodes
    BY <1>15, <1>16, SumsHere, LogAssumption DEF SealInv, CursorsSeal
  <2> QED BY <1>1, <1>15, <1>16, <2>1 DEF CursorsSeal
<1>19. BytesAgree'
  <2> DEFINE s == SumFunctionOnSet(saved, touched)
             t == SumFunctionOnSet(leaving, gone)
             c == CursorCost * lost
             content  == -s - t - c
             change   == -s - t
             places   == -lost
             prefixes == -Cardinality(gone)
  <2>1. lost \in Nat /\ c \in Nat /\ CursorCost * (-lost) = -c
    BY <1>16, SumsHere, LogAssumption
  <2>2. Charge(content, prefixes)
    BY <1>1, <1>6
  <2>3. RowSum(rows') = RowSum(rows) - s - t
    BY <1>11, <1>12, <1>13, SumsHere
  <2>4. Cardinality(DOMAIN cursors') = Cardinality(DOMAIN cursors) + places
    BY <1>16, SumsHere
  <2>5. Cardinality(DOMAIN rows') = Cardinality(DOMAIN rows) + prefixes
    BY <1>1, <1>12, SumsHere
  <2>6. s \in Nat /\ t \in Nat /\ Cardinality(gone) \in Nat /\ places \in Int
    BY <1>11, <1>12, <2>1
  <2>7. content = change + CursorCost * places
    <3> HIDE DEF s, t, c, lost
    <3> QED BY <2>1, <2>6
  <2> HIDE DEF s, t, c, lost, places
  <2>8. /\ content \in Int /\ content <= 0 /\ change \in Int
        /\ prefixes \in Int /\ prefixes <= 0
        /\ RowSum(rows') = RowSum(rows) + change
    BY <2>1, <2>3, <2>6, SumsHere
  <2> HIDE DEF content, change, prefixes
  <2>9. Fits(content, prefixes)
    BY <2>8, LessFits
  <2> QED BY <2>2, <2>4, <2>5, <2>6, <2>7, <2>8, <2>9, Booked
<1> QED BY <1>17, <1>18, <1>19

-----------------------------------------------------------------------------
(* Pages and their cursors. *)

\* The sweep after origin c reaches one of the authors of some rows first, and
\* one of them last.
LEMMA SweepEnds ==
    ASSUME NEW c \in Nat, NEW S \in SUBSET Ids, IsFiniteSet(S), S # {}
    PROVE  /\ \E i \in S : \A j \in S : OriginOf[j] = OriginOf[i] \/ Before(c, OriginOf[i], OriginOf[j])
           /\ \E i \in S : \A j \in S : OriginOf[j] = OriginOf[i] \/ Before(c, OriginOf[j], OriginOf[i])
<1>0. \A i \in S : OriginOf[i] \in Nat
  BY LogAssumption
<1>1. ASSUME NEW T \in SUBSET S, T # {}
      PROVE  \E i \in T : \A j \in T : OriginOf[i] <= OriginOf[j]
  <2> DEFINE authors == {OriginOf[i] : i \in T}
  <2>1. authors \in SUBSET Nat /\ authors # {}
    BY <1>0, <1>1
  <2>2. \E m \in authors : \A p \in authors : m <= p
    <3> HIDE DEF authors
    <3> QED BY <2>1, LeastNatural
  <2> QED BY <2>2
<1>2. ASSUME NEW T \in SUBSET S, T # {}
      PROVE  \E i \in T : \A j \in T : OriginOf[j] <= OriginOf[i]
  <2>1. T \in SUBSET Ids /\ IsFiniteSet(T)
    BY FS_Subset
  <2> QED BY <1>2, <2>1, GreatestAuthor
<1> DEFINE above == {i \in S : OriginOf[i] > c}
           below == {i \in S : OriginOf[i] <= c}
<1>3. above \in SUBSET S /\ below \in SUBSET S /\ S = above \cup below
  BY <1>0
<1>4. \E i \in S : \A j \in S : OriginOf[j] = OriginOf[i] \/ Before(c, OriginOf[i], OriginOf[j])
  <2>1. CASE above # {}
    <3>1. PICK i \in above : \A j \in above : OriginOf[i] <= OriginOf[j]
      BY <1>1, <1>3, <2>1
    <3> QED BY <1>0, <3>1 DEF Before
  <2>2. CASE above = {}
    <3>1. PICK i \in S : \A j \in S : OriginOf[i] <= OriginOf[j]
      BY <1>1
    <3> QED BY <1>0, <2>2, <3>1 DEF Before
  <2> QED BY <2>1, <2>2
<1>5. \E i \in S : \A j \in S : OriginOf[j] = OriginOf[i] \/ Before(c, OriginOf[j], OriginOf[i])
  <2>1. CASE below # {}
    <3>1. PICK i \in below : \A j \in below : OriginOf[j] <= OriginOf[i]
      BY <1>2, <1>3, <2>1
    <3> QED BY <1>0, <3>1 DEF Before
  <2>2. CASE below = {}
    <3>1. PICK i \in S : \A j \in S : OriginOf[j] <= OriginOf[i]
      BY <1>2
    <3> QED BY <1>0, <2>2, <3>1 DEF Before
  <2> QED BY <2>1, <2>2
<1> QED BY <1>4, <1>5

LEMMA MissingHere ==
    ASSUME LogInv, SealInv, NEW node
    PROVE  /\ MissingRows(node) \in SUBSET DOMAIN rows /\ MissingRows(node) \in SUBSET Ids
           /\ IsFiniteSet(MissingRows(node))
           /\ \A i \in MissingRows(node) : OriginOf[i] \in MissingOrigins(node)
           /\ \A o \in MissingOrigins(node) : o \in Nat /\ \E i \in MissingRows(node) : OriginOf[i] = o
<1>1. MissingRows(node) \in SUBSET DOMAIN rows /\ MissingRows(node) \in SUBSET Ids
  BY DEF MissingRows, LogInv, BookOK
<1>2. IsFiniteSet(MissingRows(node))
  BY <1>1, SumsHere, FS_Subset
<1> QED BY <1>1, <1>2, LogAssumption DEF MissingOrigins

LEMMA CursorType ==
    ASSUME LogInv, SealInv, NEW node, MissingRows(node) # {}
    PROVE  CursorFor(node) \in Nat
<1>1. CASE node \in DOMAIN cursors
  BY <1>1, LogAssumption DEF CursorFor, SealInv, CursorsSeal, HasOrigin, LogInv, BookOK
<1>2. CASE node \notin DOMAIN cursors
  <2>1. PICK i \in MissingRows(node) : \A j \in MissingRows(node) : OriginOf[j] <= OriginOf[i]
    BY MissingHere, GreatestAuthor
  <2>2. \A p \in MissingOrigins(node) : p <= OriginOf[i]
    BY <2>1, MissingHere
  <2>3. CursorFor(node) \in MissingOrigins(node)
    BY <1>2, <2>1, <2>2, MissingHere DEF CursorFor
  <2> QED BY <2>3, MissingHere
<1> QED BY <1>1, <1>2

\* A page visits somebody, and its cursor stops at an author that it visited.
LEMMA SweepStops ==
    ASSUME LogInv, SealInv, NEW node, MissingRows(node) # {}
    PROVE  (CHOOSE o \in Visited(node) :
              \A p \in Visited(node) \ {o} : Before(CursorFor(node), p, o)) \in MissingOrigins(node)
<1> DEFINE c == CursorFor(node)
           S == {i \in MissingRows(node) : OriginOf[i] \in Visited(node)}
<1>1. c \in Nat
  BY CursorType
<1>2. Visited(node) \subseteq MissingOrigins(node)
  BY DEF Visited
<1>3. S # {}
  <2> HIDE DEF c
  <2>1. PICK i \in MissingRows(node) :
          \A j \in MissingRows(node) : OriginOf[j] = OriginOf[i] \/ Before(c, OriginOf[i], OriginOf[j])
    BY <1>1, MissingHere, SweepEnds
  <2>2. ASSUME NEW p \in MissingOrigins(node), Before(c, p, OriginOf[i]) PROVE FALSE
    <3>1. p = OriginOf[i] \/ Before(c, OriginOf[i], p)
      BY <2>1, MissingHere
    <3>2. p \in Nat /\ OriginOf[i] \in Nat
      BY MissingHere
    <3> QED BY <1>1, <2>2, <3>1, <3>2 DEF Before
  <2> DEFINE earlier == {p \in MissingOrigins(node) :
                           Before(c, p, OriginOf[i]) /\ ~ExcludedAtHead(node, p)}
  <2>3. earlier = {}
    BY <2>2
  <2>4. Cardinality(earlier) < PageSize
    <3> HIDE DEF earlier
    <3> QED BY <2>3, FS_EmptySet, LogAssumption
  <2>5. OriginOf[i] \in Visited(node)
    BY <2>4, MissingHere DEF Visited, c
  <2> QED BY <2>5
<1>4. S \in SUBSET Ids /\ IsFiniteSet(S)
  BY MissingHere, FS_Subset
<1> HIDE DEF c
<1>5. PICK i \in S : \A j \in S : OriginOf[j] = OriginOf[i] \/ Before(c, OriginOf[j], OriginOf[i])
  <2> HIDE DEF S
  <2> QED BY <1>1, <1>3, <1>4, SweepEnds
<1>6. \A p \in Visited(node) \ {OriginOf[i]} : Before(c, p, OriginOf[i])
  <2> TAKE p \in Visited(node) \ {OriginOf[i]}
  <2>1. PICK j \in MissingRows(node) : OriginOf[j] = p
    BY <1>2, MissingHere
  <2> QED BY <1>5, <2>1
<1>7. \E o \in Visited(node) : \A p \in Visited(node) \ {o} : Before(c, p, o)
  BY <1>5, <1>6
<1>8. (CHOOSE o \in Visited(node) : \A p \in Visited(node) \ {o} : Before(c, p, o)) \in Visited(node)
  BY <1>7
<1> QED BY <1>2, <1>8 DEF c

\* A row whose exclusion is spent is smaller by a node.
LEMMA SpentRow ==
    ASSUME NEW r, RowOK(r), RowValid(r), NEW node, node \in r.excluded
    PROVE  /\ RowValid(SpendExclusion(r, node)) /\ RowBytes(SpendExclusion(r, node)) \in Nat
           /\ RowBytes(r) - RowBytes(SpendExclusion(r, node)) \in Nat
<1> DEFINE s == [required |-> r.required, confirmed |-> r.confirmed,
                 excluded |-> r.excluded \ {node}]
<1>1. SpendExclusion(r, node) = s
  BY DEF SpendExclusion, RowOK, Row
<1>2. RowOK(s) /\ RowValid(s)
  BY DEF RowOK, Row, RowValid, Covered
<1>3. Cardinality(s.excluded) = Cardinality(r.excluded) - 1
  BY Sizes, FS_RemoveElement
<1> DEFINE q == Cardinality(r.required) + Cardinality(r.confirmed)
           x == Cardinality(r.excluded)
<1>4. /\ RowBytes(s) = WireCost + NodeCost * (q + (x - 1))
      /\ RowBytes(r) = WireCost + NodeCost * (q + x)
  BY <1>3 DEF RowBytes
<1>5. q \in Nat /\ x \in Nat /\ NodeCost \in Nat /\ WireCost \in Nat
  BY Sizes, LogAssumption
<1>6. RowBytes(s) \in Nat
  <2> HIDE DEF s
  <2> QED BY <1>2, Sizes
<1> HIDE DEF q, x, s
<1>7. NodeCost * (q + x) = NodeCost * (q + (x - 1)) + NodeCost /\ NodeCost * (q + (x - 1)) \in Int
  BY <1>5
<1> QED BY <1>1, <1>2, <1>4, <1>5, <1>6, <1>7

LEMMA SealCollected ==
    ASSUME LogInv, SealInv, NEW node \in Nodes, CollectPage(node)
    PROVE  SealInv'
<1> DEFINE seen   == Visited(node)
           passed == {OriginHead(node, o) : o \in {p \in seen : ExcludedAtHead(node, p)}}
           last   == CHOOSE o \in seen : \A p \in seen \ {o} : Before(CursorFor(node), p, o)
           saved  == [i \in passed |-> RowBytes(rows[i]) - RowBytes(rows'[i])]
           place  == IF node \in DOMAIN cursors THEN 0 ELSE CursorCost
<1>1. /\ Idle /\ plan' = plan /\ MissingRows(node) # {}
      /\ node \in DOMAIN cursors \/ (Cardinality(DOMAIN cursors) < MaxCursors /\ Fits(CursorCost, 0))
      /\ cursors' = Put(cursors, node, last)
      /\ rows' = [i \in DOMAIN rows |->
                    IF i \in passed THEN SpendExclusion(rows[i], node) ELSE rows[i]]
      /\ Charge(place - SumFunction(saved), 0)
  BY Zenon DEF CollectPage
<1>2. /\ passed \in SUBSET DOMAIN rows
      /\ \A i \in passed : node \in rows[i].excluded
  <2>1. ASSUME NEW o \in seen, ExcludedAtHead(node, o)
        PROVE  OriginHead(node, o) \in DOMAIN rows /\ node \in rows[OriginHead(node, o)].excluded
    BY <2>1, HeadIsLowest, MissingHere DEF Visited, ExcludedAtHead, LogInv
  <2> QED BY <2>1
<1>3. last \in MissingOrigins(node)
  BY <1>1, SweepStops
<1>4. /\ SumFunction(saved) = SumFunctionOnSet(saved, passed)
      /\ \A i \in passed : saved[i] = RowBytes(rows[i]) - RowBytes(rows'[i])
  BY DEF SumFunction
<1> HIDE DEF passed, seen, saved, last
<1>5. /\ DOMAIN rows' = DOMAIN rows /\ rows' = [i \in DOMAIN rows' |-> rows'[i]]
      /\ \A i \in passed : rows'[i] = SpendExclusion(rows[i], node)
      /\ \A i \in DOMAIN rows \ passed : rows'[i] = rows[i]
  BY <1>1, <1>2
<1>6. \A i \in DOMAIN rows : RowValid(rows'[i]) /\ RowBytes(rows'[i]) \in Nat
  BY <1>2, <1>5, SumsHere, SpentRow
<1>7. \A i \in passed : saved[i] \in Nat
  BY <1>2, <1>4, <1>5, SumsHere, SpentRow
<1>8. RowsSeal'
  BY <1>5, <1>6 DEF SealInv, RowsSeal
<1>9. /\ DOMAIN cursors' = DOMAIN cursors \cup {node}
      /\ cursors' = [m \in DOMAIN cursors' |-> cursors'[m]]
      /\ cursors'[node] = last /\ \A m \in DOMAIN cursors \ {node} : cursors'[m] = cursors[m]
  BY <1>1 DEF Put
<1> DEFINE places == IF node \in DOMAIN cursors THEN 0 ELSE 1
<1>10. /\ IsFiniteSet(DOMAIN cursors')
       /\ Cardinality(DOMAIN cursors') = Cardinality(DOMAIN cursors) + places
       /\ Cardinality(DOMAIN cursors') <= MaxCursors
  <2>1. /\ IsFiniteSet(DOMAIN cursors')
        /\ Cardinality(DOMAIN cursors') = IF node \in DOMAIN cursors THEN Cardinality(DOMAIN cursors)
                                          ELSE Cardinality(DOMAIN cursors) + 1
    BY <1>9, SumsHere, FS_AddElement
  <2> QED BY <1>1, <2>1, SumsHere, LogAssumption DEF SealInv, CursorsSeal
<1>11. CursorsSeal'
  <2>1. HasOrigin(rows', last)
    BY <1>3, <1>5, MissingHere DEF HasOrigin
  <2>2. \A m \in DOMAIN cursors : HasOrigin(rows', cursors[m])
    BY <1>5 DEF SealInv, CursorsSeal, HasOrigin
  <2> QED BY <1>9, <1>10, <2>1, <2>2 DEF SealInv, CursorsSeal
<1>12. BytesAgree'
  <2> DEFINE s       == SumFunctionOnSet(saved, passed)
             content == place - s
             change  == -s
             new     == RowSizes(rows')
  <2>1. \A i \in DOMAIN rows : new[i] = RowBytes(rows'[i])
    BY <1>5 DEF RowSizes
  <2>2. /\ \A i \in DOMAIN rows : new[i] \in Int
        /\ \A i \in DOMAIN rows \ passed : new[i] = RowBytes(rows[i])
        /\ \A i \in passed : saved[i] = RowBytes(rows[i]) - new[i]
    BY <1>2, <1>4, <1>5, <1>6, <2>1
  <2> HIDE DEF new
  <2>3. SumFunctionOnSet(new, DOMAIN rows) = RowSum(rows) - s
    BY <1>2, <2>2, RowsRewritten
  <2>4. RowSum(rows') = RowSum(rows) - s
    BY <1>5, <2>3 DEF RowSum, new
  <2>5. s \in Nat
    <3>1. IsFiniteSet(passed)
      BY <1>2, SumsHere, FS_Subset
    <3> QED BY <1>7, <3>1, SumOfNaturals
  <2>6. Charge(content, 0)
    BY <1>1, <1>4
  <2>7. /\ content \in Int /\ change \in Int /\ places \in Int
        /\ content = change + CursorCost * places
    <3> HIDE DEF s
    <3> QED BY <2>5, LogAssumption
  <2>8. RowSum(rows') = RowSum(rows) + change
    <3> HIDE DEF s
    <3> QED BY <2>4, <2>5, SumsHere
  <2>9. Fits(content, 0)
    <3>1. CASE node \in DOMAIN cursors
      <4>1. content <= 0
        <5> HIDE DEF s
        <5> QED BY <2>5, <3>1
      <4> HIDE DEF content
      <4> QED BY <2>7, <4>1, LessFits
    <3>2. CASE node \notin DOMAIN cursors
      <4>1. Fits(CursorCost, 0)
        BY <1>1, <3>2
      <4>2. content \in Int /\ content <= CursorCost /\ CursorCost \in Nat
        <5> HIDE DEF s
        <5> QED BY <2>5, <3>2, LogAssumption
      <4>3. aggregate \in Int /\ body \in Int
        <5>1. RowPrefix * Cardinality(DOMAIN rows) \in Int
          BY SumsHere, LogAssumption
        <5> QED BY <5>1, SumsHere DEF SealInv, BytesAgree, RecomputedBody
      <4>4. RowPrefix * 0 = 0
        BY LogAssumption
      <4> HIDE DEF content
      <4> QED BY <4>1, <4>2, <4>3, <4>4, LogAssumption DEF Fits
    <3> QED BY <3>1, <3>2
  <2>10. Cardinality(DOMAIN rows') = Cardinality(DOMAIN rows) + 0
    BY <1>5, SumsHere
  <2> HIDE DEF content, change, places
  <2> QED BY <1>10, <2>6, <2>7, <2>8, <2>9, <2>10, Booked
<1>13. PlanFits'
  BY <1>1 DEF PlanFits, Idle, NoPlan
<1> QED BY <1>8, <1>11, <1>12, <1>13 DEF SealInv

-----------------------------------------------------------------------------
(* The theorems on what can be carried over. *)

LEMMA SealInit == Init => SealInv
<1> SUFFICES ASSUME Init PROVE SealInv
  OBVIOUS
<1>1. DOMAIN rows = {} /\ DOMAIN cursors = {}
  BY DEF Init
<1>2. IsFiniteSet({}) /\ Cardinality({}) = 0
  BY FS_EmptySet
<1>3. Recomputed(rows, cursors) = 0 /\ RecomputedBody(rows, cursors) = 0
  <2>1. SumFunctionOnSet(RowSizes(rows), {}) = 0
    BY SumOfNone
  <2>2. Recomputed(rows, cursors) = SumFunctionOnSet(RowSizes(rows), {})
                                    + CursorCost * Cardinality(DOMAIN cursors)
    BY <1>1 DEF Recomputed, RowSizes, SumFunction
  <2>3. CursorCost * 0 = 0 /\ RowPrefix * 0 = 0
    BY LogAssumption
  <2> QED BY <1>1, <1>2, <2>1, <2>2, <2>3 DEF RecomputedBody
<1>4. RowsSeal /\ CursorsSeal
  BY <1>1, <1>2, LogAssumption DEF Init, RowsSeal, CursorsSeal
<1>5. BytesAgree /\ PlanFits
  BY <1>3, LogAssumption DEF Init, BytesAgree, PlanFits, NoPlan
<1> QED BY <1>4, <1>5 DEF SealInv

LEMMA SealStep == LogInv /\ SealInv /\ [Next]_vars => SealInv'
<1> SUFFICES ASSUME LogInv, SealInv, [Next]_vars PROVE SealInv'
  OBVIOUS
<1>1. CASE UNCHANGED vars
  BY <1>1, SealKept DEF vars, log, SealInv, PlanFits, Fits
<1>2. CASE \E node \in Nodes : CollectPage(node)
  BY <1>2, SealCollected
<1>3. CASE Commit
  <2>1. RowsSeal' /\ CursorsSeal' /\ BytesAgree'
    <3>1. CASE plan.kind = "no_op" /\ UNCHANGED <<log, owed>>
      BY <3>1 DEF SealInv, RowsSeal, CursorsSeal, BytesAgree, log
    <3> QED BY <1>3, <3>1, SealInserted, SealExcluded, SealConfirmed, SealRetired,
               SealNodeRetired DEF Commit
  <2> QED BY <1>3, <2>1, SealCommitted
<1> QED BY <1>1, <1>2, <1>3, SealPrepared, SealRestored DEF Next

\* The counters, rows and cursors are what a checkpoint tests.
THEOREM SealInvariant == Spec => [](LogInv /\ SealInv)
<1>1. Init => LogInv /\ SealInv
  BY LogInit, SealInit
<1>2. LogInv /\ SealInv /\ [Next]_vars => (LogInv /\ SealInv)'
  BY LogStep, SealStep
<1> QED BY <1>1, <1>2, PTL DEF Spec

\* The types, the byte counters within their bounds among them.
THEOREM LogTypes == Spec => []TypeOK
<1>1. ASSUME LogInv, SealInv PROVE TypeOK
  <2>1. rows \in [DOMAIN rows -> Row]
    BY <1>1 DEF SealInv, RowsSeal, LogInv, BookOK, RowOK
  <2>2. cursors \in [DOMAIN cursors -> Nat]
    BY <1>1, LogAssumption DEF SealInv, CursorsSeal, HasOrigin, LogInv, BookOK
  <2>3. aggregate \in 0..MaxAggregate /\ body \in 0..MaxBody
    <3>1. RowPrefix * Cardinality(DOMAIN rows) \in Nat
      BY <1>1, SumsHere, LogAssumption
    <3> QED BY <1>1, <3>1, SumsHere, LogAssumption DEF SealInv, BytesAgree, RecomputedBody
  <2> QED BY <1>1, <2>1, <2>2, <2>3 DEF TypeOK, LogInv, BookOK, SealInv, CursorsSeal
<1> QED BY <1>1, SealInvariant, PTL

\* encodeCheckpoint and decodeCheckpoint: a log that is not in the middle of a
\* mutation can always be carried over a hot upgrade.
THEOREM EveryLogSeals == Spec => []EveryStateSeals
<1>1. ASSUME LogInv, SealInv PROVE EveryStateSeals
  BY <1>1 DEF EveryStateSeals, Encodes, Decodes, WithinLimits, SealInv, RowsSeal, CursorsSeal,
              BytesAgree
<1> QED BY <1>1, SealInvariant, PTL

=============================================================================
