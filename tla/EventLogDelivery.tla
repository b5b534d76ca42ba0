-------------------------- MODULE EventLogDelivery --------------------------
(***************************************************************************)
(* The event log and the nodes it sends to: what is paged is what a target *)
(* can acknowledge.  A target acknowledges durably a row only after a page *)
(* brought it there, and a hop offers a row again at most once in the life *)
(* of the row (it stops when it has our own acknowledgement).  Membership  *)
(* is fixed and the calls on the log are completed: reconfiguration and    *)
(* abandoned calls are in EventLog's own behaviours.                       *)
(***************************************************************************)
EXTENDS EventLog

CONSTANT Courses \* bounds of the model: which events are written, which of
                 \* them hops offer again, and whether targets are attentive,
                 \* that is acknowledge what they have

ASSUME CourseAssumption ==
    Courses \subseteq [ids : SUBSET Ids, repeats : SUBSET Ids, attentive : BOOLEAN]

VARIABLES
    course, \* the course of this behaviour
    seen,   \* the pairs <<id, node>> of the rows that were paged to a node
    echoed  \* the pairs <<id, node>> of the rows that a hop offered again

dvars == <<rows, cursors, aggregate, body, plan, page, owed, course, seen, echoed>>

DeliveryInit == Init /\ course \in Courses /\ seen = {} /\ echoed = {}

\* The pairs whose row is there after the step.
Living(pairs) == {p \in pairs : p[1] \in DOMAIN rows'}

Insert(id, ingress, required) ==
    /\ id \in course.ids
    /\ PrepareInsert(id, ingress, required)
    /\ UNCHANGED <<course, seen, echoed>>

Paged(node) ==
    /\ CollectPage(node)
    /\ seen' = Living(seen \cup {<<i, node>> : i \in page'.ids})
    /\ echoed' = Living(echoed)
    /\ UNCHANGED course

Acknowledge(id, node) ==
    /\ <<id, node>> \in seen
    /\ PrepareAck(id, node)
    /\ UNCHANGED <<course, seen, echoed>>

Echo(id, node) ==
    /\ id \in course.repeats
    /\ <<id, node>> \notin echoed
    /\ PrepareDuplicate(id, node)
    /\ echoed' = echoed \cup {<<id, node>>}
    /\ UNCHANGED <<course, seen>>

Finish ==
    /\ Commit
    /\ seen' = Living(seen)
    /\ echoed' = Living(echoed)
    /\ UNCHANGED course

DeliveryNext ==
    \/ \E id \in Ids, ingress \in Nodes \cup {NoNode}, required \in Memberships :
         Insert(id, ingress, required)
    \/ \E id \in Ids, node \in Nodes : Echo(id, node) \/ Acknowledge(id, node)
    \/ \E node \in Nodes : Paged(node)
    \/ Finish

\* The egress scheduler collects pages for ever; an attentive node that has a
\* row and is not confirmed acknowledges it for ever, another one what and when
\* it likes, or nothing; no plan is left open.
Fairness ==
    /\ WF_dvars(Finish)
    /\ \A n \in Nodes : SF_dvars(Paged(n))
    /\ \A i \in Ids, n \in Nodes :
         SF_dvars(course.attentive /\ Acknowledge(i, n) /\ Missing(rows[i], n))

DeliverySpec == DeliveryInit /\ [][DeliveryNext]_dvars /\ Fairness

\* "Once every required node confirms, the full wire retires": a row that every
\* node it is owed to has, and acknowledges, is not retained for ever.
AcknowledgedRowsRetire ==
    \A i \in Ids :
      (i \in DOMAIN rows /\ \A n \in owed[i] : <<i, n>> \in seen) ~> (i \notin DOMAIN rows)

\* A page has a place for every author.
RoomForAll == Cardinality({OriginOf[i] : i \in course.ids}) <= PageSize

\* More: with attentive targets and pages as long as there are authors, every
\* row retires, for it reaches each node it is owed to, whatever was excluded
\* on the way.
EveryRowRetires ==
    \A i \in Ids : (course.attentive /\ RoomForAll /\ i \in DOMAIN rows) ~> (i \notin DOMAIN rows)

Shown(n, o) == page.target = n /\ \E i \in page.ids : OriginOf[i] = o

Served(n, o) == (o \in MissingOrigins(n)) ~> (o \notin MissingOrigins(n) \/ Shown(n, o))

\* "The durable per-target cursor rotates origins for fairness": an author that
\* has a row missing at a target is shown to it, or has nothing missing there
\* any more.
OriginsAreServed == \A n \in Nodes, o \in {OriginOf[i] : i \in Ids} : Served(n, o)

\* A row retires and the repair throws the cursor of n to the greatest author.
FallsBack(n) == /\ n \in DOMAIN cursors \cap DOMAIN cursors'
                /\ cursors'[n] # cursors[n]
                /\ page' = NoPage

\* What the rotation does give, with pages of any length and whatever targets
\* acknowledge: if the cursor of a target is thrown back only finitely often,
\* every author is served there, and none waits for the confirmation of
\* another author's row, for rows to stop coming or for exclusions to end.
AuthorsTakeTurns ==
    \A n \in Nodes : <>[][~FallsBack(n)]_dvars =>
        \A o \in {OriginOf[i] : i \in Ids} : Served(n, o)

=============================================================================
